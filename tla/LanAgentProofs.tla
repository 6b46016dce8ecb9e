---------------------------- MODULE LanAgentProofs ----------------------------
(***************************************************************************)
(* Proofs about the Agent on the LAN.  LanAgent: for any number of host    *)
(* threads, devices and sessions, overlapping calls of connect_printer     *)
(* included.  SubtaskCovers, which the reports of such a session feed: for *)
(* any names, prints, reports on their way and size of the table of        *)
(* subtasks.                                                               *)
(***************************************************************************)
EXTENDS LanAgent, SubtaskCovers, FiniteSetTheorems, SequenceTheorems, TLAPS

(***************************************************************************)
(* The inductive invariant.                                                *)
(***************************************************************************)
Labels == {"idle", "join", "prep", "snap", "register", "start", "install",
           "swap_join", "disc", "send", "file", "recheck", "claim"}

(* Where a call is about to install or to destroy the session it holds.    *)
Holding == {"join", "install", "swap_join", "disc"}

CallType == [at : Labels, s : Nat, d : Devs \cup {None}, switching : BOOLEAN]

Running == {"run", "bye"}

TypeOK ==
    /\ lan \in Nat /\ made \in Nat /\ lan <= made
    /\ run \in [Sessions -> {"new", "run", "bye", "gone"}]
    /\ call \in [Callers -> CallType]
    /\ \A c \in Callers : call[c].s <= made
    /\ \A c \in Senders : call[c].at \in {"idle", "send"}

(* The session pointers of the host threads' calls and lan_session_ are    *)
(* all different: a session is moved from one to the other, never copied.  *)
Distinct ==
    /\ \A c \in Ui : call[c].s # 0 => call[c].s # lan
    /\ \A c, u \in Ui : call[c].s # 0 /\ call[c].s = call[u].s => c = u
    /\ \A c \in Ui : call[c].at \in Holding => call[c].s # 0

(* A network thread runs only for a session somebody holds, a number not   *)
(* handed out yet stands for none, and a trust bundle needs a thread.      *)
Held ==
    \A s \in Sessions :
        /\ run[s] \in Running =>
             s = lan \/ \E c \in Ui : call[c].at \in Holding /\ call[c].s = s
        /\ s > made => run[s] = "new"
        /\ s \in bundles => run[s] \in Running

(* CertifiedTrusted, and the file is there for what is still to be         *)
(* registered.                                                             *)
Certs == CertifiedTrusted /\ certified \subseteq certFile

IInv == TypeOK /\ Distinct /\ Held /\ Certs
USE DEF At, Locked

(***************************************************************************)
(* Who holds which session.                                                *)
(***************************************************************************)

(* A UI call is the call of a caller, and no sender's.                     *)
LEMMA UiCallers ==
    /\ Ui \subseteq Callers /\ Senders \subseteq Callers
    /\ \A c \in Ui : c \notin Senders
  BY LanParameters DEF Callers

(* Sessions are numbered from 1.                                           *)
LEMMA SessionIds == \A s \in Sessions : s \in Nat /\ s # 0
  BY LanParameters DEF Sessions

(* A call moves on; the other threads' calls stay where they are.          *)
LEMMA CallSet ==
    ASSUME TypeOK, NEW c \in Callers, NEW r \in CallType, call' = [call EXCEPT ![c] = r]
    PROVE  /\ call' \in [Callers -> CallType] /\ call'[c] = r
           /\ \A u \in Callers : u # c => call'[u] = call[u]
  BY DEF TypeOK

(* Goto and Return write such a value.                                     *)
LEMMA CallMoves ==
    ASSUME TypeOK, NEW c \in Callers, NEW l \in Labels, Goto(c, l) \/ Return(c)
    PROVE  /\ call' \in [Callers -> CallType]
           /\ call'[c].at \in {l, "idle"} /\ call'[c].s \in {0, call[c].s}
           /\ Goto(c, l) => call'[c].at = l /\ call'[c].s = call[c].s /\ call'[c].d = call[c].d
           /\ Return(c) => call'[c].at = "idle" /\ call'[c].s = 0
           /\ \A u \in Callers : u # c => call'[u] = call[u]
<1>1. call[c] \in CallType /\ call \in [Callers -> CallType]
  BY DEF TypeOK
<1>2. CASE Goto(c, l)
  <2>1. [call[c] EXCEPT !.at = l] \in CallType
    BY <1>1 DEF CallType
  <2>2. call' = [call EXCEPT ![c] = [call[c] EXCEPT !.at = l]]
    BY <1>1, <1>2 DEF Goto
  <2>3. /\ call' \in [Callers -> CallType] /\ call'[c] = [call[c] EXCEPT !.at = l]
        /\ \A u \in Callers : u # c => call'[u] = call[u]
    BY <2>1, <2>2, CallSet
  <2>4. call'[c].at = l /\ call'[c].s = call[c].s /\ call'[c].d = call[c].d
    BY <1>1, <2>3 DEF CallType
  <2>5. Return(c) => call'[c].at = "idle" /\ call'[c].s = 0
    BY <1>1 DEF Return, NoCall
  <2> QED
    BY <2>3, <2>4, <2>5
<1>3. CASE Return(c)
  <2>1. NoCall \in CallType
    BY DEF NoCall, CallType, Labels
  <2>2. /\ call' \in [Callers -> CallType] /\ call'[c] = NoCall
        /\ \A u \in Callers : u # c => call'[u] = call[u]
    BY <1>3, <2>1, CallSet DEF Return
  <2>3. call'[c].at = "idle" /\ call'[c].s = 0
    BY <2>2 DEF NoCall
  <2>4. Goto(c, l) => call'[c].at = l /\ call'[c].s = call[c].s /\ call'[c].d = call[c].d
    BY <1>1 DEF Goto, CallType
  <2> QED
    BY <2>2, <2>3, <2>4
<1> QED
  BY <1>2, <1>3

(* Such a step keeps the types.                                            *)
LEMMA TypeMoves ==
    ASSUME TypeOK, NEW c \in Callers, call' \in [Callers -> CallType],
           \A u \in Callers : u # c => call'[u] = call[u],
           lan' \in Nat, made' \in Nat, lan' <= made', made <= made',
           call'[c].s <= made', c \in Senders => call'[c].at \in {"idle", "send"},
           run' \in [Sessions -> {"new", "run", "bye", "gone"}]
    PROVE  TypeOK'
<1>1. ASSUME NEW u \in Callers PROVE call'[u].s <= made'
  <2>1. call[u].s \in Nat /\ call[u].s <= made /\ made \in Nat
    BY DEF TypeOK, CallType
  <2> QED
    BY <2>1
<1>2. \A u \in Senders : call'[u].at \in {"idle", "send"}
  BY UiCallers DEF TypeOK
<1> QED
  BY <1>1, <1>2 DEF TypeOK

(* A step of one call, away from the sessions: it holds none before and    *)
(* none after.                                                             *)
LEMMA PlainMove ==
    ASSUME TypeOK, Distinct, Held, UNCHANGED <<lan, made, run, bundles>>,
           NEW c \in Callers, call' \in [Callers -> CallType],
           \A u \in Callers : u # c => call'[u] = call[u],
           call[c].at \notin Holding, call'[c].at \notin Holding,
           call'[c].s <= made, c \in Ui => call'[c].s \in {0, call[c].s},
           c \in Senders => call'[c].at \in {"idle", "send"}
    PROVE  TypeOK' /\ Distinct' /\ Held'
<1>1. TypeOK'
  BY TypeMoves DEF TypeOK
<1>2. Distinct'
  BY UiCallers DEF Distinct
<1>3. \A u \in Ui : call[u].at \in Holding => call'[u] = call[u]
  BY UiCallers
<1>4. Held'
  BY <1>3 DEF Held
<1> QED
  BY <1>1, <1>2, <1>4

(* Destroying the session a call holds ends its network thread and removes *)
(* its trust bundle.                                                       *)
LEMMA DestroyMove ==
    ASSUME TypeOK, Distinct, Held, UNCHANGED <<lan, made>>,
           NEW c \in Ui, call' \in [Callers -> CallType],
           \A u \in Callers : u # c => call'[u] = call[u],
           call'[c].at \notin Holding, call'[c].s \in {0, call[c].s},
           FreeClient(call[c].s)
    PROVE  TypeOK' /\ Distinct' /\ Held'
<1>0. c \in Callers /\ call[c] \in CallType /\ call[c].s \in Nat
  BY UiCallers DEF TypeOK, CallType
<1>1. /\ run' \in [Sessions -> {"new", "run", "bye", "gone"}]
      /\ \A t \in Sessions : t # call[c].s => run'[t] = run[t]
      /\ call[c].s \in Sessions => run'[call[c].s] = "gone"
      /\ bundles' = bundles \ {call[c].s}
  BY DEF FreeClient, TypeOK
<1>2. TypeOK'
  BY <1>0, <1>1, UiCallers, TypeMoves DEF TypeOK
<1>3. Distinct'
  BY <1>0, UiCallers DEF Distinct
<1>4. ASSUME NEW t \in Sessions, t # call[c].s, run[t] \in Running
      PROVE  t = lan \/ \E u \in Ui : call'[u].at \in Holding /\ call'[u].s = t
  BY <1>4, UiCallers DEF Held
<1>5. call[c].s <= made
  BY <1>0 DEF TypeOK
<1>6. Held'
  <2> SUFFICES ASSUME NEW t \in Sessions
               PROVE  /\ run'[t] \in Running =>
                           t = lan' \/ \E u \in Ui : call'[u].at \in Holding /\ call'[u].s = t
                      /\ t > made' => run'[t] = "new"
                      /\ t \in bundles' => run'[t] \in Running
    BY DEF Held
  <2>1. CASE t = call[c].s
    <3>1. ~(t > made)
      BY <1>0, <1>5, <2>1 DEF TypeOK
    <3> QED
      BY <1>1, <2>1, <3>1 DEF Running
  <2>2. CASE t # call[c].s
    BY <1>1, <1>4, <2>2 DEF Held
  <2> QED
    BY <2>1, <2>2
<1> QED
  BY <1>2, <1>3, <1>6

(* connect_printer and disconnect_printer move lan_session_ into the call. *)
LEMMA TakeMove ==
    ASSUME TypeOK, Distinct, Held, lan' = 0, UNCHANGED <<made, run, bundles>>,
           NEW c \in Ui, call' \in [Callers -> CallType],
           \A u \in Callers : u # c => call'[u] = call[u],
           call[c].at = "idle", call'[c].s = lan,
           call'[c].at \in Holding <=> lan # 0
    PROVE  TypeOK' /\ Distinct' /\ Held'
<1>0. c \in Callers /\ c \notin Senders
  BY UiCallers
<1>1. TypeOK'
  BY <1>0, TypeMoves DEF TypeOK
<1>2. Distinct'
  BY <1>0, UiCallers DEF Distinct
<1>3. \A u \in Ui : call[u].at \in Holding => call'[u] = call[u]
  BY UiCallers DEF Holding
<1>4. Held'
  <2>1. \A t \in Sessions : run[t] \in Running =>
           \E u \in Ui : call'[u].at \in Holding /\ call'[u].s = t
    BY <1>3, SessionIds DEF Held
  <2> QED
    BY <2>1 DEF Held
<1> QED
  BY <1>1, <1>2, <1>4

(* LanSession::start: a new number, held by the call if the thread runs.   *)
LEMMA StartMove ==
    ASSUME TypeOK, Distinct, Held, NEW c \in Ui, ConnectStart(c)
    PROVE  TypeOK' /\ Distinct' /\ Held'
<1>0. /\ c \in Callers /\ c \notin Senders /\ call[c] \in CallType
      /\ made \in Nat /\ made' = made + 1 /\ lan' = lan /\ call[c].at = "start"
  BY UiCallers DEF TypeOK, ConnectStart
<1>1. PICK n \in Nat : n = made + 1 /\ made' = n
  BY <1>0
<1>2. /\ \A s \in Sessions : s = n => s > made
      /\ \A s \in Sessions : s > n => s > made
      /\ lan # n /\ \A u \in Callers : call[u].s # n
      /\ lan <= n /\ \A u \in Callers : call[u].s <= n
  BY <1>0, <1>1, SessionIds DEF TypeOK, CallType
<1>3. CASE ClientConnect(n, call[c].d)
           /\ call' = [call EXCEPT ![c].at = "install", ![c].s = n]
  <2>1. [call[c] EXCEPT !.at = "install", !.s = n] \in CallType
    BY <1>0 DEF CallType, Labels
  <2>2. call' = [call EXCEPT ![c] = [call[c] EXCEPT !.at = "install", !.s = n]]
    BY <1>3, <1>0 DEF TypeOK, CallType
  <2>3. /\ call' \in [Callers -> CallType]
        /\ call'[c] = [call[c] EXCEPT !.at = "install", !.s = n]
        /\ \A u \in Callers : u # c => call'[u] = call[u]
    BY <1>0, <2>1, <2>2, CallSet
  <2>4. call'[c].at = "install" /\ call'[c].s = n /\ n # 0
    BY <1>0, <1>1, <2>3 DEF CallType
  <2>5. /\ run' \in [Sessions -> {"new", "run", "bye", "gone"}]
        /\ \A t \in Sessions : t # n => run'[t] = run[t]
        /\ n \in Sessions => run'[n] = "run"
        /\ bundles' \subseteq bundles \cup {n}
    BY <1>3 DEF ClientConnect, MergedTrust, TypeOK
  <2>6. TypeOK'
    <3>1. lan' \in Nat /\ lan' <= made' /\ made <= made' /\ call'[c].s <= made'
      BY <1>0, <1>1, <1>2, <2>4 DEF TypeOK
    <3> QED
      BY <1>0, <1>1, <2>3, <2>5, <3>1, TypeMoves
  <2>7. Distinct'
    <3>1. \A u \in Ui : u # c => call'[u] = call[u] /\ call'[u].s # n
      BY <1>2, <2>3, UiCallers
    <3> QED
      BY <1>0, <1>2, <2>4, <3>1 DEF Distinct
  <2>8. \A u \in Ui : call[u].at \in Holding => call'[u] = call[u]
    BY <1>0, <2>3, UiCallers DEF Holding
  <2>9. Held'
    <3> SUFFICES ASSUME NEW t \in Sessions
                 PROVE  /\ run'[t] \in Running =>
                             t = lan \/ \E u \in Ui : call'[u].at \in Holding /\ call'[u].s = t
                        /\ t > n => run'[t] = "new"
                        /\ t \in bundles' => run'[t] \in Running
      BY <1>0, <1>1 DEF Held
    <3>1. CASE t = n
      BY <2>4, <2>5, <3>1 DEF Holding, Running
    <3>2. CASE t # n
      BY <1>2, <2>5, <2>8, <3>2 DEF Held
    <3> QED
      BY <3>1, <3>2
  <2> QED
    BY <2>6, <2>7, <2>9
<1>4. CASE FreeClient(n) /\ Return(c)
  <2>1. /\ call' \in [Callers -> CallType] /\ call'[c].at = "idle" /\ call'[c].s = 0
        /\ \A u \in Callers : u # c => call'[u] = call[u]
    BY <1>0, <1>4, CallMoves, "idle" \in Labels DEF Labels
  <2>2. /\ run' \in [Sessions -> {"new", "run", "bye", "gone"}]
        /\ \A t \in Sessions : t # n => run'[t] = run[t]
        /\ n \in Sessions => run'[n] = "gone"
        /\ bundles' = bundles \ {n}
    BY <1>4 DEF FreeClient, TypeOK
  <2>3. TypeOK'
    <3>1. lan' \in Nat /\ lan' <= made' /\ made <= made' /\ call'[c].s <= made'
      BY <1>0, <1>1, <1>2, <2>1 DEF TypeOK
    <3> QED
      BY <1>0, <1>1, <2>1, <2>2, <3>1, TypeMoves
  <2>4. Distinct'
    BY <1>0, <2>1, UiCallers DEF Distinct, Holding
  <2>5. \A u \in Ui : call[u].at \in Holding => call'[u] = call[u]
    BY <1>0, <2>1, UiCallers DEF Holding
  <2>6. Held'
    <3> SUFFICES ASSUME NEW t \in Sessions
                 PROVE  /\ run'[t] \in Running =>
                             t = lan \/ \E u \in Ui : call'[u].at \in Holding /\ call'[u].s = t
                        /\ t > n => run'[t] = "new"
                        /\ t \in bundles' => run'[t] \in Running
      BY <1>0, <1>1 DEF Held
    <3>1. CASE t = n
      BY <2>2, <3>1 DEF Running
    <3>2. CASE t # n
      BY <1>2, <2>2, <2>5, <3>2 DEF Held
    <3> QED
      BY <3>1, <3>2
  <2> QED
    BY <2>3, <2>4, <2>6
<1> QED
  BY <1>1, <1>3, <1>4 DEF ConnectStart

(* The assignment of lan_session_ swaps it with the call's session.        *)
LEMMA InstallMove ==
    ASSUME TypeOK, Distinct, Held, NEW c \in Ui, ConnectInstall(c)
    PROVE  TypeOK' /\ Distinct' /\ Held'
<1>0. /\ c \in Callers /\ c \notin Senders /\ call[c] \in CallType
      /\ lan' = call[c].s /\ call[c].at = "install" /\ call[c].s # 0
      /\ UNCHANGED <<made, run, bundles>>
  BY UiCallers DEF TypeOK, ConnectInstall, Distinct, Holding, sessVars
<1>1. /\ call' \in [Callers -> CallType] /\ call'[c].s = lan
      /\ lan # 0 => call'[c].at = "swap_join"
      /\ lan = 0 => call'[c].at = "idle"
      /\ \A u \in Callers : u # c => call'[u] = call[u]
  <2>1. CASE lan = 0
    <3>1. Return(c)
      BY <2>1 DEF ConnectInstall
    <3> QED
      BY <1>0, <2>1, <3>1, CallMoves, "idle" \in Labels DEF Labels
  <2>2. CASE lan # 0
    <3>1. [call[c] EXCEPT !.at = "swap_join", !.s = lan] \in CallType
      BY <1>0 DEF CallType, Labels, TypeOK
    <3>2. call' = [call EXCEPT ![c] = [call[c] EXCEPT !.at = "swap_join", !.s = lan]]
      BY <1>0, <2>2 DEF ConnectInstall, TypeOK, CallType
    <3>3. /\ call' \in [Callers -> CallType]
          /\ call'[c] = [call[c] EXCEPT !.at = "swap_join", !.s = lan]
          /\ \A u \in Callers : u # c => call'[u] = call[u]
      BY <1>0, <3>1, <3>2, CallSet
    <3>4. call'[c].at = "swap_join" /\ call'[c].s = lan
      BY <1>0, <3>3 DEF CallType
    <3> QED
      BY <2>2, <3>3, <3>4
  <2> QED
    BY <2>1, <2>2
<1>2. TypeOK'
  <2>1. lan' \in Nat /\ lan' <= made' /\ made' \in Nat /\ made <= made' /\ call'[c].s <= made'
    BY <1>0, <1>1 DEF TypeOK, CallType
  <2> QED
    BY <1>0, <1>1, <2>1, TypeMoves DEF TypeOK
<1>3. Distinct'
  BY <1>0, <1>1, UiCallers DEF Distinct, Holding
<1>4. ASSUME NEW t \in Sessions, run[t] \in Running
      PROVE  t = lan' \/ \E u \in Ui : call'[u].at \in Holding /\ call'[u].s = t
  <2>1. CASE t = lan
    BY <1>1, <2>1, SessionIds DEF Holding
  <2>2. CASE \E u \in Ui : call[u].at \in Holding /\ call[u].s = t
    BY <1>0, <1>1, <2>2, UiCallers
  <2> QED
    BY <1>4, <2>1, <2>2 DEF Held
<1>5. Held'
  BY <1>0, <1>4 DEF Held
<1> QED
  BY <1>2, <1>3, <1>5
(* Every step keeps the ownership of the sessions.                         *)
LEMMA OwnershipStep ==
    ASSUME TypeOK, Distinct, Held, [Next]_vars
    PROVE  TypeOK' /\ Distinct' /\ Held'
<1> USE DEF sessVars, certVars, trustVars
<1>0. /\ \A c \in Callers : call[c] \in CallType /\ call[c].s <= made
      /\ \A c \in Callers : call[c].at \notin {"idle", "send"} => c \in Ui
      /\ lan \in Nat /\ made \in Nat /\ lan <= made
  BY DEF TypeOK, Callers
<1>1. ASSUME NEW c \in Ui, NEW d \in Devs, Connect(c, d)
      PROVE  TypeOK' /\ Distinct' /\ Held'
  <2> DEFINE r == [at |-> IF lan = 0 THEN "prep" ELSE "join", s |-> lan, d |-> d,
                   switching |-> lan # 0 /\ dev[lan] # d]
  <2>1. r \in CallType
    BY <1>0 DEF CallType, Labels
  <2>2. call' = [call EXCEPT ![c] = r] /\ lan' = 0 /\ UNCHANGED <<made, run, bundles>>
        /\ call[c].at = "idle"
    BY <1>1 DEF Connect
  <2>3. /\ call' \in [Callers -> CallType] /\ call'[c] = r
        /\ \A u \in Callers : u # c => call'[u] = call[u]
    BY <2>1, <2>2, UiCallers, CallSet
  <2>4. call'[c].s = lan /\ (call'[c].at \in Holding <=> lan # 0)
    BY <2>3 DEF Holding
  <2> QED
    BY <2>2, <2>3, <2>4, TakeMove
<1>2. ASSUME NEW c \in Ui, Disconnect(c)
      PROVE  TypeOK' /\ Distinct' /\ Held'
  <2> DEFINE r == [NoCall EXCEPT !.at = "disc", !.s = lan]
  <2>1. r \in CallType /\ r.at = "disc" /\ r.s = lan
    BY <1>0 DEF CallType, Labels, NoCall
  <2>2. call' = [call EXCEPT ![c] = r] /\ lan' = 0 /\ UNCHANGED <<made, run, bundles>>
        /\ call[c].at = "idle" /\ lan # 0
    BY <1>2 DEF Disconnect
  <2>3. /\ call' \in [Callers -> CallType] /\ call'[c] = r
        /\ \A u \in Callers : u # c => call'[u] = call[u]
    BY <2>1, <2>2, UiCallers, CallSet
  <2>4. call'[c].s = lan /\ (call'[c].at \in Holding <=> lan # 0)
    BY <2>1, <2>2, <2>3 DEF Holding
  <2> QED
    BY <2>2, <2>3, <2>4, TakeMove
<1>3. ASSUME NEW c \in Callers, ConnectJoin(c) \/ ConnectSwapJoin(c) \/ DisconnectJoin(c)
      PROVE  TypeOK' /\ Distinct' /\ Held'
  <2>1. c \in Ui
    BY <1>0, <1>3 DEF ConnectJoin, ConnectSwapJoin, DisconnectJoin
  <2>2. /\ Goto(c, "prep") \/ Return(c)
        /\ FreeClient(call[c].s) /\ UNCHANGED <<lan, made>>
    BY <1>3 DEF ConnectJoin, ConnectSwapJoin, DisconnectJoin, Destroy
  <2>3. /\ call' \in [Callers -> CallType]
        /\ call'[c].at \in {"prep", "idle"} /\ call'[c].s \in {0, call[c].s}
        /\ \A u \in Callers : u # c => call'[u] = call[u]
    BY <2>2, CallMoves, "prep" \in Labels DEF Labels
  <2>4. call'[c].at \notin Holding
    BY <2>3 DEF Holding
  <2> QED
    BY <2>1, <2>2, <2>3, <2>4, DestroyMove
<1>4. ASSUME NEW c \in Callers, ConnectStart(c) \/ ConnectInstall(c)
      PROVE  TypeOK' /\ Distinct' /\ Held'
  <2>1. c \in Ui
    BY <1>0, <1>4 DEF ConnectStart, ConnectInstall
  <2> QED
    BY <1>4, <2>1, StartMove, InstallMove
<1>5. ASSUME NEW c \in Callers,
             \/ ConnectPrepare(c) \/ ConnectSnapshot(c) \/ ConnectRegister(c) \/ SendUse(c)
             \/ InstallFromFile(c) \/ InstallRecheck(c) \/ InstallClaim(c)
      PROVE  TypeOK' /\ Distinct' /\ Held'
  <2>1. PICK l \in {"snap", "register", "start", "recheck", "claim", "idle"} :
           /\ Goto(c, l) \/ Return(c)
           /\ c \in Senders => Return(c)
    BY <1>0, <1>5, UiCallers
       DEF ConnectPrepare, ConnectSnapshot, ConnectRegister, SendUse,
           InstallFromFile, InstallRecheck, InstallClaim
  <2>2. UNCHANGED <<lan, made, run, bundles>> /\ call[c].at \notin Holding
    BY <1>5 DEF ConnectPrepare, ConnectSnapshot, ConnectRegister, SendUse,
           InstallFromFile, InstallRecheck, InstallClaim, Holding
  <2>3. /\ call' \in [Callers -> CallType]
        /\ call'[c].at \in {l, "idle"} /\ call'[c].s \in {0, call[c].s}
        /\ Return(c) => call'[c].at = "idle"
        /\ \A u \in Callers : u # c => call'[u] = call[u]
    BY <2>1, CallMoves, l \in Labels DEF Labels
  <2>4. call'[c].at \notin Holding
    BY <2>3 DEF Holding
  <2>5. call'[c].s <= made
    BY <1>0, <2>3
  <2>6. c \in Senders => call'[c].at \in {"idle", "send"}
    BY <2>1, <2>3
  <2> QED
    BY <2>2, <2>3, <2>4, <2>5, <2>6, PlainMove
<1>6. ASSUME NEW c \in Senders, NEW d \in Devs, Send(c, d)
      PROVE  TypeOK' /\ Distinct' /\ Held'
  <2> DEFINE r == [NoCall EXCEPT !.at = "send", !.s = lan]
  <2>1. r \in CallType /\ r.at = "send" /\ r.s = lan
    BY <1>0 DEF CallType, Labels, NoCall
  <2>2. call' = [call EXCEPT ![c] = r] /\ UNCHANGED <<lan, made, run, bundles>>
        /\ call[c].at = "idle" /\ c \in Callers /\ c \notin Ui
    BY <1>6, UiCallers DEF Send
  <2>3. /\ call' \in [Callers -> CallType] /\ call'[c] = r
        /\ \A u \in Callers : u # c => call'[u] = call[u]
    BY <2>1, <2>2, CallSet
  <2>4. /\ call[c].at \notin Holding /\ call'[c].at \notin Holding
        /\ call'[c].s <= made /\ call'[c].at = "send"
    BY <1>0, <2>1, <2>2, <2>3 DEF Holding
  <2> QED
    BY <2>2, <2>3, <2>4, PlainMove
<1>7. ASSUME NEW c \in Ui, NEW d \in Devs, Install(c, d)
      PROVE  TypeOK' /\ Distinct' /\ Held'
  <2> DEFINE r == [NoCall EXCEPT !.at = "file", !.d = d]
  <2>1. r \in CallType /\ r.at = "file" /\ r.s = 0
    BY DEF CallType, Labels, NoCall
  <2>2. call' = [call EXCEPT ![c] = r] /\ UNCHANGED <<lan, made, run, bundles>>
        /\ call[c].at = "idle" /\ c \in Callers /\ c \notin Senders
    BY <1>7, UiCallers DEF Install
  <2>3. /\ call' \in [Callers -> CallType] /\ call'[c] = r
        /\ \A u \in Callers : u # c => call'[u] = call[u]
    BY <2>1, <2>2, CallSet
  <2>4. /\ call[c].at \notin Holding /\ call'[c].at \notin Holding
        /\ call'[c].s <= made /\ call'[c].s = 0
    BY <1>0, <2>1, <2>2, <2>3 DEF Holding
  <2> QED
    BY <2>2, <2>3, <2>4, PlainMove
<1>8. ASSUME NEW s \in Sessions, NetGoodbye(s)
      PROVE  TypeOK' /\ Distinct' /\ Held'
  <2>1. /\ run[s] = "run" /\ run' = [run EXCEPT ![s] = "bye"]
        /\ UNCHANGED <<lan, made, call, bundles>>
    BY <1>8 DEF NetGoodbye
  <2>2. TypeOK' /\ Distinct'
    BY <2>1 DEF TypeOK, Distinct
  <2>3. \A t \in Sessions : run'[t] = run[t] \/ (run[t] = "run" /\ run'[t] = "bye")
    BY <2>1 DEF TypeOK
  <2>4. Held'
    BY <2>1, <2>3 DEF Held, Running
  <2> QED
    BY <2>2, <2>4
<1>9. CASE UNCHANGED <<lan, made, run, bundles, call>>
  BY <1>9 DEF TypeOK, Distinct, Held
<1>10. ASSUME \/ \E d \in Devs : SnapshotEnds(d) \/ CooldownOver(d)
              \/ \E s \in Sessions : NetEvent(s) \/ Notify(s)
              \/ UNCHANGED vars
       PROVE  UNCHANGED <<lan, made, run, bundles, call>>
  BY <1>10 DEF SnapshotEnds, CooldownOver, NetEvent, Notify, vars
<1> QED
  BY <1>1, <1>2, <1>3, <1>4, <1>5, <1>6, <1>7, <1>8, <1>9, <1>10
     DEF Next, HostCall, Continue

(***************************************************************************)
(* The certificate caches.                                                 *)
(***************************************************************************)

(* registry_set_peer_cert of a device whose certificate file exists adds   *)
(* it to the registry and leaves the state file within the registry.       *)
LEMMA SetPeerCertEffect ==
    ASSUME NEW d, SetPeerCert(d)
    PROVE  /\ trusted' = trusted \cup {d}
           /\ stateFile' \subseteq trusted \cup stateFile \cup {d}
  BY DEF SetPeerCert, WriteStateFile

(* Every step keeps the caches consistent.                                 *)
LEMMA CertsStep ==
    ASSUME TypeOK, Certs, [Next]_vars
    PROVE  Certs'
<1> USE DEF sessVars, certVars, trustVars, Certs, CertifiedTrusted
<1>0. /\ \A c \in Callers : call[c] \in CallType
      /\ \A c \in Callers : call[c].at \notin {"idle", "send"} => c \in Ui
  BY DEF TypeOK, Callers
<1>1. ASSUME UNCHANGED <<certFile, certified, trusted, stateFile>>,
             \A c \in Ui : call[c].at = "register" => call'[c] = call[c]
      PROVE  Certs'
  BY <1>1
<1>2. ASSUME NEW c \in Callers,
             \/ ConnectJoin(c) \/ ConnectStart(c) \/ ConnectInstall(c) \/ ConnectSwapJoin(c)
             \/ DisconnectJoin(c) \/ SendUse(c) \/ InstallRecheck(c) \/ InstallClaim(c)
             \/ c \in Ui /\ Disconnect(c)
             \/ c \in Ui /\ \E d \in Devs : Connect(c, d) \/ Install(c, d)
             \/ c \in Senders /\ \E d \in Devs : Send(c, d)
      PROVE  Certs'
  <2>1. /\ call[c].at # "register" /\ UNCHANGED <<certFile, certified, trusted, stateFile>>
        /\ \A u \in Callers : u # c => call'[u] = call[u]
    BY <1>2 DEF ConnectJoin, ConnectStart, ConnectInstall, ConnectSwapJoin, DisconnectJoin,
           SendUse, InstallRecheck, InstallClaim, Disconnect, Connect, Install, Send,
           Goto, Return, TypeOK
  <2> QED
    BY <1>1, <2>1, UiCallers
<1>3. ASSUME NEW c \in Callers, ConnectPrepare(c)
      PROVE  Certs'
  <2>1. /\ call[c].at = "prep" /\ Goto(c, "snap")
        /\ certified' \subseteq certified /\ UNCHANGED <<certFile, trusted, stateFile>>
    BY <1>3 DEF ConnectPrepare
  <2>2. \A u \in Ui : call[u].at = "register" => call'[u] = call[u]
    BY <2>1, UiCallers DEF TypeOK, Goto
  <2> QED
    BY <2>1, <2>2
<1>4. ASSUME NEW c \in Callers, ConnectSnapshot(c)
      PROVE  Certs'
  <2>1. /\ call[c].at = "snap" /\ Goto(c, "register") /\ UNCHANGED <<trusted, stateFile>>
        /\ certFile \subseteq certFile'
        /\ certified' \subseteq certified \cup {call[c].d}
        /\ certified' \subseteq certified \/ call[c].d \in certFile'
    BY <1>4 DEF ConnectSnapshot, CapturePeerCert
  <2>2. c \in Ui
    BY <1>0, <2>1
  <2>3. /\ call'[c].at = "register" /\ call'[c].d = call[c].d
        /\ \A u \in Callers : u # c => call'[u] = call[u]
    BY <2>1, CallMoves, "register" \in Labels DEF Labels
  <2>4. \A u \in Ui : call[u].at = "register" => call'[u] = call[u]
    BY <2>1, <2>3, UiCallers
  <2> QED
    BY <2>1, <2>2, <2>3, <2>4
<1>5. ASSUME NEW c \in Callers, ConnectRegister(c)
      PROVE  Certs'
  <2>1. /\ call[c].at = "register" /\ Goto(c, "start") /\ UNCHANGED <<certFile, certified>>
        /\ call[c].d \in certFile => SetPeerCert(call[c].d)
        /\ call[c].d \notin certFile => UNCHANGED <<trusted, stateFile>>
    BY <1>5 DEF ConnectRegister
  <2>2. \A u \in Callers : u # c => call'[u] = call[u]
    BY <2>1 DEF TypeOK, Goto
  <2>3. /\ trusted \subseteq trusted' /\ trusted' \cup stateFile' \subseteq certFile
        /\ call[c].d \in certFile => call[c].d \in trusted'
    BY <2>1, SetPeerCertEffect
  <2>4. ASSUME NEW d \in certified
        PROVE  d \in trusted' \/ \E u \in Ui : call'[u].at = "register" /\ call'[u].d = d
    BY <2>2, <2>3, UiCallers
  <2> QED
    BY <2>1, <2>3, <2>4
<1>6. ASSUME NEW c \in Callers, InstallFromFile(c)
      PROVE  Certs'
  <2>1. call[c].at = "file" /\ certFile' = certFile /\ (Goto(c, "recheck") \/ Return(c))
    BY <1>6 DEF InstallFromFile
  <2>2. \A u \in Ui : call[u].at = "register" => call'[u] = call[u]
    BY <2>1, UiCallers DEF TypeOK, Goto, Return
  <2>3. \/ UNCHANGED <<certified, trusted, stateFile>>
        \/ /\ call[c].d \in certFile /\ SetPeerCert(call[c].d)
           /\ certified' = certified \cup {call[c].d}
    BY <1>6 DEF InstallFromFile
  <2> QED
    BY <2>1, <2>2, <2>3, SetPeerCertEffect
<1>7. ASSUME NEW d \in Devs, SnapshotEnds(d)
      PROVE  Certs'
  <2>1. /\ call' = call /\ certFile \subseteq certFile'
        /\ \/ UNCHANGED <<certified, trusted, stateFile>>
           \/ /\ SetPeerCert(d) /\ certified' = certified \cup {d}
              /\ certFile' = certFile \cup {d}
    BY <1>7 DEF SnapshotEnds, CapturePeerCert
  <2>2. CASE UNCHANGED <<certified, trusted, stateFile>>
    BY <2>1, <2>2
  <2>3. CASE SetPeerCert(d) /\ certified' = certified \cup {d} /\ certFile' = certFile \cup {d}
    BY <2>1, <2>3, SetPeerCertEffect
  <2> QED
    BY <2>1, <2>2, <2>3
<1>8. CASE \/ \E d \in Devs : CooldownOver(d)
           \/ \E s \in Sessions : NetEvent(s) \/ NetGoodbye(s) \/ Notify(s)
           \/ UNCHANGED vars
  <2>1. UNCHANGED <<call, certFile, certified, trusted, stateFile>>
    BY <1>8 DEF CooldownOver, NetEvent, NetGoodbye, Notify, vars
  <2> QED
    BY <1>1, <2>1
<1> QED
  BY <1>2, <1>3, <1>4, <1>5, <1>6, <1>7, <1>8, UiCallers DEF Next, HostCall, Continue

(***************************************************************************)
(* The theorems.                                                           *)
(***************************************************************************)

(* The agent starts without sessions and with empty caches, and every step *)
(* keeps the invariant.                                                    *)
THEOREM LanInvariant == Spec => []IInv
<1>1. Init => IInv
  <2> SUFFICES ASSUME Init PROVE IInv
    OBVIOUS
  <2>1. NoCall \in CallType /\ NoCall.at = "idle" /\ NoCall.s = 0
    BY DEF NoCall, CallType, Labels
  <2>2. /\ call \in [Callers -> CallType]
        /\ \A c \in Callers : call[c].at = "idle" /\ call[c].s = 0
    BY <2>1 DEF Init
  <2>3. TypeOK
    BY <2>2, UiCallers DEF Init, TypeOK
  <2>4. Distinct /\ Held
    BY <2>2, UiCallers DEF Init, Distinct, Held, Holding, Running
  <2>5. Certs
    BY DEF Init, Certs, CertifiedTrusted
  <2> QED
    BY <2>3, <2>4, <2>5 DEF IInv
<1>2. IInv /\ [Next]_vars => IInv'
  BY OwnershipStep, CertsStep DEF IInv
<1> QED
  BY <1>1, <1>2, PTL DEF Spec

(* connect_printer and disconnect_printer never leak an MQTT thread or its *)
(* trust bundle, however many of them overlap: each running thread belongs *)
(* to lan_session_ or to exactly one call that will install or destroy it. *)
THEOREM NoLeakedSession == Spec => []SessionsOwned
<1>1. ASSUME IInv PROVE SessionsOwned
  <2> SUFFICES ASSUME NEW s \in Sessions, run[s] \in Running
               PROVE  IF s = lan THEN \A c \in Ui : call[c].s # s
                      ELSE Cardinality({c \in Ui : call[c].s = s /\
                               call[c].at \in {"join", "install", "swap_join", "disc"}}) = 1
    BY <1>1 DEF IInv, Held, SessionsOwned, Running
  <2>1. CASE s = lan
    BY <1>1, <2>1, SessionIds DEF IInv, Distinct
  <2>2. CASE s # lan
    <3> DEFINE S == {c \in Ui : call[c].s = s /\
                        call[c].at \in {"join", "install", "swap_join", "disc"}}
    <3>1. PICK c \in Ui : call[c].at \in Holding /\ call[c].s = s
      BY <1>1, <2>2 DEF IInv, Held
    <3>2. S = {c}
      BY <1>1, <3>1, SessionIds DEF IInv, Distinct, Holding
    <3>3. Cardinality({c}) = 1
      BY FS_Singleton
    <3> QED
      BY <2>2, <3>2, <3>3
  <2> QED
    BY <2>1, <2>2
<1> QED
  BY <1>1, LanInvariant, PTL

(* What certified_devs_, the registry of lan_tls and its state file say of *)
(* a device's certificate agrees with the files on disk.                   *)
THEOREM CertificatesConsistent == Spec => []CertifiedTrusted
<1>1. IInv => CertifiedTrusted
  BY DEF IInv, Certs
<1> QED
  BY <1>1, LanInvariant, PTL

(***************************************************************************)
(* SubtaskCovers: the covers of the prints that the session's reports name *)
(* (agent.cpp, cover_cache.cpp).  The types of what CoverNotOlder is       *)
(* about.                                                                  *)
(***************************************************************************)
PrintType == [name : Names, kind : {"lan", "cloud"}, place : Places]
FetchWorker == [key : Paths, at : {"connect", "fetch", "rename"}, got : Nat]
StudioType == [print : Nat, url : Paths \cup {<<>>}, shown : Nat]

CoverTypes ==
    /\ prints \in Seq(PrintType) /\ Len(prints) <= MaxPrints
    /\ wire \in Seq(Nat) /\ cache \in [Paths -> Nat]
    /\ workers \in SUBSET FetchWorker /\ studio \in StudioType

(* Reports name prints that have started.                                  *)
ReportsKnown ==
    /\ \A j \in 1..Len(wire) : wire[j] \in PrintNos
    /\ mq # <<>> => mq[1].print \in PrintNos

(* A key with a version belongs to the print of that number.               *)
Keyed(k) == k[2] # 0 => k[2] \in PrintNos /\ prints[k[2]].name = k[1]

(* Picture p may stand for key k: it is that of a print that has started,  *)
(* and, when its file is in the place of the file of the print of k, not   *)
(* an older one.                                                           *)
Fits(p, k) ==
    /\ p \in PrintNos
    /\ k[2] # 0 /\ prints[p].place = prints[k[2]].place => p >= k[2]

(* What was fetched, and what is kept, for a key fits it; and so does what *)
(* Studio shows, whose url is that of its print.                           *)
FetchedFits == \A w \in workers : Keyed(w.key) /\ (w.at = "rename" => Fits(w.got, w.key))
KeptFits == \A k \in Paths : cache[k] # 0 => Keyed(k) /\ Fits(cache[k], k)
ShownFits ==
    /\ studio.print # 0 => studio.print \in PrintNos
    /\ studio.url # <<>> => studio.print # 0 /\ studio.url = PathFor(studio.print)
    /\ studio.shown # 0 => studio.url # <<>> /\ Fits(studio.shown, studio.url)

CoverInv == CoverTypes /\ ReportsKnown /\ FetchedFits /\ KeptFits /\ ShownFits

(* The path of a print's cover: its name and, for a LAN print, its number. *)
LEMMA CoverPath ==
    ASSUME CoverTypes, NEW i \in PrintNos
    PROVE  /\ i \in Nat /\ prints[i] \in PrintType
           /\ PathFor(i) \in Paths /\ Keyed(PathFor(i))
           /\ PathFor(i) # <<>>
           /\ PathFor(i) = <<prints[i].name,
                                    IF prints[i].kind = "lan" THEN i ELSE 0>>
<1>1. Len(prints) \in Nat /\ MaxPrints \in Nat /\ prints \in Seq(PrintType)
  BY LenProperties, CoverParameters DEF CoverTypes
<1>2. i \in Nat /\ i \in 0..MaxPrints /\ 0 \in 0..MaxPrints
  BY <1>1 DEF CoverTypes, PrintNos
<1>3. prints[i] \in PrintType
  BY <1>1, ElementOfSeq DEF PrintNos
<1>4. PathFor(i) = <<prints[i].name,
                           IF prints[i].kind = "lan" THEN i ELSE 0>>
  BY DEF PathFor, Version, PrintNo
<1>5. prints[i].name \in Names  BY <1>3 DEF PrintType
<1>6. PathFor(i) \in Paths  BY <1>2, <1>4, <1>5 DEF Paths
<1>7. Keyed(PathFor(i))  BY <1>2, <1>4 DEF Keyed
<1>8. PathFor(i) # <<>>  BY <1>4
<1> QED  BY <1>2, <1>3, <1>4, <1>6, <1>7, <1>8

(* The printer's side grew or stayed: a print's number, name and path      *)
(* remain.                                                                 *)
PrintsStay ==
    /\ PrintNos \subseteq PrintNos'
    /\ \A i \in PrintNos : prints'[i] = prints[i]

(* Then keys stay keyed and paths stay the same.                           *)
LEMMA PathsStay ==
    ASSUME CoverTypes, PrintsStay
    PROVE  /\ \A k : Keyed(k) => Keyed(k)'
           /\ \A k, p : Keyed(k) /\ Fits(p, k) => Fits(p, k)'
           /\ \A i \in PrintNos : PathFor(i)' = PathFor(i)
<1>1. \A k : Keyed(k) => Keyed(k)'  BY DEF PrintsStay, Keyed
<1>2. ASSUME NEW i \in PrintNos PROVE PathFor(i)' = PathFor(i)
  BY DEF PrintsStay, PathFor, Version, PrintNo
<1>3. ASSUME NEW k, NEW p, Keyed(k), Fits(p, k) PROVE Fits(p, k)'
  <2>1. p \in PrintNos' /\ prints'[p] = prints[p]  BY <1>3 DEF PrintsStay, Fits
  <2>2. CASE k[2] = 0  BY <2>1, <2>2 DEF Fits
  <2>3. CASE k[2] # 0
    <3>1. prints'[k[2]] = prints[k[2]]  BY <1>3, <2>3 DEF PrintsStay, Keyed
    <3> QED  BY <1>3, <2>1, <2>3, <3>1 DEF Fits
  <2> QED  BY <2>2, <2>3
<1> QED  BY <1>1, <1>2, <1>3

(* What an action leaves alone stays as the invariant has it, while the    *)
(* printer only starts prints.                                             *)
LEMMA CoversLeft ==
    ASSUME CoverInv, PrintsStay
    PROVE  /\ UNCHANGED <<wire, mq>> => ReportsKnown'
           /\ UNCHANGED workers => FetchedFits'
           /\ UNCHANGED cache => KeptFits'
           /\ UNCHANGED studio => ShownFits'
<1>1. CoverTypes /\ ReportsKnown /\ FetchedFits /\ KeptFits /\ ShownFits  BY DEF CoverInv
<1>2. /\ \A k : Keyed(k) => Keyed(k)'
      /\ \A k, p : Keyed(k) /\ Fits(p, k) => Fits(p, k)'
      /\ \A i \in PrintNos : PathFor(i)' = PathFor(i)
  BY <1>1, PathsStay
<1>3. PrintNos \subseteq PrintNos'  BY DEF PrintsStay
<1>4. UNCHANGED <<wire, mq>> => ReportsKnown'
  <2> SUFFICES ASSUME wire' = wire, mq' = mq PROVE ReportsKnown'  OBVIOUS
  <2>1. \A j \in 1..Len(wire) : wire[j] \in PrintNos'
    BY <1>1, <1>3 DEF ReportsKnown
  <2>2. mq # <<>> => mq[1].print \in PrintNos'  BY <1>1, <1>3 DEF ReportsKnown
  <2> QED  BY <2>1, <2>2 DEF ReportsKnown
<1>5. UNCHANGED workers => FetchedFits'  BY <1>1, <1>2 DEF FetchedFits
<1>6. UNCHANGED cache => KeptFits'
  <2> SUFFICES ASSUME cache' = cache PROVE KeptFits'  OBVIOUS
  <2>1. ASSUME NEW k \in Paths, NEW v, v = cache[k], v # 0 PROVE Keyed(k)' /\ Fits(v, k)'
    BY <1>1, <1>2, <2>1 DEF KeptFits
  <2> QED  BY <2>1 DEF KeptFits, Paths
<1>7. ASSUME UNCHANGED studio PROVE ShownFits'
  <2>1. studio.print # 0 => studio.print \in PrintNos'  BY <1>1, <1>3 DEF ShownFits
  <2>2. studio.url # <<>> => studio.print # 0 /\ studio.url = PathFor(studio.print)'
    BY <1>1, <1>2, <1>7 DEF ShownFits
  <2>3. ASSUME NEW u, u = studio.url, NEW v, v = studio.shown, v # 0
        PROVE  u # <<>> /\ Fits(v, u)'
    <3>1. /\ u # <<>> /\ Fits(v, u)
          /\ studio.print \in PrintNos /\ u = PathFor(studio.print)
      BY <1>1, <2>3 DEF ShownFits
    <3>2. Keyed(u)  BY <1>1, <3>1, CoverPath
    <3> QED  BY <1>2, <3>1, <3>2
  <2> QED  BY <1>7, <2>1, <2>2, <2>3 DEF ShownFits
<1> QED  BY <1>4, <1>5, <1>6, <1>7

(* An action that leaves the prints alone.                                 *)
LEMMA PrinterLeft ==
    ASSUME prints' = prints
    PROVE  PrintsStay /\ PrintNos' = PrintNos
BY DEF PrintsStay, PrintNos

(* The reports: the thread that takes them, and the printer that sends     *)
(* them.                                                                   *)
LEMMA ReportsStep ==
    ASSUME CoverInv, NotifyRecord \/ SendReport
    PROVE  CoverInv'
<1>1. UNCHANGED <<prints, cache, workers, studio>>
  BY DEF NotifyRecord, SendReport, coverVars
<1>2. CoverTypes /\ ReportsKnown  BY DEF CoverInv
<1>3. PrintsStay /\ PrintNos' = PrintNos  BY <1>1, PrinterLeft
<1>4. FetchedFits' /\ KeptFits' /\ ShownFits'  BY <1>1, <1>3, CoversLeft
<1>5. wire \in Seq(Nat) /\ prints \in Seq(PrintType)  BY <1>2 DEF CoverTypes
<1>6. SUFFICES wire' \in Seq(Nat) /\ ReportsKnown'
  BY <1>1, <1>2, <1>3, <1>4 DEF CoverTypes, CoverInv
<1>7. Len(wire) \in Nat  BY <1>5, LenProperties
<1>8. CASE NotifyRecord
  <2>1. wire # <<>> /\ wire' = Tail(wire) /\ mq' = <<[print |-> Head(wire), host |-> session]>>
    BY <1>8 DEF NotifyRecord
  <2>2. /\ wire' \in Seq(Nat) /\ Len(wire') = Len(wire) - 1
        /\ \A j \in 1..Len(wire') : wire'[j] = wire[j + 1]
    BY <1>5, <2>1, HeadTailProperties
  <2>3. ASSUME NEW j \in 1..Len(wire') PROVE wire'[j] \in PrintNos
    <3>1. j + 1 \in 1..Len(wire) /\ wire'[j] = wire[j + 1]  BY <1>7, <2>2
    <3> QED  BY <1>2, <3>1 DEF ReportsKnown
  <2>4. 1 \in 1..Len(wire) /\ Head(wire) = wire[1]
    BY <1>5, <1>7, <2>1, HeadTailProperties, EmptySeq
  <2>5. Head(wire) \in PrintNos  BY <1>2, <2>4 DEF ReportsKnown
  <2>6. mq'[1].print \in PrintNos  BY <2>1, <2>5
  <2> QED  BY <1>3, <2>2, <2>3, <2>6 DEF ReportsKnown
<1>9. CASE SendReport
  <2>1. prints # <<>> /\ wire' = Append(wire, Len(prints)) /\ mq' = mq
    BY <1>9 DEF SendReport
  <2>2. Len(prints) \in Nat /\ Len(prints) \in PrintNos
    BY <1>5, <2>1, LenProperties, EmptySeq DEF PrintNos
  <2>3. /\ wire' \in Seq(Nat) /\ Len(wire') = Len(wire) + 1
        /\ \A j \in 1..Len(wire) : wire'[j] = wire[j]
        /\ wire'[Len(wire) + 1] = Len(prints)
    BY <1>5, <2>1, <2>2, AppendProperties
  <2>4. ASSUME NEW j \in 1..Len(wire') PROVE wire'[j] \in PrintNos
    <3>1. CASE j \in 1..Len(wire)  BY <1>2, <2>3, <3>1 DEF ReportsKnown
    <3>2. CASE j = Len(wire) + 1  BY <2>2, <2>3, <3>2
    <3> QED  BY <1>7, <2>3, <2>4, <3>1, <3>2
  <2> QED  BY <1>2, <1>3, <2>1, <2>3, <2>4 DEF ReportsKnown
<1> QED  BY <1>8, <1>9

(* ensure: a report is delivered, and a worker started for its print.      *)
LEMMA DeliverStep ==
    ASSUME CoverInv, NotifyDeliver
    PROVE  CoverInv'
<1>1. UNCHANGED <<prints, wire, cache>> /\ mq # <<>> /\ mq' = <<>>
  BY DEF NotifyDeliver, Nothing
<1>2. CoverTypes /\ ReportsKnown /\ FetchedFits /\ ShownFits  BY DEF CoverInv
<1>3. PrintsStay /\ PrintNos' = PrintNos  BY <1>1, PrinterLeft
<1>4. KeptFits' /\ (UNCHANGED workers => FetchedFits') /\ (UNCHANGED studio => ShownFits')
  BY <1>1, <1>3, CoversLeft
<1>5. ReportsKnown'  BY <1>1, <1>2, <1>3 DEF ReportsKnown
<1>6. workers \in SUBSET FetchWorker /\ studio \in StudioType  BY <1>2 DEF CoverTypes
<1>7. PICK i \in PrintNos :
        /\ UNCHANGED workers
           \/ workers' = workers \cup {[key |-> PathFor(i), at |-> "connect", got |-> 0]}
        /\ UNCHANGED studio \/ studio' = [print |-> i, url |-> <<>>, shown |-> 0]
  BY <1>1, <1>2 DEF NotifyDeliver, Ensure, Nothing, ReportsKnown
<1>8. /\ i \in Nat /\ PathFor(i) \in Paths /\ Keyed(PathFor(i))
  BY <1>2, CoverPath
<1>9. workers' \in SUBSET FetchWorker /\ FetchedFits'
  <2>1. CASE UNCHANGED workers  BY <1>4, <1>6, <2>1
  <2>2. CASE workers' = workers \cup {[key |-> PathFor(i), at |-> "connect", got |-> 0]}
    <3>1. [key |-> PathFor(i), at |-> "connect", got |-> 0] \in FetchWorker
      BY <1>8 DEF FetchWorker
    <3>2. /\ \A k : Keyed(k) => Keyed(k)'
          /\ \A k, p : Keyed(k) /\ Fits(p, k) => Fits(p, k)'
      BY <1>2, <1>3, PathsStay
    <3>3. ASSUME NEW w \in workers'
          PROVE  Keyed(w.key)' /\ (w.at = "rename" => Fits(w.got, w.key)')
      <4>1. CASE w \in workers  BY <1>2, <3>2, <4>1 DEF FetchedFits
      <4>2. CASE w = [key |-> PathFor(i), at |-> "connect", got |-> 0]
        <5>1. w.key = PathFor(i) /\ w.at = "connect"  BY <4>2
        <5> QED  BY <1>8, <3>2, <5>1
      <4> QED  BY <2>2, <4>1, <4>2
    <3> QED  BY <1>6, <2>2, <3>1, <3>3 DEF FetchedFits
  <2> QED  BY <1>7, <2>1, <2>2
<1>10. studio' \in StudioType /\ ShownFits'
  <2>1. CASE UNCHANGED studio  BY <1>4, <1>6, <2>1
  <2>2. CASE studio' = [print |-> i, url |-> <<>>, shown |-> 0]
    BY <1>3, <1>8, <2>2 DEF StudioType, ShownFits
  <2> QED  BY <1>7, <2>1, <2>2
<1> QED  BY <1>1, <1>2, <1>3, <1>4, <1>5, <1>9, <1>10 DEF CoverTypes, CoverInv

(* A worker that is connected, and one with its picture.                   *)
LEMMA Fetched ==
    ASSUME NEW w \in FetchWorker, NEW p \in Nat
    PROVE  /\ [w EXCEPT !.at = "fetch"] \in FetchWorker
           /\ [w EXCEPT !.at = "fetch"].key = w.key
           /\ [w EXCEPT !.at = "fetch"].at = "fetch"
           /\ [w EXCEPT !.at = "rename", !.got = p] \in FetchWorker
           /\ [w EXCEPT !.at = "rename", !.got = p].key = w.key
           /\ [w EXCEPT !.at = "rename", !.got = p].got = p
BY DEF FetchWorker

(* What find_model_entry finds by the name of a print: when it is in the   *)
(* place of that print's file, it is not older.                            *)
LEMMA HitFits ==
    ASSUME CoverTypes, NEW k \in Paths, Keyed(k),
           NEW listed, NEW p \in FetchThumbnail(k[1], listed)
    PROVE  p \in Nat /\ Fits(p, k)
<1> DEFINE files == {i \in PrintNos :
              PrintNo(i).name = k[1] /\ PrintNo(i).place[1] \in listed}
<1>1. p \in files /\ \A j \in files \ {p} : Preferred(p, j)  BY DEF FetchThumbnail
<1>2. p \in PrintNos /\ PrintNo(p).place[1] \in listed  BY <1>1
<1>3. PrintNos \subseteq Nat /\ prints \in Seq(PrintType)
  BY LenProperties DEF CoverTypes, PrintNos
<1>4. ASSUME k[2] # 0, prints[p].place = prints[k[2]].place PROVE p >= k[2]
  <2>1. k[2] \in PrintNos /\ prints[k[2]].name = k[1]  BY <1>4 DEF Keyed
  <2>2. k[2] \in files  BY <1>2, <1>4, <2>1 DEF PrintNo
  <2>3. CASE p = k[2]  BY <1>2, <1>3, <2>3
  <2>4. CASE p # k[2]
    <3>1. Preferred(p, k[2])  BY <1>1, <2>2, <2>4
    <3>2. PICK a \in Places : prints[p].place = a
      <4>1. prints[p] \in PrintType  BY <1>2, <1>3, ElementOfSeq DEF PrintNos
      <4> QED  BY <4>1 DEF PrintType
    <3>3. a[1] \in Nat  BY <3>2, CoverParameters DEF Places
    <3>4. a[1] < a[1] \/ (a[1] = a[1] /\ a[2] = "cache" /\ a[2] # "cache") \/ (a = a /\ p > k[2])
      BY <1>4, <3>1, <3>2 DEF Preferred, PrintNo
    <3>5. p > k[2]  BY <3>3, <3>4
    <3>6. p \in Nat /\ k[2] \in Nat  BY <1>2, <1>3, <2>1
    <3> QED  BY <3>5, <3>6
  <2> QED  BY <2>3, <2>4
<1> QED  BY <1>2, <1>3, <1>4 DEF Fits

(* fetch_worker: what it fetches by name fits the key it was started for.  *)
LEMMA FetchStep ==
    ASSUME CoverInv, Worker
    PROVE  CoverInv'
<1>1. UNCHANGED <<prints, wire, mq, studio>>
  BY DEF Worker, WorkerStep, WorkerConnect, WorkerFetch, WorkerFails, WorkerRename
<1>2. CoverTypes /\ FetchedFits /\ KeptFits  BY DEF CoverInv
<1>3. PrintsStay /\ PrintNos' = PrintNos  BY <1>1, PrinterLeft
<1>4. ReportsKnown' /\ ShownFits' /\ (UNCHANGED cache => KeptFits')
  BY <1>1, <1>3, CoversLeft
<1>5. /\ \A k : Keyed(k) => Keyed(k)'
      /\ \A k, p : Keyed(k) /\ Fits(p, k) => Fits(p, k)'
  BY <1>2, <1>3, PathsStay
<1>6. /\ workers \in SUBSET FetchWorker /\ cache \in [Paths -> Nat]
  BY <1>2 DEF CoverTypes
<1>7. SUFFICES /\ workers' \in SUBSET FetchWorker /\ FetchedFits'
               /\ cache' \in [Paths -> Nat] /\ KeptFits'
  BY <1>1, <1>2, <1>3, <1>4 DEF CoverTypes, CoverInv
<1>8. PICK w \in workers : WorkerStep(w)  BY DEF Worker
<1>9. w \in FetchWorker /\ w.key \in Paths /\ w.got \in Nat /\ Keyed(w.key)
  BY <1>2, <1>6 DEF FetchWorker, FetchedFits
<1>10. ASSUME NEW v \in workers
       PROVE  Keyed(v.key)' /\ (v.at = "rename" => Fits(v.got, v.key)')
  BY <1>2, <1>5 DEF FetchedFits
<1>11. ASSUME NEW n \in FetchWorker, workers' = (workers \ {w}) \cup {n},
              n.key = w.key, n.at = "rename" => Fits(n.got, n.key)
       PROVE  workers' \in SUBSET FetchWorker /\ FetchedFits'
  <2>1. workers' \in SUBSET FetchWorker  BY <1>6, <1>11
  <2>2. ASSUME NEW v \in workers'
        PROVE  Keyed(v.key)' /\ (v.at = "rename" => Fits(v.got, v.key)')
    <3>1. CASE v \in workers  BY <1>10, <3>1
    <3>2. CASE v = n
      <4>1. Keyed(n.key)  BY <1>9, <1>11
      <4> QED  BY <1>5, <1>11, <3>2, <4>1
    <3> QED  BY <1>11, <3>1, <3>2
  <2> QED  BY <2>1, <2>2 DEF FetchedFits
<1>12. ASSUME workers' = workers \ {w}
       PROVE  workers' \in SUBSET FetchWorker /\ FetchedFits'
  <2>1. workers' \in SUBSET FetchWorker  BY <1>6, <1>12
  <2>2. \A v \in workers' : v \in workers  BY <1>12
  <2> QED  BY <1>10, <2>1, <2>2 DEF FetchedFits
<1>13. CASE WorkerConnect(w)
  <2>1. workers' = (workers \ {w}) \cup {[w EXCEPT !.at = "fetch"]} /\ cache' = cache
    BY <1>13 DEF WorkerConnect
  <2>2. PICK n \in FetchWorker : /\ n = [w EXCEPT !.at = "fetch"]
                                 /\ n.key = w.key /\ n.at = "fetch"
    BY <1>9, Fetched
  <2>3. workers' = (workers \ {w}) \cup {n}  BY <2>1, <2>2
  <2>4. workers' \in SUBSET FetchWorker /\ FetchedFits'  BY <1>11, <2>2, <2>3
  <2> QED  BY <1>4, <1>6, <2>1, <2>4
<1>14. CASE WorkerFetch(w)
  <2>1. PICK listed \in SUBSET (1..Storages) : \E p \in FetchThumbnail(w.key[1], listed) :
          workers' = (workers \ {w}) \cup {[w EXCEPT !.at = "rename", !.got = p]}
    BY <1>14 DEF WorkerFetch
  <2>2. PICK p \in FetchThumbnail(w.key[1], listed) :
          workers' = (workers \ {w}) \cup {[w EXCEPT !.at = "rename", !.got = p]}
    BY <2>1
  <2>3. p \in Nat /\ Fits(p, w.key)  BY <1>2, <1>9, HitFits
  <2>4. PICK n \in FetchWorker : /\ n = [w EXCEPT !.at = "rename", !.got = p]
                                 /\ n.key = w.key /\ n.got = p
    BY <1>9, <2>3, Fetched
  <2>5. workers' = (workers \ {w}) \cup {n}  BY <2>2, <2>4
  <2>6. Fits(n.got, n.key)  BY <2>3, <2>4
  <2>7. workers' \in SUBSET FetchWorker /\ FetchedFits'  BY <1>11, <2>4, <2>5, <2>6
  <2>8. cache' = cache  BY <1>14 DEF WorkerFetch
  <2> QED  BY <1>4, <1>6, <2>7, <2>8
<1>15. CASE WorkerFails(w)
  <2>1. workers' = workers \ {w} /\ cache' = cache  BY <1>15 DEF WorkerFails, Leave
  <2> QED  BY <1>4, <1>6, <1>12, <2>1
<1>16. CASE WorkerRename(w)
  <2>1. /\ w.at = "rename" /\ cache' = [cache EXCEPT ![w.key] = w.got]
        /\ workers' = workers \ {w}
    BY <1>16 DEF WorkerRename, Leave
  <2>2. cache' \in [Paths -> Nat]  BY <1>6, <1>9, <2>1
  <2>3. Keyed(w.key)' /\ Fits(w.got, w.key)'  BY <1>10, <2>1
  <2>4. ASSUME NEW k \in Paths, cache'[k] # 0 PROVE (Keyed(k) /\ Fits(cache[k], k))'
    <3>1. CASE k = w.key
      <4>1. cache'[k] = w.got  BY <1>6, <2>1, <3>1
      <4> QED  BY <2>3, <3>1, <4>1
    <3>2. CASE k # w.key
      <4>1. cache'[k] = cache[k]  BY <1>6, <2>1, <3>2
      <4>2. Keyed(k) /\ Fits(cache[k], k)  BY <1>2, <2>4, <4>1 DEF KeptFits
      <4> QED  BY <1>5, <4>1, <4>2
    <3> QED  BY <3>1, <3>2
  <2>5. KeptFits'  BY <2>4 DEF KeptFits, Paths
  <2> QED  BY <1>12, <2>1, <2>2, <2>5
<1> QED  BY <1>8, <1>13, <1>14, <1>15, <1>16 DEF WorkerStep

(* Studio's requests: the url is that of the print, and what the server    *)
(* sends is what the cache keeps for it.                                   *)
LEMMA StudioStep ==
    ASSUME CoverInv, GetSubtaskInfo \/ HandleOne
    PROVE  CoverInv'
<1>1. UNCHANGED <<prints, wire, mq, cache, workers>>
  BY DEF GetSubtaskInfo, HandleOne, coverVars
<1>2. CoverTypes /\ KeptFits /\ ShownFits  BY DEF CoverInv
<1>3. PrintsStay /\ PrintNos' = PrintNos  BY <1>1, PrinterLeft
<1>4. ReportsKnown' /\ FetchedFits' /\ KeptFits'  BY <1>1, <1>3, CoversLeft
<1>5. \A i \in PrintNos : PathFor(i)' = PathFor(i)  BY <1>2, <1>3, PathsStay
<1>6. studio \in StudioType /\ cache \in [Paths -> Nat]  BY <1>2 DEF CoverTypes
<1>7. SUFFICES studio' \in StudioType /\ ShownFits'
  BY <1>1, <1>2, <1>3, <1>4 DEF CoverTypes, CoverInv
<1>8. CASE GetSubtaskInfo
  <2>1. /\ studio.print # 0 /\ studio.url = <<>>
        /\ studio' = [studio EXCEPT !.url = Lookup(studio.print)]
    BY <1>8 DEF GetSubtaskInfo, Nothing
  <2>2. PICK i \in PrintNos : i = studio.print  BY <1>2, <2>1 DEF ShownFits
  <2>3. PathFor(i) \in Paths  BY <1>2, CoverPath
  <2>4. PICK u \in Paths \cup {<<>>} :
          /\ u = <<>> \/ u = PathFor(i)
          /\ studio' = [studio EXCEPT !.url = u]
    BY <2>1, <2>2, <2>3 DEF Lookup, Nothing
  <2>5. studio.shown = 0  BY <1>2, <2>1 DEF ShownFits
  <2>6. studio' \in StudioType /\ studio'.print = i /\ studio'.url = u /\ studio'.shown = 0
    BY <1>6, <2>2, <2>4, <2>5 DEF StudioType
  <2>7. u = <<>> \/ u = PathFor(i)'  BY <1>5, <2>4
  <2>8. i # 0 /\ i \in PrintNos'  BY <1>3, <2>1, <2>2
  <2>9. studio'.url # <<>> => studio'.print # 0 /\ studio'.url = (PathFor(i))'
    BY <2>6, <2>7, <2>8
  <2>10. (PathFor(studio.print))' = (PathFor(i))'
    BY <2>6 DEF PathFor, Version, PrintNo
  <2> QED  BY <2>6, <2>8, <2>9, <2>10 DEF ShownFits
<1>9. CASE HandleOne
  <2>1. /\ studio.url # <<>> /\ cache[studio.url] # 0
        /\ studio' = [studio EXCEPT !.shown = cache[studio.url]]
    BY <1>9 DEF HandleOne, Nothing
  <2>2. studio.url \in Paths  BY <1>6, <2>1 DEF StudioType
  <2>3. PICK u \in Paths, v \in Nat : u = studio.url /\ v = cache[u]  BY <1>6, <2>2
  <2>4. Keyed(u) /\ Fits(v, u)  BY <1>2, <2>1, <2>3 DEF KeptFits
  <2>5. Fits(v, u)'  BY <1>2, <1>3, <2>4, PathsStay
  <2>6. /\ studio' \in StudioType /\ studio'.print = studio.print
        /\ studio'.url = u /\ studio'.shown = v
    BY <1>6, <2>1, <2>3 DEF StudioType
  <2>7. studio.print # 0 /\ studio.print \in PrintNos /\ studio.url = PathFor(studio.print)
    BY <1>2, <2>1 DEF ShownFits
  <2>8. PICK i \in PrintNos : i = studio.print  BY <2>7
  <2>9. studio'.url = (PathFor(i))'  BY <1>5, <2>3, <2>6, <2>7, <2>8
  <2>10. (PathFor(studio.print))' = (PathFor(i))'
    BY <2>6, <2>8 DEF PathFor, Version, PrintNo
  <2> QED  BY <1>3, <2>1, <2>3, <2>5, <2>6, <2>7, <2>9, <2>10 DEF ShownFits
<1> QED  BY <1>8, <1>9

(* A new print: the earlier ones keep their numbers, names and places.     *)
LEMMA PrinterStep ==
    ASSUME CoverInv, StartPrint
    PROVE  CoverInv'
<1>1. UNCHANGED <<wire, mq, cache, workers, studio>>  BY DEF StartPrint, coverVars
<1>2. CoverTypes  BY DEF CoverInv
<1>3. prints \in Seq(PrintType) /\ Len(prints) \in Nat  BY <1>2, LenProperties DEF CoverTypes
<1>4. PICK e \in PrintType : prints' = Append(prints, e)  BY DEF StartPrint, PrintType
<1>5. /\ prints' \in Seq(PrintType) /\ Len(prints') = Len(prints) + 1
      /\ \A i \in 1..Len(prints) : prints'[i] = prints[i]
  BY <1>3, <1>4, AppendProperties
<1>6. Len(prints) < MaxPrints /\ MaxPrints \in Nat  BY CoverParameters DEF StartPrint
<1>7. Len(prints') <= MaxPrints  BY <1>3, <1>5, <1>6
<1>8. PrintsStay  BY <1>3, <1>5 DEF PrintsStay, PrintNos
<1>9. CoverTypes'  BY <1>1, <1>2, <1>5, <1>7 DEF CoverTypes
<1> QED  BY <1>1, <1>8, <1>9, CoversLeft DEF CoverInv

(* The covers' invariant holds for every set of names, however many        *)
(* prints, reports on their way and entries in the table of subtasks.      *)
THEOREM CoversInvariant == CoverSpec => []CoverInv
<1>1. ASSUME CoverInit PROVE CoverInv
  <2>1. /\ prints = <<>> /\ wire = <<>> /\ mq = <<>>
        /\ workers = {} /\ cache = [k \in Paths |-> 0]
        /\ studio = [print |-> 0, url |-> <<>>, shown |-> 0]
    BY <1>1 DEF CoverInit, Nothing
  <2>2. prints \in Seq(PrintType) /\ Len(prints) = 0 /\ MaxPrints \in Nat
    BY <2>1, CoverParameters
  <2>3. wire \in Seq(Nat) /\ workers \in SUBSET FetchWorker  BY <2>1
  <2>4. cache \in [Paths -> Nat] /\ KeptFits  BY <2>1 DEF KeptFits
  <2>5. studio \in StudioType /\ ShownFits  BY <2>1 DEF StudioType, ShownFits
  <2>6. ReportsKnown /\ FetchedFits  BY <2>1 DEF ReportsKnown, FetchedFits
  <2> QED  BY <2>2, <2>3, <2>4, <2>5, <2>6 DEF CoverTypes, CoverInv
<1>2. ASSUME CoverInv, [CoverNext]_allVars PROVE CoverInv'
  <2>1. CASE AcceptBreaks \/ SessionUp \/ UNCHANGED allVars
    <3>1. UNCHANGED <<prints, wire, mq, cache, workers, studio>>
      BY <2>1 DEF AcceptBreaks, SessionUp, allVars, coverVars
    <3>2. PrintsStay  BY <3>1, PrinterLeft
    <3>3. CoverTypes'  BY <1>2, <3>1 DEF CoverInv, CoverTypes
    <3> QED  BY <1>2, <3>1, <3>2, <3>3, CoversLeft DEF CoverInv
  <2> QED
    BY <1>2, <2>1, ReportsStep, DeliverStep, FetchStep, StudioStep, PrinterStep
    DEF CoverNext, NotifyReport
<1>3. CoverInit => CoverInv  BY <1>1
<1>4. CoverInv /\ [CoverNext]_allVars => CoverInv'  BY <1>2
<1> QED  BY <1>3, <1>4, PTL DEF CoverSpec

(* handle_one never sends Studio, for a LAN print, the picture of an       *)
(* earlier print of the same name whose file is in the same place: the     *)
(* picture shown fits the key in the url, which has the print's number.    *)
THEOREM CoversStayFresh == CoverSpec => []CoverNotOlder
<1>1. ASSUME CoverInv PROVE CoverNotOlder
  <2>1. CoverTypes /\ ShownFits  BY <1>1 DEF CoverInv
  <2>2. SUFFICES ASSUME studio.print # 0, studio.shown # 0,
                        prints[studio.print].kind = "lan",
                        prints[studio.shown].place = prints[studio.print].place
                 PROVE  studio.shown >= studio.print
    BY DEF CoverNotOlder, ShownForLan, SamePlace, PrintNo
  <2>3. PICK i \in PrintNos : i = studio.print  BY <2>1, <2>2 DEF ShownFits
  <2>4. PathFor(i) = <<prints[i].name, i>> /\ i \in Nat
    BY <2>1, <2>2, <2>3, CoverPath
  <2>5. studio.url = PathFor(i) /\ Fits(studio.shown, studio.url)
    BY <2>1, <2>2, <2>3 DEF ShownFits
  <2>6. studio.url[2] = i  BY <2>4, <2>5
  <2> QED  BY <2>2, <2>3, <2>5, <2>6 DEF Fits
<1>2. CoverInv => CoverNotOlder  BY <1>1
<1> QED  BY <1>2, CoversInvariant, PTL
===============================================================================
