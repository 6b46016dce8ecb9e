--------------------------- MODULE CloudLinkProofs ---------------------------
(***************************************************************************)
(* Proofs about module CloudLink, for any number of workers, devices and   *)
(* sessions, with or without failures.  The two invariants hold because    *)
(* connect_cloud, cloud_refresh and cloud_del_subscribe are called from    *)
(* one thread, Studio's UI thread: with two of them, one could create and  *)
(* start a session while the other is still stopping the old one.          *)
(***************************************************************************)
EXTENDS CloudLink, FiniteSetTheorems, TLAPS

(* The entry points of UiStep are called from one thread.                  *)
OneUiThread == \A c, u \in Ui : c = u

(***************************************************************************)
(* The inductive invariant.                                                *)
(***************************************************************************)
SessionType == [alive : BOOLEAN, started : BOOLEAN, connected : BOOLEAN,
                subscribed : SUBSET Devs, active : SUBSET Devs]

CallLabels == {"idle", "start", "swap", "stop", "create", "del", "add", "send"}

CallType == [at : CallLabels, s : 0..MaxSessions, dev : SUBSET Devs]

TypeOK ==
    /\ cur \in 0..MaxSessions /\ made \in 0..MaxSessions
    /\ sess \in [Sessions -> SessionType]
    /\ reported \in SUBSET Devs
    /\ net \in [Sessions -> [at : {"idle", "connack", "lost", "msg"}, dev : SUBSET Devs]]
    /\ call \in [Callers -> CallType]
    /\ link \in [Sessions -> BOOLEAN]
    /\ broker \in [Sessions -> SUBSET Devs]
    /\ failed \in SUBSET Devs
    /\ crashed \in BOOLEAN

(* Only a UI call is in the middle of connect_cloud or cloud_refresh; a    *)
(* call that has fetched a session pointer holds a real one.               *)
CallsPlaced ==
    \A c \in Callers :
        /\ c \in Workers => call[c].at \in {"idle", "add", "send"}
        /\ call[c].at \in {"stop", "del", "add", "send"} => call[c].s \in Sessions

(* Every live session is cloud_session_ or is being stopped; while one is  *)
(* being stopped there is no other.                                        *)
LiveOwned ==
    /\ cur # 0 => sess[cur].alive
    /\ cur <= made
    /\ \A s \in Sessions : sess[s].alive =>
          s = cur \/ \E c \in Ui : call[c].at = "stop" /\ call[c].s = s
    /\ \A c \in Ui : call[c].at = "stop" => cur = 0
    /\ \A s \in Sessions : sess[s].started => sess[s].alive

(* The link and connected_ go together and need a started network thread;  *)
(* the sets of a session that is not connected are those of the last link  *)
(* only until on_disconnect has cleared active_.                           *)
LinkOwnedAt(s) ==
    /\ sess[s].connected <=> link[s]
    /\ link[s] => sess[s].started
    /\ net[s].at = "connack" => link[s]
    /\ net[s].at = "lost" => ~link[s]
    /\ ~link[s] => broker[s] = {}
    /\ ~link[s] /\ net[s].at # "lost" => sess[s].active = {}
    /\ sess[s].active \subseteq sess[s].subscribed

LinkOwned == \A s \in Sessions : LinkOwnedAt(s)

(* SubscriptionsInStep, with what is true of the sets while the CONNACK    *)
(* handler is still waiting for the session's lock.                        *)
SetsInStepAt(s) ==
    link[s] =>
        /\ sess[s].active \subseteq broker[s]
        /\ broker[s] \ sess[s].active \subseteq failed
        /\ net[s].at # "connack" => sess[s].subscribed \ sess[s].active \subseteq failed

SetsInStep == \A s \in Sessions : SetsInStepAt(s)

IInv == TypeOK /\ CallsPlaced /\ LiveOwned /\ LinkOwned /\ SetsInStep

USE DEF Idle, At, NetAt, NetGoto, agentVars, extVars

(* The sessions of Sessions are the positive numbers up to the bound, and  *)
(* 0, the null pointer, is none of them.                                   *)
LEMMA SessionIds ==
    /\ \A s \in 0..MaxSessions : s \in Sessions <=> s # 0
    /\ \A s \in Sessions : s \in 0..MaxSessions /\ s # 0
    /\ \A n \in 0..MaxSessions : n < MaxSessions =>
          /\ n + 1 \in Sessions /\ n + 1 \in 0..MaxSessions
          /\ \A m \in 0..MaxSessions : m <= n => m # n + 1
  BY CloudParameters DEF Sessions

(* A call moves on; the other threads' calls stay where they are.          *)
LEMMA CallMoves ==
    ASSUME TypeOK, NEW c \in Callers, NEW l \in CallLabels, NEW s \in 0..MaxSessions,
           NEW d \in SUBSET Devs, Goto(c, l, s, d)
    PROVE  /\ call' \in [Callers -> CallType]
           /\ call'[c].at = l /\ call'[c].s = s /\ call'[c].dev = d
           /\ \A u \in Callers : u # c => call'[u] = call[u]
  BY DEF TypeOK, CallType, Goto

(* A call returns.                                                         *)
LEMMA CallReturns ==
    ASSUME TypeOK, NEW c \in Callers, Return(c)
    PROVE  /\ call' \in [Callers -> CallType]
           /\ call'[c].at = "idle" /\ call'[c].s = 0
           /\ \A u \in Callers : u # c => call'[u] = call[u]
<1>1. Goto(c, "idle", 0, {}) /\ "idle" \in CallLabels /\ 0 \in 0..MaxSessions
  BY CloudParameters DEF NoCall, CallLabels, Goto, Return
<1> QED
  BY <1>1, CallMoves

(* Writing one session's fields leaves the others alone.                   *)
LEMMA SessionSet ==
    ASSUME TypeOK, NEW s \in Sessions, NEW r \in SessionType,
           sess' = [sess EXCEPT ![s] = r]
    PROVE  /\ sess' \in [Sessions -> SessionType]
           /\ sess'[s] = r
           /\ \A t \in Sessions : t # s => sess'[t] = sess[t]
<1>1. sess \in [Sessions -> SessionType]
  BY DEF TypeOK
<1> QED
  BY <1>1

(* Assigning a field of a session keeps its type and its other fields.     *)
LEMMA SessionFields ==
    ASSUME NEW r \in SessionType
    PROVE  /\ [r EXCEPT !.started = TRUE] \in SessionType
           /\ \A b \in BOOLEAN : [r EXCEPT !.connected = b] \in SessionType
           /\ \A a \in SUBSET Devs : [r EXCEPT !.active = a] \in SessionType
           /\ \A w \in SUBSET Devs : [r EXCEPT !.subscribed = w] \in SessionType
           /\ \A w, a \in SUBSET Devs :
                 [r EXCEPT !.subscribed = w, !.active = a] \in SessionType
           /\ NoSession \in SessionType
           /\ [NoSession EXCEPT !.alive = TRUE] \in SessionType
  BY DEF SessionType, NoSession

(* What apply_subscriptions_locked_ does to the session, the broker and    *)
(* the reported failures, when SUBSCRIBE fails for the devices in bad.     *)
Applied(s, w, a, bad) ==
    /\ bad \subseteq w \ a
    /\ sess' = [sess EXCEPT ![s] = [sess[s] EXCEPT !.subscribed = w, !.active = w \ bad]]
    /\ sess' \in [Sessions -> SessionType]
    /\ broker' \in [Sessions -> SUBSET Devs]
    /\ broker'[s] = broker[s] \cup (w \ (a \cup bad))
    /\ \A t \in Sessions : t # s => broker'[t] = broker[t]
    /\ failed' = (failed \ w) \cup bad
    /\ failed' \in SUBSET Devs

(* apply_subscriptions_locked_ has that effect, for some set of failures.  *)
LEMMA ApplyEffect ==
    ASSUME TypeOK, NEW s \in Sessions, NEW w \in SUBSET Devs, NEW a \in SUBSET Devs,
           Apply(s, w, a)
    PROVE  \E bad : Applied(s, w, a, bad)
<1>1. PICK bad \in SUBSET (w \ a) :
        /\ sess' = [sess EXCEPT ![s].subscribed = w, ![s].active = w \ bad]
        /\ broker' = [broker EXCEPT ![s] = @ \cup (w \ (a \cup bad))]
        /\ failed' = (failed \ w) \cup bad
  BY DEF Apply
<1>2. /\ sess[s] \in SessionType /\ broker \in [Sessions -> SUBSET Devs]
      /\ failed \in SUBSET Devs
  BY DEF TypeOK
<1>3. sess' = [sess EXCEPT ![s] = [sess[s] EXCEPT !.subscribed = w, !.active = w \ bad]]
  BY <1>1, <1>2, sess \in [Sessions -> SessionType] DEF TypeOK, SessionType
<1>4. sess' \in [Sessions -> SessionType]
  BY <1>2, <1>3, SessionFields, SessionSet
<1>5. /\ broker' \in [Sessions -> SUBSET Devs]
      /\ broker'[s] = broker[s] \cup (w \ (a \cup bad))
      /\ \A t \in Sessions : t # s => broker'[t] = broker[t]
  BY <1>1, <1>2
<1>6. bad \subseteq w \ a /\ failed' \in SUBSET Devs
  BY <1>1, <1>2
<1>7. Applied(s, w, a, bad)
  BY <1>1, <1>3, <1>4, <1>5, <1>6 DEF Applied
<1> QED
  BY <1>7

(***************************************************************************)
(* One live session.                                                       *)
(***************************************************************************)

(* Two live sessions are the same one: both are cloud_session_, or the one *)
(* UI thread is stopping both.                                             *)
LEMMA OneLive ==
    ASSUME OneUiThread, TypeOK, LiveOwned, NEW s \in Sessions, NEW t \in Sessions,
           sess[s].alive, sess[t].alive
    PROVE  s = t
<1>1. CASE \E c \in Ui : call[c].at = "stop"
  <2>1. PICK c \in Ui : call[c].at = "stop"
    BY <1>1
  <2>2. cur = 0 /\ s # 0 /\ t # 0
    BY <2>1, SessionIds DEF LiveOwned
  <2> QED
    BY <2>1, <2>2 DEF LiveOwned, OneUiThread
<1> QED
  BY <1>1 DEF LiveOwned

(* An operation that changes neither the sessions nor the links, and moves *)
(* no network thread, keeps what is said of them.                          *)
LEMMA LinksUntouched ==
    ASSUME LinkOwned, SetsInStep, UNCHANGED <<sess, net, link, broker, failed>>
    PROVE  LinkOwned' /\ SetsInStep'
  BY DEF LinkOwned, SetsInStep, LinkOwnedAt, SetsInStepAt

(* A callback of one session keeps what is said of the links if it does    *)
(* for that session, and does not touch the others.                        *)
LEMMA LinksButOne ==
    ASSUME LinkOwned, SetsInStep, NEW s \in Sessions,
           LinkOwnedAt(s)', SetsInStepAt(s)',
           \A t \in Sessions : t # s =>
              /\ sess'[t] = sess[t] /\ net'[t] = net[t]
              /\ link'[t] = link[t] /\ broker'[t] = broker[t],
           failed' = failed \/ \A t \in Sessions : t # s => ~link[t]
    PROVE  LinkOwned' /\ SetsInStep'
<1>1. ASSUME NEW t \in Sessions, t # s
      PROVE  LinkOwnedAt(t)' /\ SetsInStepAt(t)'
  BY <1>1 DEF LinkOwned, SetsInStep, LinkOwnedAt, SetsInStepAt
<1> QED
  BY <1>1 DEF LinkOwned, SetsInStep

(* A network thread of one session moves, its callers do not.              *)
LEMMA CallsUntouched ==
    ASSUME TypeOK, CallsPlaced, LiveOwned, UNCHANGED <<call, cur, made>>,
           \A s \in Sessions : /\ sess'[s].alive = sess[s].alive
                               /\ sess'[s].started = sess[s].started
    PROVE  CallsPlaced' /\ LiveOwned'
  BY SessionIds DEF TypeOK, CallsPlaced, LiveOwned

(***************************************************************************)
(* The network thread.                                                     *)
(***************************************************************************)

(* A callback of a live session's network thread keeps the invariant.      *)
LEMMA NetworkKeeps ==
    ASSUME OneUiThread, IInv, NEW s \in Sessions,
           \/ Connack(s) \/ ConnackApply(s) \/ LinkLost(s)
           \/ LinkLostClear(s) \/ ReportNote(s)
           \/ \E d \in Devs : Report(s, d)
    PROVE  IInv'
<1> USE DEF IInv
<1>0. /\ sess[s] \in SessionType /\ net[s] \in [at : {"idle", "connack", "lost", "msg"}, dev : SUBSET Devs]
      /\ broker[s] \in SUBSET Devs /\ link[s] \in BOOLEAN
  BY DEF TypeOK
<1>a. /\ sess[s].active \in SUBSET Devs /\ sess[s].subscribed \in SUBSET Devs
      /\ sess[s].alive \in BOOLEAN /\ sess[s].started \in BOOLEAN
      /\ sess[s].connected \in BOOLEAN
  BY <1>0 DEF SessionType
<1>1. CASE Connack(s)
  <2>1. sess' = [sess EXCEPT ![s] = [sess[s] EXCEPT !.connected = TRUE]]
    BY <1>1 DEF Connack
  <2>2. /\ sess' \in [Sessions -> SessionType]
        /\ sess'[s] = [sess[s] EXCEPT !.connected = TRUE]
        /\ \A t \in Sessions : t # s => sess'[t] = sess[t]
    BY <1>0, <2>1, SessionFields, SessionSet
  <2>3. /\ sess'[s].alive = sess[s].alive /\ sess'[s].started = sess[s].started
        /\ sess'[s].connected = TRUE /\ sess'[s].active = sess[s].active
        /\ sess'[s].subscribed = sess[s].subscribed
    BY <1>0, <2>2 DEF SessionType
  <2>4. TypeOK'
    BY <1>1, <2>2 DEF Connack, TypeOK
  <2>5. CallsPlaced' /\ LiveOwned'
    <3>1. UNCHANGED <<call, cur, made>>
      BY <1>1 DEF Connack
    <3> QED
      BY <2>2, <2>3, <3>1, CallsUntouched
  <2>6. /\ link'[s] = TRUE /\ net'[s].at = "connack"
        /\ \A t \in Sessions : t # s => link'[t] = link[t] /\ net'[t] = net[t]
        /\ broker' = broker /\ failed' = failed
        /\ net[s].at = "idle" /\ sess[s].started /\ ~link[s]
    BY <1>1 DEF Connack, TypeOK
  <2>7. LinkOwnedAt(s)' /\ SetsInStepAt(s)'
    BY <2>3, <2>6 DEF LinkOwned, LinkOwnedAt, SetsInStepAt
  <2> QED
    BY <2>2, <2>4, <2>5, <2>6, <2>7, LinksButOne
<1>2. CASE ConnackApply(s)
  <2>1. PICK bad : Applied(s, sess[s].subscribed, {}, bad)
    <3>1. Apply(s, sess[s].subscribed, {})
      BY <1>2 DEF ConnackApply
    <3> QED
      BY <1>a, <3>1, ApplyEffect
  <2>2. /\ sess'[s] = [sess[s] EXCEPT !.subscribed = sess[s].subscribed,
                                      !.active = sess[s].subscribed \ bad]
        /\ \A t \in Sessions : t # s => sess'[t] = sess[t]
    BY <2>1 DEF TypeOK, Applied
  <2>3. /\ sess'[s].alive = sess[s].alive /\ sess'[s].started = sess[s].started
        /\ sess'[s].connected = sess[s].connected
        /\ sess'[s].active = sess[s].subscribed \ bad
        /\ sess'[s].subscribed = sess[s].subscribed
    BY <1>0, <2>2 DEF SessionType
  <2>4. TypeOK'
    BY <1>2, <2>1 DEF ConnackApply, TypeOK, Applied
  <2>5. CallsPlaced' /\ LiveOwned'
    <3>1. UNCHANGED <<call, cur, made>>
      BY <1>2 DEF ConnackApply
    <3> QED
      BY <2>2, <2>3, <3>1, CallsUntouched
  <2>6. /\ link' = link /\ net'[s].at = "idle"
        /\ \A t \in Sessions : t # s => net'[t] = net[t]
        /\ net[s].at = "connack" /\ link[s] /\ sess[s].alive
    BY <1>2 DEF ConnackApply, TypeOK, LinkOwned, LinkOwnedAt
  <2>7. LinkOwnedAt(s)' /\ SetsInStepAt(s)'
    BY <2>1, <2>3, <2>6
       DEF Applied, LinkOwned, LinkOwnedAt, SetsInStep, SetsInStepAt
  <2>8. \A t \in Sessions : t # s => ~link[t]
    BY <2>6, OneLive DEF LinkOwned, LinkOwnedAt, LiveOwned
  <2> QED
    BY <2>1, <2>2, <2>4, <2>5, <2>6, <2>7, <2>8, LinksButOne DEF Applied
<1>3. CASE LinkLost(s)
  <2>1. sess' = [sess EXCEPT ![s] = [sess[s] EXCEPT !.connected = FALSE]]
    BY <1>3 DEF LinkLost
  <2>2. /\ sess' \in [Sessions -> SessionType]
        /\ sess'[s] = [sess[s] EXCEPT !.connected = FALSE]
        /\ \A t \in Sessions : t # s => sess'[t] = sess[t]
    BY <1>0, <2>1, SessionFields, SessionSet
  <2>3. /\ sess'[s].alive = sess[s].alive /\ sess'[s].started = sess[s].started
        /\ sess'[s].connected = FALSE /\ sess'[s].active = sess[s].active
        /\ sess'[s].subscribed = sess[s].subscribed
    BY <1>0, <2>2 DEF SessionType
  <2>4. TypeOK'
    BY <1>3, <2>2 DEF LinkLost, TypeOK
  <2>5. CallsPlaced' /\ LiveOwned'
    <3>1. UNCHANGED <<call, cur, made>>
      BY <1>3 DEF LinkLost
    <3> QED
      BY <2>2, <2>3, <3>1, CallsUntouched
  <2>6. /\ link'[s] = FALSE /\ net'[s].at = "lost" /\ broker'[s] = {}
        /\ \A t \in Sessions : t # s => /\ link'[t] = link[t] /\ net'[t] = net[t]
                                        /\ broker'[t] = broker[t]
        /\ failed' = failed
    BY <1>3 DEF LinkLost, TypeOK
  <2>7. LinkOwnedAt(s)' /\ SetsInStepAt(s)'
    BY <2>3, <2>6 DEF LinkOwned, LinkOwnedAt, SetsInStepAt
  <2> QED
    BY <2>2, <2>4, <2>5, <2>6, <2>7, LinksButOne
<1>4. CASE LinkLostClear(s)
  <2>1. sess' = [sess EXCEPT ![s] = [sess[s] EXCEPT !.active = {}]]
    BY <1>4 DEF LinkLostClear
  <2>2. /\ sess' \in [Sessions -> SessionType]
        /\ sess'[s] = [sess[s] EXCEPT !.active = {}]
        /\ \A t \in Sessions : t # s => sess'[t] = sess[t]
    BY <1>0, <2>1, SessionFields, SessionSet
  <2>3. /\ sess'[s].alive = sess[s].alive /\ sess'[s].started = sess[s].started
        /\ sess'[s].connected = sess[s].connected /\ sess'[s].active = {}
        /\ sess'[s].subscribed = sess[s].subscribed
    BY <1>0, <2>2 DEF SessionType
  <2>4. TypeOK'
    BY <1>4, <2>2 DEF LinkLostClear, TypeOK
  <2>5. CallsPlaced' /\ LiveOwned'
    <3>1. UNCHANGED <<call, cur, made>>
      BY <1>4 DEF LinkLostClear
    <3> QED
      BY <2>2, <2>3, <3>1, CallsUntouched
  <2>6. /\ link' = link /\ broker' = broker /\ failed' = failed
        /\ net'[s].at = "idle" /\ net[s].at = "lost" /\ ~link[s]
        /\ \A t \in Sessions : t # s => net'[t] = net[t]
    BY <1>4 DEF LinkLostClear, TypeOK, LinkOwned, LinkOwnedAt
  <2>7. LinkOwnedAt(s)' /\ SetsInStepAt(s)'
    BY <2>3, <2>6 DEF LinkOwned, LinkOwnedAt, SetsInStepAt
  <2> QED
    BY <2>2, <2>4, <2>5, <2>6, <2>7, LinksButOne
<1>5. CASE ReportNote(s) \/ \E d \in Devs : Report(s, d)
  <2>1. TypeOK'
    <3>1. CASE ReportNote(s)
      <4>1. reported' \in SUBSET Devs
        BY <1>0, <3>1 DEF ReportNote, TypeOK
      <4> QED
        BY <3>1, <4>1 DEF ReportNote, TypeOK
    <3>2. CASE \E d \in Devs : Report(s, d)
      BY <3>2 DEF Report, TypeOK
    <3> QED
      BY <1>5, <3>1, <3>2
  <2>2. /\ UNCHANGED <<call, cur, made>>
        /\ sess' = sess /\ link' = link /\ broker' = broker /\ failed' = failed
        /\ net[s].at \in {"idle", "msg"} /\ net'[s].at \in {"idle", "msg"}
        /\ \A t \in Sessions : t # s => net'[t] = net[t]
    BY <1>5 DEF ReportNote, Report, TypeOK
  <2>3. CallsPlaced' /\ LiveOwned'
    BY <2>2, CallsUntouched
  <2>4. LinkOwnedAt(s)' /\ SetsInStepAt(s)'
    BY <2>2 DEF LinkOwned, LinkOwnedAt, SetsInStep, SetsInStepAt
  <2> QED
    BY <2>1, <2>2, <2>3, <2>4, LinksButOne
<1> QED
  BY <1>1, <1>2, <1>3, <1>4, <1>5
(***************************************************************************)
(* The calls of Studio's threads.                                          *)
(***************************************************************************)

(* A step of connect_cloud, cloud_refresh or cloud_del_subscribe's part in *)
(* the agent keeps the invariant.                                          *)
LEMMA UiKeeps ==
    ASSUME OneUiThread, IInv, NEW c \in Ui,
           \/ ConnectCreate(c) \/ ConnectStart(c) \/ Refresh(c)
           \/ RefreshSwap(c) \/ RefreshStop(c)
           \/ \E d \in Devs : Del(c, d)
    PROVE  IInv'
<1> USE DEF IInv
<1>0. /\ c \in Callers /\ call[c] \in CallType
      /\ \A u \in Ui : u = c
      /\ c \notin Workers
  BY CloudParameters DEF TypeOK, Callers, OneUiThread
<1>1. CASE ConnectCreate(c)
  <2>1. /\ call' \in [Callers -> CallType]
        /\ call'[c].at \in {"idle", "start"} /\ call'[c].s = 0
        /\ \A u \in Callers : u # c => call'[u] = call[u]
    <3>1. \/ Goto(c, "start", 0, {}) \/ Return(c)
      BY <1>1 DEF ConnectCreate
    <3>2. 0 \in 0..MaxSessions /\ "start" \in CallLabels
      BY CloudParameters DEF CallLabels
    <3> QED
      BY <1>0, <3>1, <3>2, CallMoves, CallReturns
  <2>2. CallsPlaced'
    BY <1>0, <2>1 DEF CallsPlaced
  <2>3. /\ UNCHANGED <<reported, net, link, broker, failed, crashed>>
        /\ call[c].at \in {"idle", "create"}
    BY <1>1 DEF ConnectCreate
  <2>4. CASE cur # 0
    <3>1. UNCHANGED <<cur, made, sess>>
      BY <1>1, <2>4 DEF ConnectCreate
    <3>2. TypeOK'
      BY <2>1, <2>3, <3>1 DEF TypeOK
    <3>3. LiveOwned'
      BY <1>0, <2>1, <2>3, <3>1, SessionIds, <2>4 DEF LiveOwned
    <3> QED
      BY <2>2, <2>3, <3>1, <3>2, <3>3, LinksUntouched
  <2>5. CASE cur = 0
    <3>0. /\ made < MaxSessions /\ made' = made + 1 /\ cur' = made + 1
          /\ sess' = [sess EXCEPT ![made + 1] = [NoSession EXCEPT !.alive = TRUE]]
      BY <1>1, <2>5 DEF ConnectCreate
    <3>1. PICK n \in Sessions :
             /\ made' = n /\ cur' = n /\ made < MaxSessions
             /\ sess' = [sess EXCEPT ![n] = [NoSession EXCEPT !.alive = TRUE]]
      BY <3>0, SessionIds DEF TypeOK
    <3>2. n \in Sessions /\ n \in 0..MaxSessions /\ n # 0
      BY SessionIds
    <3>3. /\ sess' \in [Sessions -> SessionType]
          /\ sess'[n] = [NoSession EXCEPT !.alive = TRUE]
          /\ \A t \in Sessions : t # n => sess'[t] = sess[t]
      BY <3>1, <3>2, SessionFields, SessionSet, sess[n] \in SessionType DEF TypeOK
    <3>4. /\ sess'[n].alive = TRUE /\ sess'[n].started = FALSE
          /\ sess'[n].connected = FALSE
          /\ sess'[n].subscribed = {} /\ sess'[n].active = {}
      BY <3>3 DEF NoSession
    <3>5. TypeOK'
      BY <2>1, <2>3, <3>1, <3>2, <3>3 DEF TypeOK
    <3>6. \A t \in Sessions : ~sess[t].alive /\ ~sess[t].started /\ ~link[t]
      BY <1>0, <2>3, <2>5, SessionIds DEF LiveOwned, LinkOwned, LinkOwnedAt
    <3>7. LiveOwned'
      BY <1>0, <2>1, <3>1, <3>2, <3>3, <3>4, <3>6 DEF LiveOwned, TypeOK
    <3>8. LinkOwnedAt(n)' /\ SetsInStepAt(n)'
      BY <2>3, <3>2, <3>4, <3>6 DEF LinkOwned, LinkOwnedAt, SetsInStepAt
    <3> QED
      BY <2>2, <2>3, <3>2, <3>3, <3>5, <3>7, <3>8, LinksButOne
  <2> QED
    BY <2>4, <2>5
<1>2. CASE ConnectStart(c)
  <2>1. /\ call' \in [Callers -> CallType]
        /\ call'[c].at = "idle" /\ call'[c].s = 0 /\ call[c].at = "start"
        /\ \A u \in Callers : u # c => call'[u] = call[u]
    <3>1. Return(c) /\ call[c].at = "start"
      BY <1>2 DEF ConnectStart
    <3> QED
      BY <1>0, <3>1, CallReturns
  <2>2. CallsPlaced'
    BY <1>0, <2>1 DEF CallsPlaced
  <2>3. UNCHANGED <<cur, made, reported, net, link, broker, failed>>
    BY <1>2 DEF ConnectStart
  <2>4. CASE sess' = sess
    <3>1. TypeOK'
      BY <1>2, <2>1, <2>3, <2>4 DEF ConnectStart, TypeOK
    <3>2. LiveOwned'
      BY <1>0, <2>1, <2>3, <2>4, SessionIds DEF LiveOwned
    <3> QED
      BY <2>2, <2>3, <2>4, <3>1, <3>2, LinksUntouched
  <2>5. CASE sess' # sess
    <3>1. /\ cur # 0 /\ crashed' = crashed
          /\ sess' = [sess EXCEPT ![cur] = [sess[cur] EXCEPT !.started = TRUE]]
      BY <1>2, <2>5 DEF ConnectStart, Start
    <3>2. cur \in Sessions /\ sess[cur] \in SessionType
      BY <3>1, SessionIds DEF TypeOK
    <3>3. /\ sess' \in [Sessions -> SessionType]
          /\ sess'[cur] = [sess[cur] EXCEPT !.started = TRUE]
          /\ \A t \in Sessions : t # cur => sess'[t] = sess[t]
      BY <3>1, <3>2, SessionFields, SessionSet
    <3>4. /\ sess'[cur].alive = sess[cur].alive /\ sess'[cur].started = TRUE
          /\ sess'[cur].connected = sess[cur].connected
          /\ sess'[cur].subscribed = sess[cur].subscribed
          /\ sess'[cur].active = sess[cur].active
      BY <3>2, <3>3 DEF SessionType
    <3>5. TypeOK'
      BY <2>1, <2>3, <3>1, <3>3 DEF TypeOK
    <3>6. LiveOwned'
      BY <1>0, <2>1, <2>3, <3>1, <3>2, <3>3, <3>4 DEF LiveOwned
    <3>7. LinkOwnedAt(cur)' /\ SetsInStepAt(cur)'
      BY <2>3, <3>2, <3>4 DEF LinkOwned, LinkOwnedAt, SetsInStep, SetsInStepAt
    <3>8. \A s \in Sessions : LinkOwnedAt(s)' /\ SetsInStepAt(s)'
      BY <2>3, <3>2, <3>3, <3>7 DEF LinkOwned, LinkOwnedAt, SetsInStep, SetsInStepAt
    <3> QED
      BY <2>2, <3>5, <3>6, <3>8 DEF LinkOwned, SetsInStep
  <2> QED
    BY <2>4, <2>5
<1>3. CASE Refresh(c) \/ \E d \in Devs : Del(c, d)
  <2>1. /\ call' \in [Callers -> CallType]
        /\ call'[c].at \in {"idle", "swap", "del"} /\ call[c].at = "idle"
        /\ call'[c].at = "del" => call'[c].s # 0
        /\ \A u \in Callers : u # c => call'[u] = call[u]
    <3>1. /\ call[c].at = "idle"
          /\ \/ call' = call
             \/ Goto(c, "swap", 0, {})
             \/ cur # 0 /\ \E d \in Devs : Goto(c, "del", cur, {d})
      BY <1>3 DEF Refresh, Del
    <3>2. {0, cur} \subseteq 0..MaxSessions /\ {"swap", "del"} \subseteq CallLabels
      BY CloudParameters DEF CallLabels, TypeOK
    <3>3. CASE call' = call
      BY <3>1, <3>3 DEF TypeOK
    <3>4. CASE Goto(c, "swap", 0, {})
      BY <1>0, <3>1, <3>2, <3>4, CallMoves
    <3>5. CASE cur # 0 /\ \E d \in Devs : Goto(c, "del", cur, {d})
      BY <1>0, <3>1, <3>2, <3>5, CallMoves
    <3> QED
      BY <3>1, <3>3, <3>4, <3>5
  <2>2. UNCHANGED <<cur, made, sess, net, link, broker, failed, crashed>>
    BY <1>3 DEF Refresh, Del
  <2>3. TypeOK'
    BY <1>3, <2>1, <2>2 DEF TypeOK, Refresh, Del
  <2>4. CallsPlaced'
    <3>1. call'[c].s \in 0..MaxSessions
      BY <1>0, <2>1 DEF CallType
    <3> QED
      BY <1>0, <2>1, <3>1, SessionIds DEF CallsPlaced
  <2>5. LiveOwned'
    BY <1>0, <2>1, <2>2, SessionIds DEF LiveOwned
  <2> QED
    BY <2>2, <2>3, <2>4, <2>5, LinksUntouched
<1>4. CASE RefreshSwap(c)
  <2>1. /\ call' \in [Callers -> CallType]
        /\ cur = 0 => call'[c].at = "create"
        /\ cur # 0 => call'[c].at = "stop" /\ call'[c].s = cur
        /\ call[c].at = "swap"
        /\ \A u \in Callers : u # c => call'[u] = call[u]
    <3>1. /\ call[c].at = "swap"
          /\ cur = 0 => Goto(c, "create", 0, {})
          /\ cur # 0 => Goto(c, "stop", cur, {})
      BY <1>4 DEF RefreshSwap
    <3>2. {0, cur} \subseteq 0..MaxSessions /\ {"create", "stop"} \subseteq CallLabels
      BY CloudParameters DEF CallLabels, TypeOK
    <3> QED
      BY <1>0, <3>1, <3>2, CallMoves
  <2>2. UNCHANGED <<made, sess, net, link, broker, failed, crashed>> /\ cur' = 0
        /\ reported' = {}
    BY <1>4 DEF RefreshSwap
  <2>3. TypeOK'
    BY <2>1, <2>2, CloudParameters DEF TypeOK
  <2>4. CallsPlaced'
    BY <1>0, <2>1, <2>3, SessionIds DEF CallsPlaced, TypeOK
  <2>5. LiveOwned'
    BY <1>0, <2>1, <2>2, SessionIds DEF LiveOwned, TypeOK
  <2> QED
    BY <2>2, <2>3, <2>4, <2>5, LinksUntouched
<1>5. CASE RefreshStop(c)
  <2>1. PICK s \in Sessions : s = call[c].s /\ call[c].at = "stop"
    BY <1>0, <1>5 DEF RefreshStop, CallsPlaced
  <2>2. /\ call' \in [Callers -> CallType]
        /\ call'[c].at = "create"
        /\ \A u \in Callers : u # c => call'[u] = call[u]
    <3>1. Goto(c, "create", 0, {}) /\ 0 \in 0..MaxSessions /\ "create" \in CallLabels
      BY <1>5, CloudParameters DEF RefreshStop, CallLabels
    <3> QED
      BY <1>0, <3>1, CallMoves
  <2>3. /\ sess' = [sess EXCEPT ![s] = NoSession]
        /\ net' = [net EXCEPT ![s] = Quiet]
        /\ link' = [link EXCEPT ![s] = FALSE] /\ broker' = [broker EXCEPT ![s] = {}]
        /\ UNCHANGED <<cur, made, reported, failed, crashed>>
    BY <1>5, <2>1 DEF RefreshStop
  <2>4. /\ sess' \in [Sessions -> SessionType]
        /\ sess'[s] = NoSession
        /\ \A t \in Sessions : t # s => sess'[t] = sess[t]
    BY <2>1, <2>3, SessionFields, SessionSet, sess[s] \in SessionType DEF TypeOK
  <2>5. /\ sess'[s].alive = FALSE /\ sess'[s].started = FALSE
        /\ sess'[s].connected = FALSE
        /\ sess'[s].subscribed = {} /\ sess'[s].active = {}
    BY <2>4 DEF NoSession
  <2>6. /\ net'[s].at = "idle" /\ link'[s] = FALSE /\ broker'[s] = {}
        /\ \A t \in Sessions : t # s => /\ net'[t] = net[t] /\ link'[t] = link[t]
                                        /\ broker'[t] = broker[t]
    BY <2>1, <2>3 DEF TypeOK, Quiet
  <2>7. TypeOK'
    BY <2>1, <2>2, <2>3, <2>4 DEF TypeOK, Quiet
  <2>8. CallsPlaced'
    BY <1>0, <2>2 DEF CallsPlaced
  <2>9. LiveOwned'
    <3>1. cur = 0 /\ cur' = 0 /\ made' = made
      BY <2>1, <2>3 DEF LiveOwned
    <3>2. \A t \in Sessions : ~sess'[t].alive
      BY <1>0, <2>1, <2>4, <2>5, <3>1, SessionIds DEF LiveOwned
    <3>3. \A t \in Sessions : ~sess'[t].started
      BY <2>4, <2>5, <3>2 DEF LiveOwned
    <3> QED
      BY <3>1, <3>2, <3>3, <2>1 DEF LiveOwned
  <2>10. LinkOwnedAt(s)' /\ SetsInStepAt(s)'
    BY <2>5, <2>6 DEF LinkOwnedAt, SetsInStepAt
  <2> QED
    BY <2>1, <2>3, <2>4, <2>6, <2>7, <2>8, <2>9, <2>10, LinksButOne
<1> QED
  BY <1>1, <1>2, <1>3, <1>4, <1>5
(* A call of any thread that leaves the agent's session alone and starts   *)
(* or stops none keeps the ownership of the live sessions.                 *)
LEMMA OwnersUntouched ==
    ASSUME TypeOK, LiveOwned, NEW c \in Callers, UNCHANGED <<cur, made>>,
           call[c].at # "stop", call'[c].at # "stop",
           \A u \in Callers : u # c => call'[u] = call[u],
           \A s \in Sessions : /\ sess'[s].alive = sess[s].alive
                               /\ sess'[s].started = sess[s].started
    PROVE  LiveOwned'
<1>1. \A u \in Ui : u \in Callers
  BY DEF Callers
<1>2. \A u \in Ui : call[u].at = "stop" \/ call'[u].at = "stop" =>
                       u # c /\ call'[u] = call[u]
  BY <1>1
<1>3. cur # 0 => cur \in Sessions
  BY SessionIds DEF TypeOK
<1>4. cur' # 0 => sess'[cur'].alive
  BY <1>3 DEF LiveOwned
<1>5. ASSUME NEW s \in Sessions, sess'[s].alive
      PROVE  s = cur' \/ \E u \in Ui : call'[u].at = "stop" /\ call'[u].s = s
  BY <1>2, <1>5 DEF LiveOwned
<1> QED
  BY <1>2, <1>4, <1>5 DEF LiveOwned

(* cloud_add_subscribe, cloud_del_subscribe and cloud_send_message keep    *)
(* the invariant, in the step that fetches the pointer and in the one that *)
(* uses it, whether or not the session still exists.                       *)
LEMMA CallsKeep ==
    ASSUME OneUiThread, IInv, NEW c \in Callers,
           \/ c \in Workers /\ (Send(c) \/ GetUserPrintInfo(c))
           \/ DelSession(c) \/ AddSession(c) \/ SendSession(c)
    PROVE  IInv'
<1> USE DEF IInv
<1>1. CASE c \in Workers /\ (Send(c) \/ GetUserPrintInfo(c))
  <2>1. /\ cur # 0 /\ call[c].at = "idle"
        /\ \/ Goto(c, "send", cur, {})
           \/ \E ds \in SUBSET Devs : Goto(c, "add", cur, ds)
        /\ UNCHANGED <<cur, made, reported, sess, net, link, broker, failed, crashed>>
    BY <1>1 DEF Send, GetUserPrintInfo, BoundDevices, Add
  <2>2. cur \in 0..MaxSessions /\ cur \in Sessions /\ {"send", "add"} \subseteq CallLabels
    BY <2>1, SessionIds DEF TypeOK, CallLabels
  <2>3. /\ call' \in [Callers -> CallType]
        /\ call'[c].at \in {"send", "add"} /\ call'[c].s \in Sessions
        /\ \A u \in Callers : u # c => call'[u] = call[u]
    BY <2>1, <2>2, CallMoves
  <2>4. TypeOK'
    BY <2>1, <2>3 DEF TypeOK
  <2>5. CallsPlaced'
    BY <2>3 DEF CallsPlaced
  <2>6. LiveOwned'
    BY <2>1, <2>3, OwnersUntouched
  <2> QED
    BY <2>1, <2>4, <2>5, <2>6, LinksUntouched
<1>2. CASE DelSession(c) \/ AddSession(c) \/ SendSession(c)
  <2>1. PICK s \in Sessions : s = call[c].s /\ call[c].at \in {"del", "add", "send"}
    BY <1>2 DEF DelSession, AddSession, SendSession, CallsPlaced
  <2>2. /\ Return(c)
        /\ UNCHANGED <<cur, made, reported, net, link>>
    BY <1>2 DEF DelSession, AddSession, SendSession
  <2>3. /\ call' \in [Callers -> CallType] /\ call'[c].at = "idle"
        /\ \A u \in Callers : u # c => call'[u] = call[u]
    BY <2>2, CallReturns
  <2>4. CallsPlaced'
    BY <2>3 DEF CallsPlaced
  <2>5. /\ sess[s] \in SessionType /\ broker[s] \in SUBSET Devs /\ link[s] \in BOOLEAN
        /\ call[c].dev \in SUBSET Devs
        /\ sess[s].active \in SUBSET Devs /\ sess[s].subscribed \in SUBSET Devs
    BY DEF TypeOK, SessionType, CallType
  <2>6. crashed' \in BOOLEAN
    BY <1>2, <2>1, <2>5 DEF DelSession, AddSession, SendSession, TypeOK, SessionType
  <2>7. CASE UNCHANGED <<sess, broker, failed>>
    <3>1. TypeOK'
      BY <2>2, <2>3, <2>6, <2>7 DEF TypeOK
    <3>2. LiveOwned'
      BY <2>1, <2>2, <2>3, <2>7, OwnersUntouched
    <3> QED
      BY <2>2, <2>4, <2>7, <3>1, <3>2, LinksUntouched
  <2>8. CASE DelSession(c) /\ ~UNCHANGED <<sess, broker, failed>>
    <3> DEFINE gone == call[c].dev
    <3>1. /\ sess' = [sess EXCEPT ![s] = [sess[s] EXCEPT !.subscribed = @ \ gone,
                                                         !.active = @ \ gone]]
          /\ broker' = [broker EXCEPT ![s] = @ \ (gone \cap sess[s].active)]
          /\ failed' = failed
      BY <2>1, <2>5, <2>8 DEF DelSession, SessionType, TypeOK
    <3>2. [sess[s] EXCEPT !.subscribed = @ \ gone, !.active = @ \ gone] \in SessionType
      BY <2>5, SessionFields
    <3>3. /\ sess' \in [Sessions -> SessionType]
          /\ sess'[s] = [sess[s] EXCEPT !.subscribed = @ \ gone, !.active = @ \ gone]
          /\ \A t \in Sessions : t # s => sess'[t] = sess[t]
      BY <3>1, <3>2, SessionSet
    <3>4. /\ sess'[s].alive = sess[s].alive /\ sess'[s].started = sess[s].started
          /\ sess'[s].connected = sess[s].connected
          /\ sess'[s].subscribed = sess[s].subscribed \ gone
          /\ sess'[s].active = sess[s].active \ gone
      BY <2>5, <3>3 DEF SessionType
    <3>5. /\ broker' \in [Sessions -> SUBSET Devs]
          /\ broker'[s] = broker[s] \ (gone \cap sess[s].active)
          /\ \A t \in Sessions : t # s => broker'[t] = broker[t]
      BY <2>5, <3>1 DEF TypeOK
    <3>6. TypeOK'
      BY <2>2, <2>3, <2>6, <3>1, <3>3, <3>5 DEF TypeOK
    <3>7. LiveOwned'
      BY <2>1, <2>2, <2>3, <3>3, <3>4, OwnersUntouched
    <3>8. LinkOwnedAt(s)' /\ SetsInStepAt(s)'
      BY <2>2, <3>1, <3>4, <3>5 DEF LinkOwned, LinkOwnedAt, SetsInStep, SetsInStepAt
    <3> QED
      BY <2>2, <2>4, <3>1, <3>3, <3>5, <3>6, <3>7, <3>8, LinksButOne
  <2>9. CASE AddSession(c) /\ ~UNCHANGED <<sess, broker, failed>>
    <3> DEFINE wanted == sess[s].subscribed \cup call[c].dev
    <3>0. wanted \in SUBSET Devs
      BY <2>5
    <3>1. CASE sess[s].connected
      <4>1. Apply(s, wanted, sess[s].active) /\ sess[s].alive
        BY <2>1, <2>9, <3>1 DEF AddSession
      <4>2. PICK bad : Applied(s, wanted, sess[s].active, bad)
        BY <2>5, <3>0, <4>1, ApplyEffect
      <4>3. /\ sess'[s] = [sess[s] EXCEPT !.subscribed = wanted, !.active = wanted \ bad]
            /\ \A t \in Sessions : t # s => sess'[t] = sess[t]
        BY <4>2 DEF Applied, TypeOK
      <4>4. /\ sess'[s].alive = sess[s].alive /\ sess'[s].started = sess[s].started
            /\ sess'[s].connected = sess[s].connected
            /\ sess'[s].subscribed = wanted /\ sess'[s].active = wanted \ bad
        BY <2>5, <4>3 DEF SessionType
      <4>5. TypeOK'
        BY <2>2, <2>3, <2>6, <4>2 DEF TypeOK, Applied
      <4>6. LiveOwned'
        BY <2>1, <2>2, <2>3, <4>3, <4>4, OwnersUntouched
      <4>7. LinkOwnedAt(s)' /\ SetsInStepAt(s)'
        BY <2>2, <3>1, <4>2, <4>4
           DEF Applied, LinkOwned, LinkOwnedAt, SetsInStep, SetsInStepAt
      <4>8. \A t \in Sessions : t # s => ~link[t]
        BY <4>1, OneLive DEF LinkOwned, LinkOwnedAt, LiveOwned
      <4> QED
        BY <2>2, <2>4, <4>2, <4>3, <4>5, <4>6, <4>7, <4>8, LinksButOne DEF Applied
    <3>2. CASE ~sess[s].connected
      <4>1. /\ sess' = [sess EXCEPT ![s] = [sess[s] EXCEPT !.subscribed = wanted]]
            /\ broker' = broker /\ failed' = failed
        BY <2>1, <2>9, <3>2 DEF AddSession
      <4>2. /\ sess' \in [Sessions -> SessionType]
            /\ sess'[s] = [sess[s] EXCEPT !.subscribed = wanted]
            /\ \A t \in Sessions : t # s => sess'[t] = sess[t]
        BY <2>5, <3>0, <4>1, SessionFields, SessionSet
      <4>3. /\ sess'[s].alive = sess[s].alive /\ sess'[s].started = sess[s].started
            /\ sess'[s].connected = sess[s].connected
            /\ sess'[s].subscribed = wanted /\ sess'[s].active = sess[s].active
        BY <2>5, <4>2 DEF SessionType
      <4>4. TypeOK'
        BY <2>2, <2>3, <2>6, <4>1, <4>2 DEF TypeOK
      <4>5. LiveOwned'
        BY <2>1, <2>2, <2>3, <4>2, <4>3, OwnersUntouched
      <4>6. LinkOwnedAt(s)' /\ SetsInStepAt(s)'
        BY <2>2, <3>2, <4>1, <4>3 DEF LinkOwned, LinkOwnedAt, SetsInStepAt
      <4> QED
        BY <2>2, <2>4, <4>1, <4>2, <4>4, <4>5, <4>6, LinksButOne
    <3> QED
      BY <3>1, <3>2
  <2>10. CASE SendSession(c)
    BY <2>7, <2>10 DEF SendSession, extVars
  <2> QED
    BY <1>2, <2>7, <2>8, <2>9, <2>10
<1> QED
  BY <1>1, <1>2

(***************************************************************************)
(* The theorems.                                                           *)
(***************************************************************************)

(* Every step of every thread keeps the invariant.                         *)
LEMMA NextKeeps ==
    ASSUME OneUiThread, IInv, [Next]_vars
    PROVE  IInv'
<1>1. CASE UNCHANGED vars
  BY <1>1 DEF vars, IInv, TypeOK, CallsPlaced, LiveOwned,
              LinkOwned, LinkOwnedAt, SetsInStep, SetsInStepAt
<1>2. CASE \E c \in Ui : UiStep(c)
  BY <1>2, UiKeeps DEF UiStep
<1>3. CASE \E c \in Workers : WorkerStep(c)
  BY <1>3, CallsKeep DEF WorkerStep, Callers
<1>4. CASE \E c \in Callers : Continue(c)
  <2>1. PICK c \in Callers : Continue(c)
    BY <1>4
  <2>2. call[c].at \in {"start", "swap", "stop", "create"} => c \in Ui
    BY DEF IInv, CallsPlaced, Callers
  <2>3. CASE ConnectStart(c) \/ RefreshSwap(c) \/ RefreshStop(c)
             \/ (At(c, "create") /\ ConnectCreate(c))
    <3>1. c \in Ui
      BY <2>2, <2>3 DEF ConnectStart, RefreshSwap, RefreshStop
    <3> QED
      BY <2>3, <3>1, UiKeeps
  <2>4. CASE DelSession(c) \/ AddSession(c) \/ SendSession(c)
    BY <2>4, CallsKeep
  <2> QED
    BY <2>1, <2>3, <2>4 DEF Continue
<1>5. CASE \E s \in Sessions : \/ NetStep(s) \/ LinkLost(s)
                               \/ \E d \in Devs : Report(s, d)
  BY <1>5, NetworkKeeps DEF NetStep
<1> QED
  BY <1>1, <1>2, <1>3, <1>4, <1>5 DEF Next

(* The agent starts without a session and every operation keeps the        *)
(* invariant.                                                              *)
THEOREM CloudInvariant ==
    ASSUME OneUiThread
    PROVE  Spec => []IInv
<1>1. Init => IInv
  <2> SUFFICES ASSUME Init PROVE IInv
    OBVIOUS
  <2>1. NoSession \in SessionType /\ Quiet \in [at : {"idle", "connack", "lost", "msg"}, dev : SUBSET Devs]
        /\ NoCall \in CallType
    BY CloudParameters DEF NoSession, SessionType, Quiet, NoCall, CallType, CallLabels
  <2>2. TypeOK
    <3>1. cur \in 0..MaxSessions /\ made \in 0..MaxSessions
      BY CloudParameters DEF Init
    <3>2. /\ sess \in [Sessions -> SessionType]
          /\ call \in [Callers -> CallType]
          /\ net \in [Sessions -> [at : {"idle", "connack", "lost", "msg"}, dev : SUBSET Devs]]
      BY <2>1 DEF Init
    <3> QED
      BY <3>1, <3>2 DEF Init, TypeOK
  <2>3. CallsPlaced /\ LiveOwned
    BY CloudParameters DEF Init, CallsPlaced, LiveOwned, NoCall, NoSession, Callers
  <2>4. LinkOwned /\ SetsInStep
    BY DEF Init, LinkOwned, LinkOwnedAt, SetsInStep, SetsInStepAt, NoSession, Quiet
  <2> QED
    BY <2>2, <2>3, <2>4 DEF IInv
<1>2. IInv /\ [Next]_vars => IInv'
  BY NextKeeps
<1> QED
  BY <1>1, <1>2, PTL DEF Spec

(* add_subscribe, del_subscribe and the CONNACK handler stay in step, for  *)
(* any number of workers, devices and reconnects: the devices the broker   *)
(* forwards, active_ and subscribed_ differ only where a SUBSCRIBE failed  *)
(* and was reported.                                                       *)
THEOREM SubscriptionsStayInStep ==
    ASSUME OneUiThread
    PROVE  Spec => []SubscriptionsInStep
<1>1. IInv => SubscriptionsInStep
  BY DEF IInv, SetsInStep, SetsInStepAt, SubscriptionsInStep
<1> QED
  BY <1>1, CloudInvariant, PTL

(* disconnect_cloud has stopped the old CloudSession before connect_cloud  *)
(* starts the next one: never two network threads.                         *)
THEOREM OneConnectionOnly ==
    ASSUME OneUiThread
    PROVE  Spec => []OneConnection
<1>1. ASSUME IInv PROVE OneConnection
  <2> DEFINE S == {s \in Sessions : sess[s].started}
  <2>1. \A s, t \in S : s = t
    BY <1>1, OneLive DEF IInv, LiveOwned
  <2>2. CASE S = {}
    <3>1. Cardinality({}) = 0
      BY FS_EmptySet
    <3> QED
      BY <2>2, <3>1 DEF OneConnection
  <2>3. CASE S # {}
    <3>1. PICK s \in S : S = {s}
      BY <2>1, <2>3
    <3>2. Cardinality({s}) = 1
      BY FS_Singleton
    <3> QED
      BY <3>1, <3>2 DEF OneConnection
  <2> QED
    BY <2>2, <2>3
<1> QED
  BY <1>1, CloudInvariant, PTL
=============================================================================
