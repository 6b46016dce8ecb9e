------------------------------ MODULE CloudLink ------------------------------
(***************************************************************************)
(* The cloud MQTT link: Agent's cloud half (src/src/agent.cpp, connect_-   *)
(* cloud to cloud_send_message) and CloudSession (src/src/cloud_-          *)
(* session.cpp).  Agent owns at most one CloudSession; a session owns one  *)
(* mosquitto client, whose network thread runs the session's callbacks.    *)
(*                                                                         *)
(* Three kinds of thread meet here.  Studio's UI thread connects, removes  *)
(* subscriptions and, once a second, calls cloud_refresh.  Studio's        *)
(* workers add subscriptions (get_user_print_info) and send messages       *)
(* (cloud print).  Each session's network thread handles CONNACK, the loss *)
(* of the link and reports.  A step is what a thread does under one hold   *)
(* of Agent::mu_ or CloudSession::mu_, or between two of them.             *)
(*                                                                         *)
(* Using a CloudSession after its destruction is undefined behaviour; it   *)
(* is recorded in `crashed' and nothing happens after it.                  *)
(***************************************************************************)
EXTENDS Integers, FiniteSets

CONSTANTS
    Ui,          \* threads that connect, refresh and unsubscribe
    Workers,     \* threads that subscribe and send
    Devs,        \* dev_ids
    MayFail,     \* login missing, connect_async or SUBSCRIBE may fail
    MaxSessions  \* bound: CloudSessions created in one behaviour

Callers  == Ui \cup Workers
Sessions == 1..MaxSessions

ASSUME CloudParameters ==
    /\ Ui \cap Workers = {}
    /\ IsFiniteSet(Callers) /\ IsFiniteSet(Devs)
    /\ MayFail \in BOOLEAN
    /\ MaxSessions \in Nat \ {0}

VARIABLES
    cur,       \* Agent::cloud_session_, 0 when null
    made,      \* sessions created so far
    sess,      \* [Sessions -> state of a CloudSession]
    reported,  \* Agent::cloud_connected_devs_
    net,       \* [Sessions -> where the network thread is]
    call,      \* [Callers -> the call in progress]
    link,      \* [Sessions -> BOOLEAN]: broker and client are connected
    broker,    \* [Sessions -> devices the broker forwards on this link]
    failed,    \* history: devices reported to on_subscribe_failed_
    crashed    \* a destroyed CloudSession was used

agentVars == <<cur, made, reported>>
extVars   == <<link, broker>>
vars == <<agentVars, sess, net, call, extVars, failed, crashed>>

NoSession == [alive |-> FALSE, started |-> FALSE, connected |-> FALSE,
              subscribed |-> {}, active |-> {}]

Quiet == [at |-> "idle", dev |-> {}]
NoCall == [at |-> "idle", s |-> 0, dev |-> {}]

Init ==
    /\ cur = 0 /\ made = 0 /\ reported = {}
    /\ sess = [s \in Sessions |-> NoSession]
    /\ net = [s \in Sessions |-> Quiet]
    /\ call = [c \in Callers |-> NoCall]
    /\ link = [s \in Sessions |-> FALSE]
    /\ broker = [s \in Sessions |-> {}]
    /\ failed = {}
    /\ crashed = FALSE

Idle(c) == ~crashed /\ call[c].at = "idle"
At(c, l) == ~crashed /\ call[c].at = l
Goto(c, l, s, d) == call' = [call EXCEPT ![c] = [at |-> l, s |-> s, dev |-> d]]
Return(c) == call' = [call EXCEPT ![c] = NoCall]

(***************************************************************************)
(* CloudSession.                                                           *)
(***************************************************************************)

(* apply_subscriptions_locked_: SUBSCRIBE everything desired and not yet   *)
(* active; the devices for which that fails are reported.                  *)
Apply(s, subscribed, active) ==
    \E bad \in SUBSET (subscribed \ active) :
        /\ bad # {} => MayFail
        /\ sess' = [sess EXCEPT ![s].subscribed = subscribed,
                                ![s].active = subscribed \ bad]
        /\ broker' = [broker EXCEPT ![s] = @ \cup (subscribed \ (active \cup bad))]
        /\ failed' = (failed \ subscribed) \cup bad

(* start: the network thread runs from here; connect_async may refuse.     *)
Start(s) ==
    \/ sess[s].started /\ UNCHANGED sess
    \/ ~sess[s].started /\ sess' = [sess EXCEPT ![s].started = TRUE]
    \/ ~sess[s].started /\ MayFail /\ UNCHANGED sess

(***************************************************************************)
(* Calls of the UI thread.                                                 *)
(***************************************************************************)

(* connect_cloud up to the login check: the session exists even when the   *)
(* user is not logged in.                                                  *)
ConnectCreate(c) ==
    /\ Idle(c) \/ At(c, "create")
    /\ IF cur # 0 THEN UNCHANGED <<cur, made, sess>>
       ELSE /\ made < MaxSessions /\ made' = made + 1 /\ cur' = made'
            /\ sess' = [sess EXCEPT ![made'] = [NoSession EXCEPT !.alive = TRUE]]
    /\ \/ Goto(c, "start", 0, {})
       \/ MayFail /\ Return(c)
    /\ UNCHANGED <<reported, net, extVars, failed, crashed>>

(* The rest of connect_cloud uses cloud_session_ without the lock.         *)
ConnectStart(c) ==
    /\ At(c, "start") /\ Return(c)
    /\ IF cur = 0 THEN crashed' = TRUE /\ UNCHANGED sess
                  ELSE Start(cur) /\ UNCHANGED crashed
    /\ UNCHANGED <<agentVars, net, extVars, failed>>

(* cloud_refresh: nothing to do while cloud_connected().                   *)
Refresh(c) ==
    /\ Idle(c) /\ made < MaxSessions
    /\ ~(cur # 0 /\ sess[cur].connected)
    /\ Goto(c, "swap", 0, {})
    /\ UNCHANGED <<agentVars, sess, net, extVars, failed, crashed>>

(* Mutant: the old session is let go instead of stopped.                   *)
RefreshSwap_Leaks(c) ==
    /\ At(c, "swap") /\ cur' = 0 /\ reported' = {}
    /\ Goto(c, "create", 0, {})
    /\ UNCHANGED <<made, sess, net, extVars, failed, crashed>>

(* disconnect_cloud: move the session out and clear the set in one hold of *)
(* mu_, then stop and destroy the session outside it.                      *)
RefreshSwap(c) ==
    /\ At(c, "swap") /\ cur' = 0 /\ reported' = {}
    /\ IF cur = 0 THEN Goto(c, "create", 0, {}) ELSE Goto(c, "stop", cur, {})
    /\ UNCHANGED <<made, sess, net, extVars, failed, crashed>>

(* stop, then ~CloudSession.  mosquitto_loop_stop(force) ends the network  *)
(* thread, in the middle of a callback if need be.                         *)
RefreshStop(c) ==
    LET s == call[c].s IN
    /\ At(c, "stop") /\ Goto(c, "create", 0, {})
    /\ sess' = [sess EXCEPT ![s] = NoSession]
    /\ net' = [net EXCEPT ![s] = Quiet]
    /\ link' = [link EXCEPT ![s] = FALSE] /\ broker' = [broker EXCEPT ![s] = {}]
    /\ UNCHANGED <<agentVars, failed, crashed>>

(* cloud_del_subscribe: the agent's part, then the session's.              *)
Del(c, d) ==
    /\ Idle(c)
    /\ reported' = reported \ {d}
    /\ IF cur = 0 THEN UNCHANGED call ELSE Goto(c, "del", cur, {d})
    /\ UNCHANGED <<cur, made, sess, net, extVars, failed, crashed>>

DelSession(c) ==
    LET s == call[c].s  gone == call[c].dev IN
    /\ At(c, "del") /\ Return(c)
    /\ IF ~sess[s].alive THEN crashed' = TRUE /\ UNCHANGED <<sess, broker>>
       ELSE /\ sess' = [sess EXCEPT ![s].subscribed = @ \ gone, ![s].active = @ \ gone]
            /\ broker' = [broker EXCEPT ![s] = @ \ (gone \cap sess[s].active)]
            /\ UNCHANGED crashed
    /\ UNCHANGED <<agentVars, net, link, failed>>

(***************************************************************************)
(* Calls of the workers.                                                   *)
(***************************************************************************)

(* cloud_add_subscribe and cloud_send_message fetch the pointer under mu_  *)
(* and use it without; they fail when there is no session.                 *)
Add(c, ds) ==
    /\ Idle(c) /\ cur # 0 /\ Goto(c, "add", cur, ds)
    /\ UNCHANGED <<agentVars, sess, net, extVars, failed, crashed>>

(* remap_bind_payload: the dev_ids of whatever devices the account has.    *)
BoundDevices == SUBSET Devs

(* get_user_print_info: every bound device becomes a subscription, if the  *)
(* user is logged in and the request succeeds.                             *)
GetUserPrintInfo(c) == \E ds \in BoundDevices \ {{}} : Add(c, ds)

(* Mutant: the set is only applied by the next CONNACK.                    *)
AddSession_NoApply(c) ==
    LET s == call[c].s  wanted == sess[s].subscribed \cup call[c].dev IN
    /\ At(c, "add") /\ Return(c)
    /\ sess' = [sess EXCEPT ![s].subscribed = wanted]
    /\ UNCHANGED <<agentVars, net, extVars, failed, crashed>>

AddSession(c) ==
    LET s == call[c].s  wanted == sess[s].subscribed \cup call[c].dev IN
    /\ At(c, "add") /\ Return(c)
    /\ IF ~sess[s].alive
         THEN crashed' = TRUE /\ UNCHANGED <<sess, broker, failed>>
         ELSE /\ IF sess[s].connected THEN Apply(s, wanted, sess[s].active)
                 ELSE /\ sess' = [sess EXCEPT ![s].subscribed = wanted]
                      /\ UNCHANGED <<broker, failed>>
              /\ UNCHANGED crashed
    /\ UNCHANGED <<agentVars, net, link>>

Send(c) ==
    /\ Idle(c) /\ cur # 0 /\ Goto(c, "send", cur, {})
    /\ UNCHANGED <<agentVars, sess, net, extVars, failed, crashed>>

(* CloudSession::publish reads client_ and connected_.                     *)
SendSession(c) ==
    /\ At(c, "send") /\ Return(c)
    /\ crashed' = ~sess[call[c].s].alive
    /\ UNCHANGED <<agentVars, sess, net, extVars, failed>>

(***************************************************************************)
(* The network thread of a session, and the broker (external).             *)
(***************************************************************************)
NetAt(s, l) == ~crashed /\ sess[s].alive /\ net[s].at = l
NetGoto(s, l, d) == net' = [net EXCEPT ![s] = [at |-> l, dev |-> d]]

(* CONNACK 0, at first and after each automatic reconnect: on_connect sets *)
(* connected_ before it takes the session's lock.                          *)
Connack(s) ==
    /\ NetAt(s, "idle") /\ sess[s].started /\ ~link[s]
    /\ link' = [link EXCEPT ![s] = TRUE]
    /\ sess' = [sess EXCEPT ![s].connected = TRUE]
    /\ NetGoto(s, "connack", {})
    /\ UNCHANGED <<agentVars, call, broker, failed, crashed>>

(* Mutant: subscriptions are not re-applied.                               *)
ConnackApply_Forgets(s) ==
    /\ NetAt(s, "connack") /\ NetGoto(s, "idle", {})
    /\ sess' = [sess EXCEPT ![s].active = {}]
    /\ UNCHANGED <<agentVars, call, extVars, failed, crashed>>

ConnackApply(s) ==
    /\ NetAt(s, "connack") /\ NetGoto(s, "idle", {})
    /\ Apply(s, sess[s].subscribed, {})
    /\ UNCHANGED <<agentVars, call, link, crashed>>

(* The link drops: connected_ first, active_ under the lock.               *)
LinkLost(s) ==
    /\ NetAt(s, "idle") /\ link[s]
    /\ link' = [link EXCEPT ![s] = FALSE] /\ broker' = [broker EXCEPT ![s] = {}]
    /\ sess' = [sess EXCEPT ![s].connected = FALSE]
    /\ NetGoto(s, "lost", {})
    /\ UNCHANGED <<agentVars, call, failed, crashed>>

LinkLostClear(s) ==
    /\ NetAt(s, "lost") /\ NetGoto(s, "idle", {})
    /\ sess' = [sess EXCEPT ![s].active = {}]
    /\ UNCHANGED <<agentVars, call, extVars, failed, crashed>>

(* A report of a subscribed device: the first one since the set was        *)
(* cleared calls on_printer_connected, every one reaches on_message.       *)
Report(s, d) ==
    /\ NetAt(s, "idle") /\ link[s] /\ d \in broker[s]
    /\ NetGoto(s, "msg", {d})
    /\ UNCHANGED <<agentVars, sess, call, extVars, failed, crashed>>

ReportNote(s) ==
    /\ NetAt(s, "msg") /\ NetGoto(s, "idle", {})
    /\ reported' = reported \cup net[s].dev
    /\ UNCHANGED <<cur, made, sess, call, extVars, failed, crashed>>

(***************************************************************************)
(* The specification.                                                      *)
(***************************************************************************)
Continue(c) ==
    \/ ConnectStart(c) \/ RefreshSwap(c) \/ RefreshStop(c) \/ DelSession(c)
    \/ AddSession(c) \/ SendSession(c)
    \/ At(c, "create") /\ ConnectCreate(c)

(* The bambu_network_* entry points of the cloud link.                     *)
UiStep(c) == ConnectCreate(c) \/ Refresh(c) \/ \E d \in Devs : Del(c, d)
WorkerStep(c) == Send(c) \/ GetUserPrintInfo(c)

NetStep(s) == Connack(s) \/ ConnackApply(s) \/ LinkLostClear(s) \/ ReportNote(s)

Next ==
    \/ \E c \in Ui : UiStep(c)
    \/ \E c \in Workers : WorkerStep(c)
    \/ \E c \in Callers : Continue(c)
    \/ \E s \in Sessions : \/ NetStep(s) \/ LinkLost(s)
                           \/ \E d \in Devs : Report(s, d)

Spec == Init /\ [][Next]_vars

(* Calls in progress go on, mosquitto's thread runs and reconnects.        *)
FairSpec ==
    /\ Spec
    /\ \A c \in Callers : WF_vars(Continue(c))
    /\ \A s \in Sessions : WF_vars(NetStep(s))

(***************************************************************************)
(* Properties.                                                             *)
(***************************************************************************)

(* add_subscribe, del_subscribe and the CONNACK handler stay in step: once *)
(* the handler is through, every desired device is active, and the broker  *)
(* forwards exactly the active devices - however the calls fall between    *)
(* connected_, the lock and the SUBSCRIBEs.  Only a device whose SUBSCRIBE *)
(* failed, and was reported as failed, may differ: one that an earlier     *)
(* SUBSCRIBE of the same link got through stays with the broker.           *)
SubscriptionsInStep ==
    \A s \in Sessions : ~crashed /\ link[s] /\ net[s].at # "connack" =>
        /\ sess[s].active \subseteq broker[s]
        /\ (broker[s] \cup sess[s].subscribed) \ sess[s].active \subseteq failed

(* "One connection per logged-in user": a session is stopped before the    *)
(* next one starts.                                                        *)
OneConnection == Cardinality({s \in Sessions : sess[s].started}) <= 1

(* A device that a started session desires ends up subscribed at the       *)
(* broker, through any number of lost links, unless it is removed, its     *)
(* SUBSCRIBE is reported as failed, or the session is torn down.           *)
EventuallySubscribed ==
    \A s \in Sessions, d \in Devs :
        sess[s].started /\ d \in sess[s].subscribed
            ~> d \in broker[s] \cup failed \/ d \notin sess[s].subscribed \/ crashed
=============================================================================
