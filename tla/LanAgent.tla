------------------------------ MODULE LanAgent ------------------------------
(***************************************************************************)
(* The LAN half of obn::Agent (src/src/agent.cpp): connect_printer,        *)
(* disconnect_printer, send_message_to_printer, the notify_local_*         *)
(* callbacks and install_device_cert, over LanSession (lan_session.cpp)    *)
(* and mqtt::Client (mqtt_client.cpp).                                     *)
(*                                                                         *)
(* Agent owns one LanSession in lan_session_, guarded by Agent::mu_.       *)
(* Destroying a session joins its MQTT network thread; that thread's       *)
(* callbacks take mu_.  Host threads make the calls, certificate snapshots *)
(* run on detached threads.  A step is one hold of mu_, or what happens    *)
(* between two holds; `mu' has an owner only across the steps of the one   *)
(* section that joins a thread inside it.                                  *)
(***************************************************************************)
EXTENDS Integers, FiniteSets

CONSTANTS
    Ui,          \* host threads that connect, disconnect, install certs
    Senders,     \* host threads that send (UI and print jobs)
    Devs,        \* dev_ids; each has its own IP address
    None,
    MaxSessions  \* bound: LanSessions created in one behaviour

Callers  == Ui \cup Senders
Sessions == 1..MaxSessions

ASSUME LanParameters ==
    /\ Ui \cap Senders = {} /\ IsFiniteSet(Callers) /\ IsFiniteSet(Devs)
    /\ None \notin Callers \cup Devs
    /\ MaxSessions \in Nat \ {0}

VARIABLES
    mu,         \* owner of Agent::mu_ across a join, else None
    lan,        \* Agent::lan_session_, 0 when null
    made,       \* sessions created so far
    dev,        \* [Sessions -> dev_id]
    run,        \* [Sessions -> "new" | "run" | "bye" | "gone"]: its network thread
    net,        \* [Sessions -> "idle" | "callback"]: what that thread does
    call,       \* [Callers -> the call in progress]
    certFile,   \* devices whose certificate is on disk
    certified,  \* Agent::certified_devs_
    inflight,   \* Agent::cert_snapshot_inflight_
    cooldown,   \* Agent::cert_snapshot_cooldown_, not yet over
    snapshots,  \* [Devs -> number of snapshot threads running]
    trusted,    \* lan_tls: devices whose certificate is registered for their IP
    stateFile,  \* the same set as the state file on disk has it
    bundles,    \* sessions whose merged trust bundle is a file on disk
    crashed     \* a destroyed LanSession was used

trustVars == <<trusted, stateFile>>
certVars == <<certFile, certified, inflight, cooldown, snapshots, trustVars>>
sessVars == <<made, dev, run, bundles>>
vars == <<mu, lan, sessVars, net, call, certVars, crashed>>

NoCall == [at |-> "idle", s |-> 0, d |-> None, switching |-> FALSE]

Init ==
    /\ mu = None /\ lan = 0 /\ made = 0
    /\ dev = [s \in Sessions |-> None]
    /\ run = [s \in Sessions |-> "new"]
    /\ net = [s \in Sessions |-> "idle"]
    /\ call = [c \in Callers |-> NoCall]
    /\ certFile \in SUBSET Devs /\ certified = {} /\ inflight = {} /\ cooldown = {}
    /\ snapshots = [d \in Devs |-> 0]
    /\ trusted = {} /\ stateFile = {} /\ bundles = {}
    /\ crashed = FALSE

At(c, l) == ~crashed /\ call[c].at = l
Goto(c, l) == call' = [call EXCEPT ![c].at = l]
Return(c) == call' = [call EXCEPT ![c] = NoCall]

(* A section under mu_ that one step covers.                               *)
Locked == mu = None

(* The end of a section, for the thread that is in one.                    *)
Unlock(c) == mu' = IF mu = c THEN None ELSE mu

(* The bound leaves room for one more call of connect_printer.             *)
SessionLeft ==
    made + Cardinality({c \in Ui : call[c].at \in {"join", "prep", "snap", "register", "start"}})
        < MaxSessions

(***************************************************************************)
(* mqtt::Client, cert_store and lan_tls under a session.                   *)
(***************************************************************************)

(* ~Client: the merged trust bundle is removed, the thread is gone.        *)
FreeClient(s) == run' = [run EXCEPT ![s] = "gone"] /\ bundles' = bundles \ {s}

(* Client::disconnect: loop_stop joins the network thread, which cannot be *)
(* ended while it waits for mu_ in a callback.                             *)
Destroy(s) == net[s] = "idle" /\ FreeClient(s)

(* merged_trust_bundle_path: CA file and peer certificate become one       *)
(* temporary file; without a peer, or if it cannot be written, the CA file *)
(* is used as it is.                                                       *)
MergedTrust(s, d) ==
    \/ d \in trusted /\ bundles' = bundles \cup {s}
    \/ UNCHANGED bundles

(* Client::connect: any step before loop_start may fail.                   *)
ClientConnect(s, d) == run' = [run EXCEPT ![s] = "run"] /\ MergedTrust(s, d)

(* Client::publish on a session that may be gone.                          *)
Publish(s) == crashed' = (run[s] = "gone")

(* capture_peer_cert_pem: what it returns and the certificate files after  *)
(* it.  Opening the file creates it, writing it may still fail.            *)
CapturePeerCert(d) ==
    { [ok |-> FALSE, files |-> certFile],
      [ok |-> FALSE, files |-> certFile \cup {d}],
      [ok |-> TRUE,  files |-> certFile \cup {d}] }

(* write_state_file_locked: a new file replaces the old one, or none does. *)
WriteStateFile(t) == stateFile' \in {t, stateFile}

(* registry_set_peer_cert.                                                 *)
SetPeerCert(d) ==
    /\ trusted' = trusted \cup {d}
    /\ IF d \in trusted THEN UNCHANGED stateFile ELSE WriteStateFile(trusted')

(***************************************************************************)
(* connect_printer.                                                        *)
(***************************************************************************)

(* Mutant: the previous session stays in place and keeps running.          *)
Connect_KeepsOld(c, d) ==
    /\ At(c, "idle") /\ Locked /\ SessionLeft
    /\ call' = [call EXCEPT ![c] = [at |-> "prep", s |-> 0, d |-> d, switching |-> FALSE]]
    /\ lan' = 0
    /\ UNCHANGED <<mu, sessVars, net, certVars, crashed>>

(* Move the previous session out under mu_.                                *)
Connect(c, d) ==
    /\ At(c, "idle") /\ Locked /\ SessionLeft
    /\ call' = [call EXCEPT ![c] = [at |-> IF lan = 0 THEN "prep" ELSE "join",
                                    s |-> lan, d |-> d,
                                    switching |-> lan # 0 /\ dev[lan] # d]]
    /\ lan' = 0
    /\ UNCHANGED <<mu, sessVars, net, certVars, crashed>>

(* Destroy it with mu_ released.                                           *)
ConnectJoin(c) ==
    /\ At(c, "join") /\ Destroy(call[c].s) /\ Goto(c, "prep")
    /\ UNCHANGED <<mu, lan, made, dev, net, certVars, crashed>>

(* Forget certificates when switching printers.                            *)
ConnectPrepare(c) ==
    /\ At(c, "prep") /\ (call[c].switching => Locked) /\ Goto(c, "snap")
    /\ certified' = IF call[c].switching THEN {} ELSE certified
    /\ UNCHANGED <<mu, lan, sessVars, net, certFile, inflight, cooldown, snapshots,
                   trustVars, crashed>>

(* Take a snapshot of the device's certificate if there is none and TLS    *)
(* verification is on.                                                     *)
ConnectSnapshot(c) ==
    LET d == call[c].d IN
    /\ At(c, "snap") /\ Locked /\ Goto(c, "register")
    /\ \/ UNCHANGED <<certFile, certified>>
       \/ \E r \in CapturePeerCert(d) :
             /\ d \notin certFile
             /\ certFile' = r.files
             /\ certified' = IF r.ok THEN certified \cup {d} ELSE certified
    /\ UNCHANGED <<mu, lan, sessVars, net, inflight, cooldown, snapshots, trustVars, crashed>>

(* A certificate file that exists now is registered for the printer's IP.  *)
ConnectRegister(c) ==
    /\ At(c, "register") /\ Goto(c, "start")
    /\ IF call[c].d \in certFile THEN SetPeerCert(call[c].d) ELSE UNCHANGED trustVars
    /\ UNCHANGED <<mu, lan, sessVars, net, certFile, certified, inflight, cooldown,
                   snapshots, crashed>>

(* LanSession::start: callbacks may come before the session is installed.  *)
(* On failure the session dies with the call.                              *)
ConnectStart(c) ==
    /\ At(c, "start")
    /\ made' = made + 1
    /\ dev' = [dev EXCEPT ![made'] = call[c].d]
    /\ \/ /\ ClientConnect(made', call[c].d)
          /\ call' = [call EXCEPT ![c].at = "install", ![c].s = made']
       \/ FreeClient(made') /\ Return(c)
    /\ UNCHANGED <<mu, lan, net, certVars, crashed>>

(* lan_session_ = std::move(session) under mu_: a session that another     *)
(* thread has installed meanwhile is destroyed inside this section.        *)
ConnectInstall(c) ==
    /\ At(c, "install") /\ Locked
    /\ lan' = call[c].s
    /\ IF lan = 0 THEN Return(c) /\ UNCHANGED mu
       ELSE /\ mu' = c
            /\ call' = [call EXCEPT ![c].at = "swap_join", ![c].s = lan]
    /\ UNCHANGED <<sessVars, net, certVars, crashed>>

ConnectSwapJoin(c) ==
    /\ At(c, "swap_join") /\ Destroy(call[c].s)
    /\ Unlock(c) /\ Return(c)
    /\ UNCHANGED <<lan, made, dev, net, certVars, crashed>>

(***************************************************************************)
(* disconnect_printer and send_message_to_printer.                         *)
(***************************************************************************)

(* Mutant: the session is disconnected inside the section that takes it.   *)
Disconnect_Locked(c) ==
    /\ At(c, "idle") /\ Locked /\ lan # 0
    /\ call' = [call EXCEPT ![c] = [NoCall EXCEPT !.at = "disc", !.s = lan]]
    /\ lan' = 0 /\ mu' = c
    /\ UNCHANGED <<sessVars, net, certVars, crashed>>

Disconnect(c) ==
    /\ At(c, "idle") /\ Locked /\ lan # 0
    /\ call' = [call EXCEPT ![c] = [NoCall EXCEPT !.at = "disc", !.s = lan]]
    /\ lan' = 0
    /\ UNCHANGED <<mu, sessVars, net, certVars, crashed>>

DisconnectJoin(c) ==
    /\ At(c, "disc") /\ Destroy(call[c].s) /\ Return(c) /\ Unlock(c)
    /\ UNCHANGED <<lan, made, dev, net, certVars, crashed>>

(* The pointer is read under mu_ and used without it.                      *)
Send(c, d) ==
    /\ At(c, "idle") /\ Locked /\ lan # 0 /\ dev[lan] = d
    /\ call' = [call EXCEPT ![c] = [NoCall EXCEPT !.at = "send", !.s = lan]]
    /\ UNCHANGED <<mu, lan, sessVars, net, certVars, crashed>>

SendUse(c) ==
    /\ At(c, "send") /\ Return(c) /\ Publish(call[c].s)
    /\ UNCHANGED <<mu, lan, sessVars, net, certVars>>

(***************************************************************************)
(* install_device_cert.                                                    *)
(***************************************************************************)

(* The fast path; without a LAN session to this device there is no IP.     *)
Install(c, d) ==
    /\ At(c, "idle") /\ Locked
    /\ d \notin certified \cup inflight \cup cooldown
    /\ lan # 0 /\ dev[lan] = d
    /\ call' = [call EXCEPT ![c] = [NoCall EXCEPT !.at = "file", !.d = d]]
    /\ UNCHANGED <<mu, lan, sessVars, net, certVars, crashed>>

(* Mutant: the certificate is counted and not registered.                  *)
InstallFromFile_NotRegistered(c) ==
    /\ At(c, "file")
    /\ IF call[c].d \in certFile
         THEN Locked /\ certified' = certified \cup {call[c].d} /\ Return(c)
         ELSE UNCHANGED certified /\ Goto(c, "recheck")
    /\ UNCHANGED <<mu, lan, sessVars, net, certFile, inflight, cooldown, snapshots,
                   trustVars, crashed>>

(* A certificate already on disk is taken as it is.                        *)
InstallFromFile(c) ==
    LET d == call[c].d IN
    /\ At(c, "file")
    /\ IF d \in certFile
         THEN Locked /\ certified' = certified \cup {d} /\ SetPeerCert(d) /\ Return(c)
         ELSE UNCHANGED <<certified, trustVars>> /\ Goto(c, "recheck")
    /\ UNCHANGED <<mu, lan, sessVars, net, certFile, inflight, cooldown, snapshots, crashed>>

(* "Do not open a second TLS session to :8883 while LAN MQTT is up".       *)
InstallRecheck(c) ==
    /\ At(c, "recheck") /\ Locked
    /\ IF lan # 0 /\ dev[lan] = call[c].d THEN Return(c) ELSE Goto(c, "claim")
    /\ UNCHANGED <<mu, lan, sessVars, net, certVars, crashed>>

(* Claim the slot, then spawn the snapshot thread.                         *)
InstallClaim(c) ==
    LET d == call[c].d IN
    /\ At(c, "claim") /\ Locked /\ Return(c)
    /\ inflight' = inflight \cup {d}
    /\ snapshots' = [snapshots EXCEPT ![d] = @ + 1]
    /\ UNCHANGED <<mu, lan, sessVars, net, certFile, certified, cooldown, trustVars, crashed>>

SnapshotEnds(d) ==
    /\ ~crashed /\ Locked /\ snapshots[d] > 0
    /\ snapshots' = [snapshots EXCEPT ![d] = @ - 1]
    /\ inflight' = inflight \ {d}
    /\ \E r \in CapturePeerCert(d) :
          /\ certFile' = r.files
          /\ IF r.ok
               THEN /\ certified' = certified \cup {d} /\ cooldown' = cooldown \ {d}
                    /\ SetPeerCert(d)
               ELSE cooldown' = cooldown \cup {d} /\ UNCHANGED <<certified, trustVars>>
    /\ UNCHANGED <<mu, lan, sessVars, net, call, crashed>>

(* 60 s later.                                                             *)
CooldownOver(d) ==
    /\ ~crashed /\ d \in cooldown /\ cooldown' = cooldown \ {d}
    /\ UNCHANGED <<mu, lan, sessVars, net, call, certFile, certified, inflight,
                   snapshots, trustVars, crashed>>

(***************************************************************************)
(* The network thread of a session.                                        *)
(***************************************************************************)

Stopping(s) == \E c \in Ui : call[c].s = s /\ call[c].at \in {"join", "disc", "swap_join"}

(* s_on_connect, s_on_disconnect, s_on_message: CONNACK, a lost link or a  *)
(* report arrives and its callback is called.                              *)
NetEvent(s) ==
    /\ ~crashed /\ run[s] = "run" /\ net[s] = "idle" /\ ~Stopping(s)
    /\ net' = [net EXCEPT ![s] = "callback"]
    /\ UNCHANGED <<mu, lan, sessVars, call, certVars, crashed>>

(* mosquitto_disconnect makes the thread run on_disconnect once more,      *)
(* unless loop_stop(force) ends it first.                                  *)
NetGoodbye(s) ==
    /\ ~crashed /\ run[s] = "run" /\ net[s] = "idle" /\ Stopping(s)
    /\ run' = [run EXCEPT ![s] = "bye"]
    /\ net' = [net EXCEPT ![s] = "callback"]
    /\ UNCHANGED <<mu, lan, made, dev, bundles, call, certVars, crashed>>

(* notify_local_connected and notify_local_message work under mu_ (what a  *)
(* report leaves behind is in SubtaskCovers).                              *)
Notify(s) ==
    /\ ~crashed /\ net[s] = "callback" /\ Locked
    /\ net' = [net EXCEPT ![s] = "idle"]
    /\ UNCHANGED <<mu, lan, sessVars, call, certVars, crashed>>

(***************************************************************************)
(* The specification.                                                      *)
(***************************************************************************)
Continue(c) ==
    \/ ConnectJoin(c) \/ ConnectPrepare(c) \/ ConnectSnapshot(c) \/ ConnectRegister(c)
    \/ ConnectStart(c) \/ ConnectInstall(c) \/ ConnectSwapJoin(c) \/ DisconnectJoin(c) \/ SendUse(c)
    \/ InstallFromFile(c) \/ InstallRecheck(c) \/ InstallClaim(c)

(* The bambu_network_* entry points of the LAN link.                       *)
HostCall ==
    \/ \E c \in Ui : Disconnect(c) \/ \E d \in Devs : Connect(c, d) \/ Install(c, d)
    \/ \E c \in Senders, d \in Devs : Send(c, d)

Next ==
    \/ HostCall
    \/ \E c \in Callers : Continue(c)
    \/ \E d \in Devs : SnapshotEnds(d) \/ CooldownOver(d)
    \/ \E s \in Sessions : NetEvent(s) \/ NetGoodbye(s) \/ Notify(s)

Spec == Init /\ [][Next]_vars

(* Threads that can run do run.                                            *)
FairSpec ==
    /\ Spec
    /\ \A c \in Callers : WF_vars(Continue(c))
    /\ \A s \in Sessions : WF_vars(Notify(s))

(***************************************************************************)
(* Properties.                                                             *)
(***************************************************************************)

(* "Tear down any prior session cleanly so we don't leak MQTT threads":    *)
(* each running network thread belongs to lan_session_ or to the one call  *)
(* that is about to install or to destroy its session; and no temporary    *)
(* trust bundle outlives its session.                                      *)
SessionsOwned ==
    \A s \in Sessions :
        /\ s \in bundles => run[s] \in {"run", "bye"}
        /\ run[s] \in {"run", "bye"} /\ ~crashed =>
             IF s = lan THEN \A c \in Ui : call[c].s # s
             ELSE Cardinality({c \in Ui : call[c].s = s /\
                      call[c].at \in {"join", "install", "swap_join", "disc"}}) = 1

(* The certificate caches agree, although a switch of printers, snapshot   *)
(* threads and install_device_cert change them in any order: what the      *)
(* registry and its state file name exists on disk, and a device that      *)
(* install_device_cert will skip from now on is registered, or a call of   *)
(* connect_printer is about to register it.                                *)
CertifiedTrusted ==
    /\ trusted \cup stateFile \subseteq certFile
    /\ \A d \in certified : d \in trusted
          \/ \E c \in Ui : call[c].at = "register" /\ call[c].d = d

(* Every call returns: the join "happens outside the lock; destructor      *)
(* joins the MQTT loop thread which may call back into                     *)
(* notify_local_connected under mu_" (agent.cpp:66-68).                    *)
CallsReturn == \A c \in Callers : call[c].at # "idle" ~> call[c].at = "idle" \/ crashed

(* The same, as long as no two calls of connect_printer overlap: only a    *)
(* session that is replaced while it is installed is destroyed under mu_.  *)
CallsReturnUnlessReplaced ==
    \A c \in Callers : call[c].at # "idle" ~>
        \/ call[c].at = "idle" \/ crashed
        \/ \E u \in Ui : call[u].at = "swap_join"
=============================================================================
