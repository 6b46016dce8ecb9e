------------------------------ MODULE Discovery ------------------------------
(***************************************************************************)
(* Finding and binding printers: the SSDP listener (src/src/ssdp.cpp),     *)
(* Agent::start_discovery, cache_ssdp_json_for_bind, lookup_bind_detect    *)
(* (src/src/agent.cpp), the registry of serial numbers by address          *)
(* (src/src/lan_tls.cpp) and the calls to bind a printer                   *)
(* (src/src/bind_cloud.cpp, abi_bind.cpp).                                 *)
(*                                                                         *)
(* Studio's main thread turns the listener on and off, a thread of its own *)
(* binds printers.  Packets are lost, late and out of order, and printers  *)
(* change their addresses.  A file descriptor is not used again while the  *)
(* listener is about to read from it.                                      *)
(***************************************************************************)
EXTENDS Integers, Sequences

CONSTANTS
    Printers,   \* serial numbers
    Ips,        \* addresses
    Nobody,     \* no printer
    MaxMoves,   \* bound: changes of address
    MaxNet      \* bound: packets and messages on their way

ASSUME DiscoveryParameters ==
    Nobody \notin Printers /\ Ips # {} /\ {MaxMoves, MaxNet} \subseteq Nat

VARIABLES
    mu,        \* Agent::mu_, where a thread keeps it over a wait
    ui,        \* the main thread: "idle", or where in start_discovery(false)
    object,    \* discovery_ is set
    running,   \* running_
    socket,    \* the socket is open
    worker,    \* the listener thread, and the packet it has
    registry,  \* g_ip_to_serial
    ssdp,      \* ssdp_json_by_ip_
    queue,     \* messages given to queue_on_main_
    machines,  \* external: Studio's list, by address
    net,       \* external: packets on their way
    place,     \* external: the printer at an address
    moves,
    binder     \* the bind thread: where it is, address, printer

listenVars == <<mu, ui, object, running, socket, worker>>
mapVars == <<registry, ssdp>>
studioVars == <<queue, machines>>
netVars == <<net, place, moves>>
vars == <<listenVars, mapVars, studioVars, netVars, binder>>

Packets == [ip : Ips, dev : Printers \cup {Nobody}]
Off == [at |-> "none"]
Idle == [at |-> "idle"]

Init ==
    /\ mu = "free" /\ ui = "idle" /\ object = FALSE /\ running = FALSE /\ socket = FALSE /\ worker = Off
    /\ registry = [i \in Ips |-> Nobody] /\ ssdp = [i \in Ips |-> Nobody]
    /\ queue = <<>> /\ machines = [i \in Ips |-> Nobody]
    /\ net = {} /\ moves = 0
    /\ place \in [Ips -> Printers \cup {Nobody}]
    /\ binder = Idle

(***************************************************************************)
(* Studio's main thread.                                                   *)
(***************************************************************************)

(* start_discovery(true) and Discovery::start: a listener that runs is     *)
(* left alone; otherwise a socket is made and bound ...                    *)
StartDiscovery ==
    /\ ui = "idle" /\ mu = "free" /\ object' = TRUE
    /\ IF running THEN UNCHANGED <<running, socket, worker>>
       ELSE running' = TRUE /\ socket' = TRUE /\ worker' = [at |-> "loop"]
    /\ UNCHANGED <<mu, ui, mapVars, studioVars, netVars, binder>>

(* ... or cannot be, and the object stays, without a listener.             *)
StartFails ==
    /\ ui = "idle" /\ mu = "free" /\ ~running /\ object' = TRUE
    /\ UNCHANGED <<mu, ui, running, socket, worker, mapVars, studioVars, netVars, binder>>

(* Mutant: mu_ is kept while the listener is stopped.                      *)
StopDiscovery_Locked ==
    /\ ui = "idle" /\ mu = "free" /\ object /\ object' = FALSE /\ ui' = "stop" /\ mu' = "ui"
    /\ UNCHANGED <<running, socket, worker, mapVars, studioVars, netVars, binder>>

(* start_discovery(false) takes the object out of the agent, under mu_.    *)
StopDiscovery ==
    /\ ui = "idle" /\ mu = "free" /\ object /\ object' = FALSE /\ ui' = "stop"
    /\ UNCHANGED <<mu, running, socket, worker, mapVars, studioVars, netVars, binder>>

(* Discovery::stop: running_ and the socket go, if it runs ...             *)
StopClose ==
    /\ ui = "stop" /\ running' = FALSE /\ socket' = FALSE
    /\ ui' = IF running THEN "join" ELSE "idle"
    /\ UNCHANGED <<mu, object, worker, mapVars, studioVars, netVars, binder>>

(* ... and the thread is waited for.                                       *)
StopJoin ==
    /\ ui = "join" /\ worker.at = "ended" /\ worker' = Off /\ ui' = "idle" /\ mu' = "free"
    /\ UNCHANGED <<object, running, socket, mapVars, studioVars, netVars, binder>>

(* A queued message reaches DeviceManager::on_machine_alive.               *)
MainTask ==
    /\ ui = "idle" /\ queue # <<>> /\ queue' = Tail(queue)
    /\ machines' = [machines EXCEPT ![Head(queue).ip] = Head(queue).dev]
    /\ UNCHANGED <<listenVars, mapVars, netVars, binder>>

(***************************************************************************)
(* The listener thread, Discovery::run_.                                   *)
(***************************************************************************)

(* Not running, or EBADF from a socket that is closed.                     *)
WorkerEnds ==
    /\ worker.at = "loop" /\ (~running \/ ~socket) /\ worker' = [at |-> "ended"]
    /\ UNCHANGED <<mu, ui, object, running, socket, mapVars, studioVars, netVars, binder>>

(* Any other error ends the thread too; running_ stays set.                *)
RecvFails ==
    /\ worker.at = "loop" /\ running /\ socket /\ worker' = [at |-> "ended"]
    /\ UNCHANGED <<mu, ui, object, running, socket, mapVars, studioVars, netVars, binder>>

(* recvfrom, parse and the filter: what is not about a printer is skipped. *)
Recv(p) ==
    /\ worker.at = "loop" /\ socket /\ p \in net /\ net' = net \ {p}
    /\ worker' = IF p.dev = Nobody THEN worker ELSE [at |-> "handle", p |-> p]
    /\ UNCHANGED <<mu, ui, object, running, socket, mapVars, studioVars, place, moves, binder>>

WorkerRecv == \E p \in Packets : Recv(p)

(* Mutant: an address that is known is left alone.                         *)
PutIpSerial_First(ip, dev) ==
    registry' = IF registry[ip] # Nobody THEN registry ELSE [registry EXCEPT ![ip] = dev]

(* registry_put_ip_serial.                                                 *)
PutIpSerial(ip, dev) == registry' = [registry EXCEPT ![ip] = dev]

(* cache_ssdp_json_for_bind, which takes mu_.                              *)
CacheForBind(p) ==
    /\ mu = "free" /\ PutIpSerial(p.ip, p.dev)
    /\ ssdp' = [ssdp EXCEPT ![p.ip] = p.dev]

(* The callback, on_msg: the message is cached, then given to the main     *)
(* thread.                                                                 *)
WorkerHandle ==
    /\ worker.at = "handle" /\ CacheForBind(worker.p)
    /\ queue' = Append(queue, worker.p) /\ worker' = [at |-> "loop"]
    /\ UNCHANGED <<mu, ui, object, running, socket, machines, netVars, binder>>

(***************************************************************************)
(* The bind thread.                                                        *)
(***************************************************************************)

(* bambu_network_bind_detect: lookup_bind_detect waits for an entry.       *)
BindDetect ==
    /\ binder = Idle /\ \E i \in Ips : binder' = [at |-> "detect", ip |-> i]
    /\ UNCHANGED <<listenVars, mapVars, studioVars, netVars>>

Detected ==
    /\ binder.at = "detect" /\ mu = "free" /\ ssdp[binder.ip] # Nobody
    /\ binder' = [at |-> "bind", dev |-> ssdp[binder.ip]]
    /\ UNCHANGED <<listenVars, mapVars, studioVars, netVars>>

(* The deadline of 4.5 s.                                                  *)
DetectTimeout ==
    /\ binder.at = "detect" /\ mu = "free" /\ ssdp[binder.ip] = Nobody /\ binder' = Idle
    /\ UNCHANGED <<listenVars, mapVars, studioVars, netVars>>

(* bind_lan_to_account: nobody is logged in (see Account), or no code is   *)
(* known for the printer ...                                               *)
BindRefused ==
    /\ binder.at = "bind" /\ mu = "free" /\ binder' = Idle
    /\ UNCHANGED <<listenVars, mapVars, studioVars, netVars>>

(* ... or the code goes to the cloud, with the name the address has.       *)
BindPost ==
    /\ binder.at = "bind" /\ mu = "free" /\ binder' = [at |-> "post", dev |-> binder.dev]
    /\ UNCHANGED <<listenVars, mapVars, studioVars, netVars>>

(* http_json_success, or an error.                                         *)
BindAnswered ==
    /\ binder.at = "post" /\ binder' = Idle
    /\ UNCHANGED <<listenVars, mapVars, studioVars, netVars>>

(***************************************************************************)
(* The network (external).                                                 *)
(***************************************************************************)

Announce(i) ==
    /\ place[i] # Nobody /\ [ip |-> i, dev |-> place[i]] \notin net
    /\ Len(queue) < MaxNet
    /\ net' = net \cup {[ip |-> i, dev |-> place[i]]}
    /\ UNCHANGED <<listenVars, mapVars, studioVars, place, moves, binder>>

(* Some other SSDP traffic.                                                *)
Noise ==
    /\ \E i \in Ips : net' = net \cup {[ip |-> i, dev |-> Nobody]}
    /\ UNCHANGED <<listenVars, mapVars, studioVars, place, moves, binder>>

Lose(p) ==
    /\ p \in net /\ net' = net \ {p}
    /\ UNCHANGED <<listenVars, mapVars, studioVars, place, moves, binder>>

(* An address changes hands.                                               *)
Move ==
    /\ moves < MaxMoves /\ moves' = moves + 1
    /\ \E i \in Ips, d \in Printers \cup {Nobody} : place' = [place EXCEPT ![i] = d]
    /\ UNCHANGED <<listenVars, mapVars, studioVars, net, binder>>

Worker == WorkerEnds \/ WorkerRecv \/ WorkerHandle
Binder == Detected \/ DetectTimeout \/ BindRefused \/ BindPost \/ BindAnswered

Next ==
    \/ StartDiscovery \/ StartFails \/ StopDiscovery \/ StopClose \/ StopJoin \/ MainTask
    \/ WorkerEnds \/ RecvFails \/ WorkerRecv \/ WorkerHandle
    \/ BindDetect \/ Detected \/ DetectTimeout \/ BindRefused \/ BindPost \/ BindAnswered
    \/ (\E i \in Ips : Announce(i)) \/ Noise \/ (\E p \in Packets : Lose(p)) \/ Move

Spec == Init /\ [][Next]_vars

(* Threads run, Studio serves its queue; printers announce themselves      *)
(* every 5 s, and not every packet is lost; none is on its way for ever.   *)
FairSpec ==
    /\ Spec
    /\ WF_vars(StopClose) /\ WF_vars(StopJoin) /\ SF_vars(MainTask)
    /\ WF_vars(Worker) /\ WF_vars(Binder)
    /\ \A i \in Ips : SF_vars(Announce(i))
    /\ \A p \in Packets : WF_vars(Lose(p)) /\ (p.dev # Nobody => SF_vars(Recv(p)))

(***************************************************************************)
(* Properties.                                                             *)
(***************************************************************************)

(* start_discovery(false) joins a thread whose callback takes mu_, and     *)
(* bind_detect waits for what that thread caches: both return all the      *)
(* same, as does bind.                                                     *)
CallsReturn == (ui # "idle" ~> ui = "idle") /\ (binder # Idle ~> binder = Idle)

(* While the listener lives, and printers stay where they are, the serial  *)
(* number an address is verified against, the entry bind_detect answers    *)
(* from and Studio's list all come to name the printer that is there, in   *)
(* whatever order packets of before arrive.                                *)
AddressesConverge ==
    <>[](running /\ worker.at # "ended") =>
        \A i \in Ips : <>[](place[i] # Nobody =>
            /\ registry[i] = place[i] /\ ssdp[i] = place[i] /\ machines[i] = place[i])
=============================================================================
