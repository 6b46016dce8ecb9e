---------------------------- MODULE FileTransfer ----------------------------
(***************************************************************************)
(* The File-Transfer ABI of the plugin (src/src/abi_ft.cpp): one reference-*)
(* counted FT_Tunnel that owns at most one TLS :6000 connection, and the   *)
(* reference-counted FT_Jobs the host application (Studio) starts on it.   *)
(*                                                                         *)
(* ft_tunnel_start_job spawns a detached thread per job on a LAN tunnel;   *)
(* all of these threads, and the host's own calls, share the connection    *)
(* under FT_Tunnel::lan_mu.  The host is external: it holds references,    *)
(* makes ABI calls from several threads, and its result callback may call  *)
(* back into ft_tunnel_shutdown.                                           *)
(*                                                                         *)
(* A worker thread is named by its job.  The wire protocol inside a        *)
(* connection is the subject of module TunnelWire; here an exchange that   *)
(* ends does so in one of the outcomes the job code tells apart.  Nothing  *)
(* in the code bounds how long it takes.                                   *)
(***************************************************************************)
EXTENDS Integers, FiniteSets

CONSTANTS
    Hosts,          \* threads of the host application that make ABI calls
    Jobs,           \* the FT_Jobs created; each names its worker thread too
    None,           \* no thread, no job
    CmdTypes,       \* the kinds of job the host creates
    CbMayShutdown,  \* the host's result_cb may call ft_tunnel_shutdown
    ConnectMayFail, \* the printer may refuse or drop a dial
    MaxHostCalls    \* bound: calls made by the host in one behaviour

ASSUME HostsAndJobs ==
    /\ IsFiniteSet(Hosts) /\ IsFiniteSet(Jobs)
    /\ Hosts \cap Jobs = {}
    /\ None \notin Hosts \cup Jobs

(* cmd_type of a job: 7, 5, 4 or anything else.                            *)
Kinds == {"ability", "upload", "download", "unknown"}

ASSUME Parameters ==
    /\ CmdTypes \subseteq Kinds
    /\ CbMayShutdown \in BOOLEAN
    /\ ConnectMayFail \in BOOLEAN
    /\ MaxHostCalls \in Nat

Threads == Hosts \cup Jobs

(* ft_err values a job result can carry; "unset" is the initial res_ec.    *)
Errs == {"unset", "ok", "eio", "ecancelled"}

(* FT_Tunnel::conn: no Connection object yet, one without SSL*, one with a *)
(* live session, one whose peer is gone but whose SSL* is still set.       *)
ConnStates == {"none", "closed", "up", "dead"}

VARIABLES
    isLan,      \* FT_Tunnel::is_lan, fixed by ft_tunnel_create
    kind,       \* [Jobs -> Kinds], fixed by ft_job_create
    tref,       \* FT_Tunnel::refcount
    hostT,      \* how many of those references the host owns
    conn,       \* state of FT_Tunnel::conn
    probed,     \* FT_Tunnel::ability_probed
    shutDown,   \* FT_Tunnel::shut_down
    lanMu,      \* owner of FT_Tunnel::lan_mu
    jref,       \* FT_Job::refcount
    hostJ,      \* how many of those references the host owns
    cancelled,  \* FT_Job::cancelled
    finished,   \* FT_Job::finished
    ec,         \* FT_Job::res_ec
    outcome,    \* the worker's local outcome, before deliver_result
    pc,         \* where each thread is
    arg,        \* the job a host thread's pending call is about
    calls       \* host calls made so far

tunnelVars == <<isLan, tref, hostT, conn, probed, shutDown, lanMu>>
jobVars    == <<kind, jref, hostJ, cancelled, finished, ec, outcome>>
vars       == <<tunnelVars, jobVars, pc, arg, calls>>

(* Program counters.  "none": worker not spawned; "done": it has exited.   *)
HostPc   == {"idle", "sc_lock", "sc_conn", "sc_cb", "sync_lock", "sync_conn",
             "sd_lock", "sd_disc", "get", "stub_cb", "stub_fin"}
WorkerPc == {"none", "start", "conn", "io", "fail_fin", "fail_cb",
             "fail_cb_sd", "fin", "cb", "cb_sd", "cb_disc", "rel_j", "rel_t",
             "done"}

(* Places where a thread holds lan_mu.                                     *)
LanSection == {"sc_conn", "sc_cb", "sync_conn", "sd_disc", "conn", "io",
               "fail_fin", "fail_cb", "fail_cb_sd", "cb_disc"}

(* Places where a host call uses the tunnel.                               *)
TunnelPc == HostPc \ {"idle", "get", "stub_cb", "stub_fin"}

(* Places where a worker still uses its tunnel / its job.                  *)
UsesTunnel == WorkerPc \ {"none", "done"}
UsesJob    == UsesTunnel \ {"rel_t"}

Init ==
    /\ isLan \in BOOLEAN
    /\ kind \in [Jobs -> CmdTypes]
    /\ tref = 1 /\ hostT = 1
    /\ conn = "none"
    /\ probed = FALSE
    /\ shutDown = FALSE
    /\ lanMu = None
    /\ jref  = [j \in Jobs |-> 1]
    /\ hostJ = [j \in Jobs |-> 1]
    /\ cancelled = [j \in Jobs |-> FALSE]
    /\ finished  = [j \in Jobs |-> FALSE]
    /\ ec = [j \in Jobs |-> "unset"]
    /\ outcome = [j \in Jobs |-> "unset"]
    /\ pc = [t \in Threads |-> IF t \in Hosts THEN "idle" ELSE "none"]
    /\ arg = [h \in Hosts |-> None]
    /\ calls = 0

(* Mutant: the owner is not awaited.                                       *)
Lock_NoWait(t) == lanMu' = t

(***************************************************************************)
(* Helpers.                                                                *)
(***************************************************************************)
Goto(t, l) == pc' = [pc EXCEPT ![t] = l]

Lock(t)   == lanMu = None /\ lanMu' = t
Unlock(t) == lanMu' = None

(* Connection::is_connected tests only that SSL* is set.                   *)
IsConnected == conn \in {"up", "dead"}

(* Connection::disconnect, when the Connection object exists.              *)
Disconnected == IF conn = "none" THEN "none" ELSE "closed"

(* connect_lan_tunnel: reuse the session when there is one, else dial.     *)
ConnectOk == IF IsConnected THEN conn' = conn ELSE conn' = "up"
ConnectFailed == ConnectMayFail /\ ~IsConnected /\ conn' = "closed"

(* deliver_result stores the outcome under FT_Job::mu, then notifies.      *)
Deliver(j, e) ==
    /\ finished' = [finished EXCEPT ![j] = TRUE]
    /\ ec' = [ec EXCEPT ![j] = e]

(* The last reference deletes the object; ~Connection disconnects.         *)
ReleaseTunnelRef ==
    /\ tref' = tref - 1
    /\ conn' = IF tref = 1 THEN "none" ELSE conn

(* A call is made by an idle host thread, on objects the host holds; every *)
(* call is counted against the bound.                                      *)
HostCall(h) ==
    /\ pc[h] = "idle"
    /\ calls < MaxHostCalls /\ calls' = calls + 1

TunnelCall(h) == HostCall(h) /\ hostT > 0
JobCall(h, j) == HostCall(h) /\ hostJ[j] > 0

(***************************************************************************)
(* Host calls.                                                             *)
(***************************************************************************)

(* ft_tunnel_start_connect, up to lan_mu; a stub tunnel only calls back.   *)
StartConnect(h) ==
    /\ TunnelCall(h)
    /\ IF isLan THEN Goto(h, "sc_lock") ELSE UNCHANGED pc
    /\ UNCHANGED <<tunnelVars, jobVars, arg>>

StartConnectLock(h) ==
    /\ pc[h] = "sc_lock" /\ Lock(h) /\ Goto(h, "sc_conn")
    /\ UNCHANGED <<isLan, tref, hostT, conn, probed, shutDown, jobVars, arg, calls>>

(* Both outcomes run conn_cb and status_cb with lan_mu still held.         *)
StartConnectDial(h) ==
    /\ pc[h] = "sc_conn" /\ Goto(h, "sc_cb")
    /\ ConnectOk \/ ConnectFailed
    /\ UNCHANGED <<isLan, tref, hostT, probed, shutDown, lanMu, jobVars, arg, calls>>

StartConnectReturn(h) ==
    /\ pc[h] = "sc_cb" /\ Unlock(h) /\ Goto(h, "idle")
    /\ UNCHANGED <<isLan, tref, hostT, conn, probed, shutDown, jobVars, arg, calls>>

(* ft_tunnel_sync_connect; a stub tunnel returns FT_EIO at once.           *)
SyncConnect(h) ==
    /\ TunnelCall(h)
    /\ IF isLan THEN Goto(h, "sync_lock") ELSE UNCHANGED pc
    /\ UNCHANGED <<tunnelVars, jobVars, arg>>

SyncConnectLock(h) ==
    /\ pc[h] = "sync_lock" /\ Lock(h) /\ Goto(h, "sync_conn")
    /\ UNCHANGED <<isLan, tref, hostT, conn, probed, shutDown, jobVars, arg, calls>>

SyncConnectDial(h) ==
    /\ pc[h] = "sync_conn" /\ Unlock(h) /\ Goto(h, "idle")
    /\ ConnectOk \/ ConnectFailed
    /\ UNCHANGED <<isLan, tref, hostT, probed, shutDown, jobVars, arg, calls>>

(* ft_tunnel_shutdown: set the flag, then close the session under lan_mu.  *)
Shutdown(h) ==
    /\ TunnelCall(h) /\ Goto(h, "sd_lock")
    /\ shutDown' = TRUE
    /\ UNCHANGED <<isLan, tref, hostT, conn, probed, lanMu, jobVars, arg>>

ShutdownLock(h) ==
    /\ pc[h] = "sd_lock" /\ Lock(h) /\ Goto(h, "sd_disc")
    /\ UNCHANGED <<isLan, tref, hostT, conn, probed, shutDown, jobVars, arg, calls>>

ShutdownClose(h) ==
    /\ pc[h] = "sd_disc" /\ Unlock(h) /\ Goto(h, "idle")
    /\ conn' = Disconnected
    /\ UNCHANGED <<isLan, tref, hostT, probed, shutDown, jobVars, arg, calls>>

(* Mutant: spawn_job forgets retain(t).                                    *)
SpawnJob_NoRetain(h, j) ==
    /\ TunnelCall(h) /\ hostJ[j] > 0 /\ isLan /\ pc[j] = "none"
    /\ jref' = [jref EXCEPT ![j] = @ + 1]
    /\ Goto(j, "start")
    /\ UNCHANGED <<tunnelVars, kind, hostJ, cancelled, finished, ec, outcome, arg>>

(* ft_tunnel_start_job on a LAN tunnel: retain both, spawn the worker.     *)
(* The host starts a job once.                                             *)
SpawnJob(h, j) ==
    /\ TunnelCall(h) /\ hostJ[j] > 0 /\ isLan /\ pc[j] = "none"
    /\ tref' = tref + 1
    /\ jref' = [jref EXCEPT ![j] = @ + 1]
    /\ Goto(j, "start")
    /\ UNCHANGED <<isLan, hostT, conn, probed, shutDown, lanMu, kind, hostJ,
                   cancelled, finished, ec, outcome, arg>>

(* ft_tunnel_start_job on a stub tunnel: result_cb first, in the caller's  *)
(* thread and with no reference taken, then the result is stored.          *)
StubJob(h, j) ==
    /\ TunnelCall(h) /\ hostJ[j] > 0 /\ ~isLan /\ ~finished[j]
    /\ \A g \in Hosts : pc[g] \in {"stub_cb", "stub_fin"} => arg[g] # j
    /\ Goto(h, "stub_cb") /\ arg' = [arg EXCEPT ![h] = j]
    /\ UNCHANGED <<tunnelVars, jobVars>>

StubCallback(h) ==
    /\ pc[h] = "stub_cb" /\ Goto(h, "stub_fin")
    /\ UNCHANGED <<tunnelVars, jobVars, arg, calls>>

StubFinish(h) ==
    /\ pc[h] = "stub_fin" /\ Goto(h, "idle") /\ arg' = [arg EXCEPT ![h] = None]
    /\ Deliver(arg[h], "eio")
    /\ UNCHANGED <<tunnelVars, kind, jref, hostJ, cancelled, outcome, calls>>

(* ft_job_get_result: wait on FT_Job::cv until finished or the timeout.    *)
GetResult(h, j) ==
    /\ JobCall(h, j)
    /\ Goto(h, "get") /\ arg' = [arg EXCEPT ![h] = j]
    /\ UNCHANGED <<tunnelVars, jobVars>>

GetResultReturn(h) ==
    /\ pc[h] = "get" /\ Goto(h, "idle") /\ arg' = [arg EXCEPT ![h] = None]
    /\ UNCHANGED <<tunnelVars, jobVars, calls>>

(* ft_job_cancel only raises the flag.                                     *)
Cancel(h, j) ==
    /\ JobCall(h, j) /\ ~cancelled[j]
    /\ cancelled' = [cancelled EXCEPT ![j] = TRUE]
    /\ UNCHANGED <<tunnelVars, kind, jref, hostJ, finished, ec, outcome, pc, arg>>

(* ft_tunnel_retain and ft_tunnel_release by the host, which never drops   *)
(* its last reference while one of its own calls is running.               *)
RetainTunnel(h) ==
    /\ TunnelCall(h)
    /\ tref' = tref + 1 /\ hostT' = hostT + 1
    /\ UNCHANGED <<isLan, conn, probed, shutDown, lanMu, jobVars, pc, arg>>

ReleaseTunnel ==
    /\ hostT > 0 /\ (hostT = 1 => \A h \in Hosts : pc[h] \notin TunnelPc)
    /\ hostT' = hostT - 1
    /\ ReleaseTunnelRef
    /\ UNCHANGED <<isLan, probed, shutDown, lanMu, jobVars, pc, arg, calls>>

(* ft_job_retain and ft_job_release by the host, likewise.                 *)
RetainJob(h, j) ==
    /\ JobCall(h, j)
    /\ jref' = [jref EXCEPT ![j] = @ + 1]
    /\ hostJ' = [hostJ EXCEPT ![j] = @ + 1]
    /\ UNCHANGED <<tunnelVars, kind, cancelled, finished, ec, outcome, pc, arg>>

ReleaseJob(j) ==
    /\ hostJ[j] > 0
    /\ hostJ[j] = 1 => \A h \in Hosts : arg[h] # j
    /\ hostJ' = [hostJ EXCEPT ![j] = @ - 1]
    /\ jref' = [jref EXCEPT ![j] = @ - 1]
    /\ UNCHANGED <<tunnelVars, kind, cancelled, finished, ec, outcome, pc, arg, calls>>

(***************************************************************************)
(* The worker of a LAN job.                                                *)
(***************************************************************************)

(* An unknown cmd_type fails without touching the tunnel.                  *)
RunUnknown(j) ==
    /\ pc[j] = "start" /\ kind[j] = "unknown" /\ Goto(j, "cb")
    /\ Deliver(j, "eio")
    /\ UNCHANGED <<tunnelVars, kind, jref, hostJ, cancelled, outcome, arg, calls>>

(* run_ability_job / run_upload_job / run_download_job take lan_mu.        *)
RunLock(j) ==
    /\ pc[j] = "start" /\ kind[j] # "unknown" /\ Lock(j) /\ Goto(j, "conn")
    /\ UNCHANGED <<isLan, tref, hostT, conn, probed, shutDown, jobVars, arg, calls>>

(* Mutant: ability_probed is not looked at.                                *)
AbilityCached_Unasked(j) ==
    /\ pc[j] = "conn" /\ kind[j] = "ability"
    /\ Unlock(j) /\ Goto(j, "fin")
    /\ outcome' = [outcome EXCEPT ![j] = "ok"]
    /\ UNCHANGED <<isLan, tref, hostT, conn, probed, shutDown, kind, jref, hostJ,
                   cancelled, finished, ec, arg, calls>>

(* A cached ability is answered without a connection.                      *)
AbilityCached(j) ==
    /\ pc[j] = "conn" /\ kind[j] = "ability" /\ probed
    /\ Unlock(j) /\ Goto(j, "fin")
    /\ outcome' = [outcome EXCEPT ![j] = "ok"]
    /\ UNCHANGED <<isLan, tref, hostT, conn, probed, shutDown, kind, jref, hostJ,
                   cancelled, finished, ec, arg, calls>>

RunConnect(j) ==
    /\ pc[j] = "conn" /\ ~(kind[j] = "ability" /\ probed)
    /\ ConnectOk /\ Goto(j, "io")
    /\ UNCHANGED <<isLan, tref, hostT, probed, shutDown, lanMu, jobVars, arg, calls>>

(* On a failed dial an ability job leaves the critical section first; the  *)
(* upload and download jobs call deliver_result inside it.                 *)
AbilityConnectFailed(j) ==
    /\ pc[j] = "conn" /\ kind[j] = "ability" /\ ~probed /\ ConnectFailed
    /\ Unlock(j) /\ Goto(j, "fin")
    /\ outcome' = [outcome EXCEPT ![j] = "eio"]
    /\ UNCHANGED <<isLan, tref, hostT, probed, shutDown, kind, jref, hostJ,
                   cancelled, finished, ec, arg, calls>>

TransferConnectFailed(j) ==
    /\ pc[j] = "conn" /\ kind[j] \in {"upload", "download"} /\ ConnectFailed
    /\ Goto(j, "fail_fin")
    /\ UNCHANGED <<isLan, tref, hostT, probed, shutDown, lanMu, jobVars, arg, calls>>

TransferFailedDeliver(j) ==
    /\ pc[j] = "fail_fin" /\ Goto(j, "fail_cb")
    /\ Deliver(j, "eio")
    /\ UNCHANGED <<tunnelVars, kind, jref, hostJ, cancelled, outcome, arg, calls>>

(* ft_tunnel_shutdown called from this callback locks lan_mu, which the    *)
(* thread already owns: it never leaves "fail_cb_sd".                      *)
TransferFailedCallback(j) ==
    /\ pc[j] = "fail_cb"
    /\ \/ Unlock(j) /\ Goto(j, "rel_j") /\ UNCHANGED shutDown
       \/ /\ CbMayShutdown
          /\ shutDown' = TRUE /\ Goto(j, "fail_cb_sd") /\ UNCHANGED lanMu
    /\ UNCHANGED <<isLan, tref, hostT, conn, probed, jobVars, arg, calls>>

(* The exchange on the connection ends and lan_mu is released.  A dead     *)
(* session never succeeds; only transfers poll the cancel flag, and only   *)
(* between two messages of the printer.                                    *)
IoOutcome(j, e) ==
    \/ e = "ok" /\ conn = "up"
    \/ e = "eio"
    \/ e = "ecancelled" /\ cancelled[j] /\ kind[j] # "ability"

(* Mutant: the result is delivered inside the critical section.            *)
RunIo_KeepsLock(j) ==
    /\ pc[j] = "io" /\ Goto(j, "fin")
    /\ \E e \in Errs : IoOutcome(j, e) /\ outcome' = [outcome EXCEPT ![j] = e]
    /\ UNCHANGED <<tunnelVars, kind, jref, hostJ, cancelled, finished, ec, arg, calls>>

RunIo(j) ==
    /\ pc[j] = "io" /\ Unlock(j) /\ Goto(j, "fin")
    /\ \E e \in Errs :
        /\ IoOutcome(j, e)
        /\ outcome' = [outcome EXCEPT ![j] = e]
        /\ probed' = (probed \/ (kind[j] = "ability" /\ e = "ok"))
    /\ UNCHANGED <<isLan, tref, hostT, conn, shutDown, kind, jref, hostJ,
                   cancelled, finished, ec, arg, calls>>

(* Mutant: the return after the first deliver_result is missing.           *)
RunCallback_FallsThrough(j) ==
    /\ pc[j] = "cb" /\ Goto(j, "rel_j")
    /\ Deliver(j, "eio")
    /\ UNCHANGED <<tunnelVars, kind, jref, hostJ, cancelled, outcome, arg, calls>>

(* deliver_result with lan_mu released.                                    *)
RunDeliver(j) ==
    /\ pc[j] = "fin" /\ Goto(j, "cb")
    /\ Deliver(j, outcome[j])
    /\ UNCHANGED <<tunnelVars, kind, jref, hostJ, cancelled, outcome, arg, calls>>

RunCallback(j) ==
    /\ pc[j] = "cb"
    /\ \/ Goto(j, "rel_j") /\ UNCHANGED shutDown
       \/ CbMayShutdown /\ shutDown' = TRUE /\ Goto(j, "cb_sd")
    /\ UNCHANGED <<isLan, tref, hostT, conn, probed, lanMu, jobVars, arg, calls>>

CallbackShutdownLock(j) ==
    /\ pc[j] = "cb_sd" /\ Lock(j) /\ Goto(j, "cb_disc")
    /\ UNCHANGED <<isLan, tref, hostT, conn, probed, shutDown, jobVars, arg, calls>>

CallbackShutdownClose(j) ==
    /\ pc[j] = "cb_disc" /\ Unlock(j) /\ Goto(j, "rel_j")
    /\ conn' = Disconnected
    /\ UNCHANGED <<isLan, tref, hostT, probed, shutDown, jobVars, arg, calls>>

(* Mutant: the worker never gives its tunnel reference back.               *)
WorkerReleaseTunnel_Leak(j) ==
    /\ pc[j] = "rel_t" /\ Goto(j, "done")
    /\ UNCHANGED <<tunnelVars, jobVars, arg, calls>>

(* The thread gives back the references spawn_job took.                    *)
WorkerReleaseJob(j) ==
    /\ pc[j] = "rel_j" /\ Goto(j, "rel_t")
    /\ jref' = [jref EXCEPT ![j] = @ - 1]
    /\ UNCHANGED <<tunnelVars, kind, hostJ, cancelled, finished, ec, outcome, arg, calls>>

WorkerReleaseTunnel(j) ==
    /\ pc[j] = "rel_t" /\ Goto(j, "done")
    /\ ReleaseTunnelRef
    /\ UNCHANGED <<isLan, hostT, probed, shutDown, lanMu, jobVars, arg, calls>>

(* External: the printer drops the session.                                *)
PeerLost ==
    /\ conn = "up" /\ conn' = "dead"
    /\ UNCHANGED <<isLan, tref, hostT, probed, shutDown, lanMu, jobVars, pc, arg, calls>>

(***************************************************************************)
(* The specification.                                                      *)
(***************************************************************************)
HostBlocked(h) ==
    \/ StartConnectLock(h) \/ StartConnectDial(h) \/ StartConnectReturn(h)
    \/ SyncConnectLock(h) \/ SyncConnectDial(h)
    \/ ShutdownLock(h) \/ ShutdownClose(h)
    \/ StubCallback(h) \/ StubFinish(h) \/ GetResultReturn(h)

HostStep(h) ==
    \/ StartConnect(h) \/ SyncConnect(h) \/ Shutdown(h) \/ RetainTunnel(h)
    \/ \E j \in Jobs : \/ SpawnJob(h, j) \/ StubJob(h, j) \/ GetResult(h, j)
                       \/ Cancel(h, j) \/ RetainJob(h, j)
    \/ HostBlocked(h)

WorkerStep(j) ==
    \/ RunUnknown(j) \/ RunLock(j) \/ AbilityCached(j) \/ RunConnect(j)
    \/ AbilityConnectFailed(j) \/ TransferConnectFailed(j)
    \/ TransferFailedDeliver(j) \/ TransferFailedCallback(j)
    \/ RunIo(j) \/ RunDeliver(j) \/ RunCallback(j)
    \/ CallbackShutdownLock(j) \/ CallbackShutdownClose(j)
    \/ WorkerReleaseJob(j) \/ WorkerReleaseTunnel(j)

(* Nothing is left to do: every worker has exited, no call is pending.     *)
Quiescent ==
    /\ \A j \in Jobs : pc[j] \in {"none", "done"}
    /\ \A h \in Hosts : pc[h] = "idle"
    /\ UNCHANGED vars

Next ==
    \/ \E h \in Hosts : HostStep(h)
    \/ \E j \in Jobs : WorkerStep(j)
    \/ ReleaseTunnel
    \/ \E j \in Jobs : ReleaseJob(j)
    \/ PeerLost
    \/ Quiescent

Spec == Init /\ [][Next]_vars

(* Threads that can run do run; the host is never obliged to call, and a   *)
(* worker in an exchange waits for the printer.                            *)
FairSpec ==
    /\ Spec
    /\ \A h \in Hosts : WF_vars(HostBlocked(h))
    /\ \A j \in Jobs : WF_vars(pc[j] # "io" /\ WorkerStep(j))

(* The assumption on the printer that completion needs: it answers, or the *)
(* connection ends, so every exchange ends.  The code does not see to it:  *)
(* the receive loops have no deadline (tunnel_upload.cpp:99-104), dial_tls *)
(* has cleared the socket's time-outs (tls_dial.cpp:303), and a printer    *)
(* that falls silent keeps the job, its tunnel reference and lan_mu.       *)
AnsweringSpec == FairSpec /\ \A j \in Jobs : WF_vars(RunIo(j))

(***************************************************************************)
(* Properties.                                                             *)
(***************************************************************************)

(* Types of all variables; in particular no reference count goes negative. *)
TypeOK ==
    /\ isLan \in BOOLEAN
    /\ kind \in [Jobs -> Kinds]
    /\ tref \in Nat /\ hostT \in Nat
    /\ conn \in ConnStates
    /\ probed \in BOOLEAN /\ shutDown \in BOOLEAN
    /\ lanMu \in Threads \cup {None}
    /\ jref \in [Jobs -> Nat] /\ hostJ \in [Jobs -> Nat]
    /\ cancelled \in [Jobs -> BOOLEAN]
    /\ finished \in [Jobs -> BOOLEAN]
    /\ ec \in [Jobs -> Errs] /\ outcome \in [Jobs -> Errs]
    /\ pc \in [Threads -> HostPc \cup WorkerPc]
    /\ \A h \in Hosts : pc[h] \in HostPc
    /\ \A j \in Jobs : pc[j] \in WorkerPc
    /\ arg \in [Hosts -> Jobs \cup {None}]
    /\ calls \in 0..MaxHostCalls

(* retain/release: whatever the order in which the host drops its handles  *)
(* and detached workers exit, no thread is inside code that dereferences a *)
(* tunnel or a job already deleted.                                        *)
NoUseAfterFree ==
    /\ \A j \in Jobs : pc[j] \in UsesTunnel => tref > 0
    /\ \A j \in Jobs : pc[j] \in UsesJob => jref[j] > 0
    /\ \A h \in Hosts : pc[h] \in TunnelPc => tref > 0
    /\ \A h \in Hosts : arg[h] \in Jobs => jref[arg[h]] > 0

(* Reference counting is exact: the tunnel's count is the host's handles   *)
(* plus one per live worker, a job's count the host's handles plus one for *)
(* its own worker; and the host holds what its pending calls use.          *)
Workers == {j \in Jobs : pc[j] \in UsesTunnel}

RefCounts ==
    /\ tref = hostT + Cardinality(Workers)
    /\ \A j \in Jobs : jref[j] = hostJ[j] + (IF pc[j] \in UsesJob THEN 1 ELSE 0)
    /\ \A h \in Hosts : pc[h] \in TunnelPc => hostT > 0
    /\ \A h \in Hosts : arg[h] \in Jobs => hostJ[arg[h]] > 0

(* lan_mu "serializes connect/query/upload on one TLS session": a thread is*)
(* between its lock and its unlock exactly when it owns the mutex.         *)
LanMuOwned == \A t \in Threads : pc[t] \in LanSection <=> lanMu = t

(* The SSL* a worker reads before an exchange stays valid until the        *)
(* exchange ends: neither a shutdown (by the host or from a callback) nor  *)
(* the deletion of the tunnel closes the session under it, and no dial     *)
(* replaces it.                                                            *)
IoKeepsSession ==
    \A j \in Jobs : pc[j] = "io" /\ pc'[j] = "io" => conn' = conn \/ conn' = "dead"

SessionStableDuringIo == [][IoKeepsSession]_vars

(* A job has one result: after deliver_result has set finished, neither a  *)
(* later path nor another thread changes what ft_job_get_result returns.   *)
ResultWrittenOnce ==
    \A j \in Jobs : ec'[j] # ec[j] => ~finished[j] /\ finished'[j]

ResultStable == [][ResultWrittenOnce]_vars

(* A callback that runs under lan_mu called ft_tunnel_shutdown.            *)
SelfDeadlock == \E j \in Jobs : pc[j] = "fail_cb_sd"

(* With a printer that answers (AnsweringSpec), every worker that is       *)
(* started delivers its result and exits, whatever the host and the other  *)
(* jobs' callbacks do meanwhile, shutting the tunnel down included; then   *)
(* only a callback run under lan_mu can prevent it.                        *)
JobsComplete ==
    \A j \in Jobs : pc[j] = "start" ~> (pc[j] = "done" /\ finished[j]) \/ SelfDeadlock

(* With a printer that answers, once the host has dropped its references   *)
(* the tunnel is deleted, and the TLS session closed with it, with the     *)
(* same exception.                                                         *)
TunnelReclaimed == hostT = 0 ~> (tref = 0 /\ conn = "none") \/ SelfDeadlock
=============================================================================
