------------------------- MODULE FileTransferProofs -------------------------
(***************************************************************************)
(* Proofs about module FileTransfer, for any finite sets of host threads   *)
(* and jobs, any mix of job kinds and any number of host calls.            *)
(***************************************************************************)
EXTENDS FileTransferImplements, FiniteSetTheorems, TLAPS

USE DEF Goto, Lock, Unlock, Deliver, HostCall, TunnelCall, JobCall,
        tunnelVars, jobVars, Threads

(* The strengthening under which everything below is inductive.            *)
IInv == TypeOK /\ LanMuOwned /\ RefCounts

(***************************************************************************)
(* The set of live workers and its cardinality.                            *)
(***************************************************************************)

(* Only finitely many workers of spawn_job exist.                          *)
LEMMA WorkersFinite == IsFiniteSet(Workers)
  BY HostsAndJobs, FS_Subset DEF Workers

(* A live worker makes the count of live workers positive.                 *)
LEMMA WorkersCounted ==
    ASSUME NEW j \in Jobs, pc[j] \in UsesTunnel
    PROVE  Cardinality(Workers) \in Nat \ {0}
<1>1. j \in Workers
  BY DEF Workers
<1> QED
  BY <1>1, WorkersFinite, FS_CardinalityType, FS_EmptySet

(* Two live workers make it at least two.                                  *)
LEMMA TwoWorkersCounted ==
    ASSUME NEW i \in Jobs, NEW j \in Jobs, i # j,
           pc[i] \in UsesTunnel, pc[j] \in UsesTunnel
    PROVE  Cardinality(Workers) \in Nat /\ Cardinality(Workers) > 1
<1>1. {i, j} \subseteq Workers
  BY DEF Workers
<1>2. Cardinality({i, j}) = 2
  <2>1. IsFiniteSet({i}) /\ Cardinality({i}) = 1
    BY FS_Singleton
  <2>2. Cardinality({i} \cup {j}) = 2
    BY <2>1, FS_AddElement, j \notin {i}
  <2> QED
    BY <2>2, {i, j} = {i} \cup {j}
<1> QED
  BY <1>1, <1>2, WorkersFinite, FS_Subset, FS_CardinalityType

(* A thread that moves without being spawned or exiting leaves the set of  *)
(* live workers alone.                                                     *)
LEMMA WorkersSame ==
    ASSUME TypeOK, NEW t \in Threads, NEW l,
           pc' = [pc EXCEPT ![t] = l],
           t \in Jobs => (pc[t] \in UsesTunnel <=> l \in UsesTunnel)
    PROVE  Workers' = Workers
  BY DEF Workers, TypeOK

(* spawn_job adds one worker.                                              *)
LEMMA WorkersSpawn ==
    ASSUME TypeOK, NEW j \in Jobs, pc[j] = "none",
           pc' = [pc EXCEPT ![j] = "start"]
    PROVE  /\ Cardinality(Workers) \in Nat
           /\ Cardinality(Workers') = Cardinality(Workers) + 1
<1>1. j \notin Workers /\ Workers' = Workers \cup {j}
  BY DEF Workers, TypeOK, UsesTunnel, WorkerPc
<1> QED
  BY <1>1, WorkersFinite, FS_AddElement, FS_CardinalityType

(* The exit of a detached thread removes one.                              *)
LEMMA WorkersExit ==
    ASSUME TypeOK, NEW j \in Jobs, pc[j] = "rel_t",
           pc' = [pc EXCEPT ![j] = "done"]
    PROVE  /\ Cardinality(Workers) \in Nat
           /\ Cardinality(Workers') = Cardinality(Workers) - 1
<1>1. j \in Workers /\ Workers' = Workers \ {j}
  BY DEF Workers, TypeOK, UsesTunnel, WorkerPc
<1> QED
  BY <1>1, WorkersFinite, FS_RemoveElement, FS_CardinalityType

(***************************************************************************)
(* Types.                                                                  *)
(***************************************************************************)

(* The state after ft_tunnel_create and ft_job_create is well typed.       *)
LEMMA InitType == Init => TypeOK
<1> SUFFICES ASSUME Init PROVE TypeOK
  OBVIOUS
<1> USE HostsAndJobs, Parameters DEF Init
<1>1. pc \in [Threads -> HostPc \cup WorkerPc]
  BY DEF HostPc, WorkerPc
<1>2. \A h \in Hosts : pc[h] \in HostPc
  BY DEF HostPc
<1>3. \A j \in Jobs : pc[j] \in WorkerPc
  BY DEF WorkerPc
<1>4. kind \in [Jobs -> Kinds]
  OBVIOUS
<1>5. cancelled \in [Jobs -> BOOLEAN] /\ finished \in [Jobs -> BOOLEAN]
  OBVIOUS
<1>6. ec \in [Jobs -> Errs] /\ outcome \in [Jobs -> Errs]
  BY DEF Errs
<1>7. jref \in [Jobs -> Nat] /\ hostJ \in [Jobs -> Nat]
  OBVIOUS
<1>8. isLan \in BOOLEAN /\ probed \in BOOLEAN /\ shutDown \in BOOLEAN
  OBVIOUS
<1>9. lanMu \in Threads \cup {None} /\ arg \in [Hosts -> Jobs \cup {None}]
  OBVIOUS
<1>10. tref \in Nat /\ hostT \in Nat /\ calls \in 0..MaxHostCalls /\ conn \in ConnStates
  BY DEF ConnStates
<1> QED
  BY <1>8, <1>9, <1>10, <1>1, <1>2, <1>3, <1>4, <1>5, <1>6, <1>7 DEF TypeOK


(* Every step keeps the types; exact counts keep the releases from going   *)
(* below zero.                                                             *)
LEMMA TypeStep ==
    ASSUME TypeOK, RefCounts, [Next]_vars PROVE TypeOK'
<1> USE HostsAndJobs, Parameters DEF TypeOK, HostPc, WorkerPc, Errs, ConnStates
<1>1. ASSUME NEW h \in Hosts, StartConnect(h) PROVE TypeOK'
  BY <1>1 DEF StartConnect
<1>2. ASSUME NEW h \in Hosts, SyncConnect(h) PROVE TypeOK'
  BY <1>2 DEF SyncConnect
<1>3. ASSUME NEW h \in Hosts, Shutdown(h) PROVE TypeOK'
  BY <1>3 DEF Shutdown
<1>4. ASSUME NEW h \in Hosts, RetainTunnel(h) PROVE TypeOK'
  BY <1>4 DEF RetainTunnel
<1>5. ASSUME NEW h \in Hosts, NEW j \in Jobs, SpawnJob(h, j) PROVE TypeOK'
  BY <1>5 DEF SpawnJob
<1>6. ASSUME NEW h \in Hosts, NEW j \in Jobs, StubJob(h, j) PROVE TypeOK'
  BY <1>6 DEF StubJob
<1>7. ASSUME NEW h \in Hosts, NEW j \in Jobs, GetResult(h, j) PROVE TypeOK'
  BY <1>7 DEF GetResult
<1>8. ASSUME NEW h \in Hosts, NEW j \in Jobs, Cancel(h, j) PROVE TypeOK'
  BY <1>8 DEF Cancel
<1>9. ASSUME NEW h \in Hosts, NEW j \in Jobs, RetainJob(h, j) PROVE TypeOK'
  BY <1>9 DEF RetainJob
<1>10. ASSUME NEW h \in Hosts, StartConnectLock(h) PROVE TypeOK'
  BY <1>10 DEF StartConnectLock
<1>11. ASSUME NEW h \in Hosts, StartConnectDial(h) PROVE TypeOK'
  BY <1>11 DEF StartConnectDial, ConnectOk, ConnectFailed
<1>12. ASSUME NEW h \in Hosts, StartConnectReturn(h) PROVE TypeOK'
  BY <1>12 DEF StartConnectReturn
<1>13. ASSUME NEW h \in Hosts, SyncConnectLock(h) PROVE TypeOK'
  BY <1>13 DEF SyncConnectLock
<1>14. ASSUME NEW h \in Hosts, SyncConnectDial(h) PROVE TypeOK'
  BY <1>14 DEF SyncConnectDial, ConnectOk, ConnectFailed
<1>15. ASSUME NEW h \in Hosts, ShutdownLock(h) PROVE TypeOK'
  BY <1>15 DEF ShutdownLock
<1>16. ASSUME NEW h \in Hosts, ShutdownClose(h) PROVE TypeOK'
  BY <1>16 DEF ShutdownClose, Disconnected
<1>17. ASSUME NEW h \in Hosts, StubCallback(h) PROVE TypeOK'
  BY <1>17 DEF StubCallback
<1>18. ASSUME NEW h \in Hosts, StubFinish(h) PROVE TypeOK'
  BY <1>18 DEF StubFinish
<1>19. ASSUME NEW h \in Hosts, GetResultReturn(h) PROVE TypeOK'
  BY <1>19 DEF GetResultReturn
<1>20. ASSUME NEW j \in Jobs, RunUnknown(j) PROVE TypeOK'
  BY <1>20 DEF RunUnknown
<1>21. ASSUME NEW j \in Jobs, RunLock(j) PROVE TypeOK'
  BY <1>21 DEF RunLock
<1>22. ASSUME NEW j \in Jobs, AbilityCached(j) PROVE TypeOK'
  BY <1>22 DEF AbilityCached
<1>23. ASSUME NEW j \in Jobs, RunConnect(j) PROVE TypeOK'
  BY <1>23 DEF RunConnect, ConnectOk
<1>24. ASSUME NEW j \in Jobs, AbilityConnectFailed(j) PROVE TypeOK'
  BY <1>24 DEF AbilityConnectFailed, ConnectFailed
<1>25. ASSUME NEW j \in Jobs, TransferConnectFailed(j) PROVE TypeOK'
  BY <1>25 DEF TransferConnectFailed, ConnectFailed
<1>26. ASSUME NEW j \in Jobs, TransferFailedDeliver(j) PROVE TypeOK'
  BY <1>26 DEF TransferFailedDeliver
<1>27. ASSUME NEW j \in Jobs, TransferFailedCallback(j) PROVE TypeOK'
  <2>1. shutDown' \in BOOLEAN
    BY <1>27, Zenon DEF TransferFailedCallback
  <2>2. /\ pc' \in [Threads -> HostPc \cup WorkerPc]
        /\ \A h \in Hosts : pc'[h] \in HostPc
        /\ \A k \in Jobs : pc'[k] \in WorkerPc
    BY <1>27 DEF TransferFailedCallback
  <2> QED
    BY <1>27, <2>1, <2>2 DEF TransferFailedCallback
<1>28. ASSUME NEW j \in Jobs, RunIo(j) PROVE TypeOK'
  BY <1>28 DEF RunIo
<1>29. ASSUME NEW j \in Jobs, RunDeliver(j) PROVE TypeOK'
  BY <1>29 DEF RunDeliver
<1>30. ASSUME NEW j \in Jobs, RunCallback(j) PROVE TypeOK'
  <2>1. shutDown' \in BOOLEAN
    BY <1>30, Zenon DEF RunCallback
  <2>2. /\ pc' \in [Threads -> HostPc \cup WorkerPc]
        /\ \A h \in Hosts : pc'[h] \in HostPc
        /\ \A k \in Jobs : pc'[k] \in WorkerPc
    BY <1>30 DEF RunCallback
  <2> QED
    BY <1>30, <2>1, <2>2 DEF RunCallback
<1>31. ASSUME NEW j \in Jobs, CallbackShutdownLock(j) PROVE TypeOK'
  BY <1>31 DEF CallbackShutdownLock
<1>32. ASSUME NEW j \in Jobs, CallbackShutdownClose(j) PROVE TypeOK'
  BY <1>32 DEF CallbackShutdownClose, Disconnected
<1>33. ASSUME NEW j \in Jobs, WorkerReleaseJob(j) PROVE TypeOK'
  BY <1>33 DEF WorkerReleaseJob, RefCounts, UsesJob, UsesTunnel
<1>34. ASSUME NEW j \in Jobs, WorkerReleaseTunnel(j) PROVE TypeOK'
  <2>1. Cardinality(Workers) \in Nat \ {0}
    BY <1>34, WorkersCounted DEF WorkerReleaseTunnel, UsesTunnel
  <2> QED
    BY <1>34, <2>1 DEF WorkerReleaseTunnel, ReleaseTunnelRef, RefCounts
<1>35. ASSUME ReleaseTunnel PROVE TypeOK'
  <2>1. Cardinality(Workers) \in Nat
    BY WorkersFinite, FS_CardinalityType
  <2>2. tref' \in Nat /\ hostT' \in Nat
    BY <1>35, <2>1 DEF ReleaseTunnel, ReleaseTunnelRef, RefCounts
  <2> QED
    BY <1>35, <2>2 DEF ReleaseTunnel, ReleaseTunnelRef
<1>36. ASSUME NEW j \in Jobs, ReleaseJob(j) PROVE TypeOK'
  BY <1>36 DEF ReleaseJob, RefCounts
<1>37. ASSUME PeerLost PROVE TypeOK'
  BY <1>37 DEF PeerLost
<1>38. CASE UNCHANGED vars
  BY <1>38 DEF vars, Workers
<1> QED
  BY <1>1, <1>2, <1>3, <1>4, <1>5, <1>6, <1>7, <1>8, <1>9, <1>10, <1>11, <1>12, <1>13, <1>14,
     <1>15, <1>16, <1>17, <1>18, <1>19, <1>20, <1>21, <1>22, <1>23, <1>24, <1>25, <1>26, <1>27,
     <1>28, <1>29, <1>30, <1>31, <1>32, <1>33, <1>34, <1>35, <1>36, <1>37, <1>38
     DEF Next, HostStep, HostBlocked, WorkerStep, Quiescent

(***************************************************************************)
(* lan_mu.                                                                 *)
(***************************************************************************)

(* Every step keeps ownership of lan_mu and position in step.              *)
LEMMA LanStep ==
    ASSUME TypeOK, LanMuOwned, [Next]_vars PROVE LanMuOwned'
<1> USE HostsAndJobs DEF TypeOK, LanMuOwned, LanSection, HostPc, WorkerPc
<1>1. ASSUME NEW h \in Hosts, StartConnect(h) PROVE LanMuOwned'
  BY <1>1 DEF StartConnect
<1>2. ASSUME NEW h \in Hosts, SyncConnect(h) PROVE LanMuOwned'
  BY <1>2 DEF SyncConnect
<1>3. ASSUME NEW h \in Hosts, Shutdown(h) PROVE LanMuOwned'
  BY <1>3 DEF Shutdown
<1>4. ASSUME NEW h \in Hosts, RetainTunnel(h) PROVE LanMuOwned'
  BY <1>4 DEF RetainTunnel
<1>5. ASSUME NEW h \in Hosts, NEW j \in Jobs, SpawnJob(h, j) PROVE LanMuOwned'
  BY <1>5 DEF SpawnJob
<1>6. ASSUME NEW h \in Hosts, NEW j \in Jobs, StubJob(h, j) PROVE LanMuOwned'
  BY <1>6 DEF StubJob
<1>7. ASSUME NEW h \in Hosts, NEW j \in Jobs, GetResult(h, j) PROVE LanMuOwned'
  BY <1>7 DEF GetResult
<1>8. ASSUME NEW h \in Hosts, NEW j \in Jobs, Cancel(h, j) PROVE LanMuOwned'
  BY <1>8 DEF Cancel
<1>9. ASSUME NEW h \in Hosts, NEW j \in Jobs, RetainJob(h, j) PROVE LanMuOwned'
  BY <1>9 DEF RetainJob
<1>10. ASSUME NEW h \in Hosts, StartConnectLock(h) PROVE LanMuOwned'
  BY <1>10 DEF StartConnectLock
<1>11. ASSUME NEW h \in Hosts, StartConnectDial(h) PROVE LanMuOwned'
  BY <1>11 DEF StartConnectDial, ConnectOk, ConnectFailed
<1>12. ASSUME NEW h \in Hosts, StartConnectReturn(h) PROVE LanMuOwned'
  BY <1>12 DEF StartConnectReturn
<1>13. ASSUME NEW h \in Hosts, SyncConnectLock(h) PROVE LanMuOwned'
  BY <1>13 DEF SyncConnectLock
<1>14. ASSUME NEW h \in Hosts, SyncConnectDial(h) PROVE LanMuOwned'
  BY <1>14 DEF SyncConnectDial, ConnectOk, ConnectFailed
<1>15. ASSUME NEW h \in Hosts, ShutdownLock(h) PROVE LanMuOwned'
  BY <1>15 DEF ShutdownLock
<1>16. ASSUME NEW h \in Hosts, ShutdownClose(h) PROVE LanMuOwned'
  BY <1>16 DEF ShutdownClose, Disconnected
<1>17. ASSUME NEW h \in Hosts, StubCallback(h) PROVE LanMuOwned'
  BY <1>17 DEF StubCallback
<1>18. ASSUME NEW h \in Hosts, StubFinish(h) PROVE LanMuOwned'
  BY <1>18 DEF StubFinish
<1>19. ASSUME NEW h \in Hosts, GetResultReturn(h) PROVE LanMuOwned'
  BY <1>19 DEF GetResultReturn
<1>20. ASSUME NEW j \in Jobs, RunUnknown(j) PROVE LanMuOwned'
  BY <1>20 DEF RunUnknown
<1>21. ASSUME NEW j \in Jobs, RunLock(j) PROVE LanMuOwned'
  BY <1>21 DEF RunLock
<1>22. ASSUME NEW j \in Jobs, AbilityCached(j) PROVE LanMuOwned'
  BY <1>22 DEF AbilityCached
<1>23. ASSUME NEW j \in Jobs, RunConnect(j) PROVE LanMuOwned'
  BY <1>23 DEF RunConnect, ConnectOk
<1>24. ASSUME NEW j \in Jobs, AbilityConnectFailed(j) PROVE LanMuOwned'
  BY <1>24 DEF AbilityConnectFailed, ConnectFailed
<1>25. ASSUME NEW j \in Jobs, TransferConnectFailed(j) PROVE LanMuOwned'
  BY <1>25 DEF TransferConnectFailed, ConnectFailed
<1>26. ASSUME NEW j \in Jobs, TransferFailedDeliver(j) PROVE LanMuOwned'
  BY <1>26 DEF TransferFailedDeliver
<1>27. ASSUME NEW j \in Jobs, TransferFailedCallback(j) PROVE LanMuOwned'
  BY <1>27 DEF TransferFailedCallback
<1>28. ASSUME NEW j \in Jobs, RunIo(j) PROVE LanMuOwned'
  BY <1>28 DEF RunIo
<1>29. ASSUME NEW j \in Jobs, RunDeliver(j) PROVE LanMuOwned'
  BY <1>29 DEF RunDeliver
<1>30. ASSUME NEW j \in Jobs, RunCallback(j) PROVE LanMuOwned'
  BY <1>30 DEF RunCallback
<1>31. ASSUME NEW j \in Jobs, CallbackShutdownLock(j) PROVE LanMuOwned'
  BY <1>31 DEF CallbackShutdownLock
<1>32. ASSUME NEW j \in Jobs, CallbackShutdownClose(j) PROVE LanMuOwned'
  BY <1>32 DEF CallbackShutdownClose, Disconnected
<1>33. ASSUME NEW j \in Jobs, WorkerReleaseJob(j) PROVE LanMuOwned'
  BY <1>33 DEF WorkerReleaseJob
<1>34. ASSUME NEW j \in Jobs, WorkerReleaseTunnel(j) PROVE LanMuOwned'
  BY <1>34 DEF WorkerReleaseTunnel, ReleaseTunnelRef
<1>35. ASSUME ReleaseTunnel PROVE LanMuOwned'
  BY <1>35 DEF ReleaseTunnel, ReleaseTunnelRef
<1>36. ASSUME NEW j \in Jobs, ReleaseJob(j) PROVE LanMuOwned'
  BY <1>36 DEF ReleaseJob
<1>37. ASSUME PeerLost PROVE LanMuOwned'
  BY <1>37 DEF PeerLost
<1>38. CASE UNCHANGED vars
  BY <1>38 DEF vars, Workers
<1> QED
  BY <1>1, <1>2, <1>3, <1>4, <1>5, <1>6, <1>7, <1>8, <1>9, <1>10, <1>11, <1>12, <1>13, <1>14,
     <1>15, <1>16, <1>17, <1>18, <1>19, <1>20, <1>21, <1>22, <1>23, <1>24, <1>25, <1>26, <1>27,
     <1>28, <1>29, <1>30, <1>31, <1>32, <1>33, <1>34, <1>35, <1>36, <1>37, <1>38
     DEF Next, HostStep, HostBlocked, WorkerStep, Quiescent

(***************************************************************************)
(* Reference counts.                                                       *)
(***************************************************************************)

(* The number of live workers is a natural number.                         *)
LEMMA WorkersNat == Cardinality(Workers) \in Nat
  BY WorkersFinite, FS_CardinalityType

(* Every step keeps the counts exact and the host's pending calls covered. *)
LEMMA RefStep ==
    ASSUME TypeOK, RefCounts, [Next]_vars PROVE RefCounts'
<1> USE HostsAndJobs DEF TypeOK, RefCounts, UsesTunnel, UsesJob, TunnelPc, HostPc, WorkerPc
<1>1. ASSUME NEW h \in Hosts, StartConnect(h) PROVE RefCounts'
  <2>1. Workers' = Workers
    BY <1>1 DEF StartConnect, Workers
  <2> QED
    BY <1>1, <2>1 DEF StartConnect
<1>2. ASSUME NEW h \in Hosts, SyncConnect(h) PROVE RefCounts'
  <2>1. Workers' = Workers
    BY <1>2 DEF SyncConnect, Workers
  <2> QED
    BY <1>2, <2>1 DEF SyncConnect
<1>3. ASSUME NEW h \in Hosts, Shutdown(h) PROVE RefCounts'
  <2>1. Workers' = Workers
    BY <1>3, WorkersSame DEF Shutdown
  <2> QED
    BY <1>3, <2>1 DEF Shutdown
<1>4. ASSUME NEW h \in Hosts, RetainTunnel(h) PROVE RefCounts'
  <2>1. Workers' = Workers
    BY <1>4 DEF RetainTunnel, Workers
  <2> QED
    BY <1>4, <2>1, WorkersNat DEF RetainTunnel
<1>5. ASSUME NEW h \in Hosts, NEW j \in Jobs, SpawnJob(h, j) PROVE RefCounts'
  <2>1. /\ Cardinality(Workers) \in Nat
        /\ Cardinality(Workers') = Cardinality(Workers) + 1
    BY <1>5, WorkersSpawn DEF SpawnJob
  <2> QED
    BY <1>5, <2>1 DEF SpawnJob
<1>6. ASSUME NEW h \in Hosts, NEW j \in Jobs, StubJob(h, j) PROVE RefCounts'
  <2>1. Workers' = Workers
    BY <1>6, WorkersSame DEF StubJob
  <2> QED
    BY <1>6, <2>1 DEF StubJob
<1>7. ASSUME NEW h \in Hosts, NEW j \in Jobs, GetResult(h, j) PROVE RefCounts'
  <2>1. Workers' = Workers
    BY <1>7, WorkersSame DEF GetResult
  <2> QED
    BY <1>7, <2>1 DEF GetResult
<1>8. ASSUME NEW h \in Hosts, NEW j \in Jobs, Cancel(h, j) PROVE RefCounts'
  <2>1. Workers' = Workers
    BY <1>8 DEF Cancel, Workers
  <2> QED
    BY <1>8, <2>1, WorkersNat DEF Cancel
<1>9. ASSUME NEW h \in Hosts, NEW j \in Jobs, RetainJob(h, j) PROVE RefCounts'
  <2>1. Workers' = Workers
    BY <1>9 DEF RetainJob, Workers
  <2> QED
    BY <1>9, <2>1, WorkersNat DEF RetainJob
<1>10. ASSUME NEW h \in Hosts, StartConnectLock(h) PROVE RefCounts'
  <2>1. Workers' = Workers
    BY <1>10, WorkersSame DEF StartConnectLock
  <2> QED
    BY <1>10, <2>1 DEF StartConnectLock
<1>11. ASSUME NEW h \in Hosts, StartConnectDial(h) PROVE RefCounts'
  <2>1. Workers' = Workers
    BY <1>11, WorkersSame DEF StartConnectDial
  <2> QED
    BY <1>11, <2>1 DEF StartConnectDial
<1>12. ASSUME NEW h \in Hosts, StartConnectReturn(h) PROVE RefCounts'
  <2>1. Workers' = Workers
    BY <1>12, WorkersSame DEF StartConnectReturn
  <2> QED
    BY <1>12, <2>1 DEF StartConnectReturn
<1>13. ASSUME NEW h \in Hosts, SyncConnectLock(h) PROVE RefCounts'
  <2>1. Workers' = Workers
    BY <1>13, WorkersSame DEF SyncConnectLock
  <2> QED
    BY <1>13, <2>1 DEF SyncConnectLock
<1>14. ASSUME NEW h \in Hosts, SyncConnectDial(h) PROVE RefCounts'
  <2>1. Workers' = Workers
    BY <1>14, WorkersSame DEF SyncConnectDial
  <2> QED
    BY <1>14, <2>1 DEF SyncConnectDial
<1>15. ASSUME NEW h \in Hosts, ShutdownLock(h) PROVE RefCounts'
  <2>1. Workers' = Workers
    BY <1>15, WorkersSame DEF ShutdownLock
  <2> QED
    BY <1>15, <2>1 DEF ShutdownLock
<1>16. ASSUME NEW h \in Hosts, ShutdownClose(h) PROVE RefCounts'
  <2>1. Workers' = Workers
    BY <1>16, WorkersSame DEF ShutdownClose
  <2> QED
    BY <1>16, <2>1 DEF ShutdownClose
<1>17. ASSUME NEW h \in Hosts, StubCallback(h) PROVE RefCounts'
  <2>1. Workers' = Workers
    BY <1>17, WorkersSame DEF StubCallback
  <2> QED
    BY <1>17, <2>1 DEF StubCallback
<1>18. ASSUME NEW h \in Hosts, StubFinish(h) PROVE RefCounts'
  <2>1. Workers' = Workers
    BY <1>18, WorkersSame DEF StubFinish
  <2> QED
    BY <1>18, <2>1 DEF StubFinish
<1>19. ASSUME NEW h \in Hosts, GetResultReturn(h) PROVE RefCounts'
  <2>1. Workers' = Workers
    BY <1>19, WorkersSame DEF GetResultReturn
  <2> QED
    BY <1>19, <2>1 DEF GetResultReturn
<1>20. ASSUME NEW j \in Jobs, RunUnknown(j) PROVE RefCounts'
  <2>1. Workers' = Workers
    BY <1>20, WorkersSame DEF RunUnknown
  <2> QED
    BY <1>20, <2>1 DEF RunUnknown
<1>21. ASSUME NEW j \in Jobs, RunLock(j) PROVE RefCounts'
  <2>1. Workers' = Workers
    BY <1>21, WorkersSame DEF RunLock
  <2> QED
    BY <1>21, <2>1 DEF RunLock
<1>22. ASSUME NEW j \in Jobs, AbilityCached(j) PROVE RefCounts'
  <2>1. Workers' = Workers
    BY <1>22, WorkersSame DEF AbilityCached
  <2> QED
    BY <1>22, <2>1 DEF AbilityCached
<1>23. ASSUME NEW j \in Jobs, RunConnect(j) PROVE RefCounts'
  <2>1. Workers' = Workers
    BY <1>23, WorkersSame DEF RunConnect
  <2> QED
    BY <1>23, <2>1 DEF RunConnect
<1>24. ASSUME NEW j \in Jobs, AbilityConnectFailed(j) PROVE RefCounts'
  <2>1. Workers' = Workers
    BY <1>24, WorkersSame DEF AbilityConnectFailed
  <2> QED
    BY <1>24, <2>1 DEF AbilityConnectFailed
<1>25. ASSUME NEW j \in Jobs, TransferConnectFailed(j) PROVE RefCounts'
  <2>1. Workers' = Workers
    BY <1>25, WorkersSame DEF TransferConnectFailed
  <2> QED
    BY <1>25, <2>1 DEF TransferConnectFailed
<1>26. ASSUME NEW j \in Jobs, TransferFailedDeliver(j) PROVE RefCounts'
  <2>1. Workers' = Workers
    BY <1>26, WorkersSame DEF TransferFailedDeliver
  <2> QED
    BY <1>26, <2>1 DEF TransferFailedDeliver
<1>27. ASSUME NEW j \in Jobs, TransferFailedCallback(j) PROVE RefCounts'
  <2>1. Workers' = Workers
    BY <1>27, WorkersSame DEF TransferFailedCallback
  <2> QED
    BY <1>27, <2>1 DEF TransferFailedCallback
<1>28. ASSUME NEW j \in Jobs, RunIo(j) PROVE RefCounts'
  <2>1. Workers' = Workers
    BY <1>28, WorkersSame DEF RunIo
  <2> QED
    BY <1>28, <2>1 DEF RunIo
<1>29. ASSUME NEW j \in Jobs, RunDeliver(j) PROVE RefCounts'
  <2>1. Workers' = Workers
    BY <1>29, WorkersSame DEF RunDeliver
  <2> QED
    BY <1>29, <2>1 DEF RunDeliver
<1>30. ASSUME NEW j \in Jobs, RunCallback(j) PROVE RefCounts'
  <2>1. Workers' = Workers
    BY <1>30, WorkersSame DEF RunCallback
  <2> QED
    BY <1>30, <2>1 DEF RunCallback
<1>31. ASSUME NEW j \in Jobs, CallbackShutdownLock(j) PROVE RefCounts'
  <2>1. Workers' = Workers
    BY <1>31, WorkersSame DEF CallbackShutdownLock
  <2> QED
    BY <1>31, <2>1 DEF CallbackShutdownLock
<1>32. ASSUME NEW j \in Jobs, CallbackShutdownClose(j) PROVE RefCounts'
  <2>1. Workers' = Workers
    BY <1>32, WorkersSame DEF CallbackShutdownClose
  <2> QED
    BY <1>32, <2>1 DEF CallbackShutdownClose
<1>33. ASSUME NEW j \in Jobs, WorkerReleaseJob(j) PROVE RefCounts'
  <2>1. Workers' = Workers
    BY <1>33, WorkersSame DEF WorkerReleaseJob
  <2> QED
    BY <1>33, <2>1 DEF WorkerReleaseJob
<1>34. ASSUME NEW j \in Jobs, WorkerReleaseTunnel(j) PROVE RefCounts'
  <2>1. /\ Cardinality(Workers) \in Nat
        /\ Cardinality(Workers') = Cardinality(Workers) - 1
    BY <1>34, WorkersExit DEF WorkerReleaseTunnel
  <2> QED
    BY <1>34, <2>1 DEF WorkerReleaseTunnel, ReleaseTunnelRef
<1>35. ASSUME ReleaseTunnel PROVE RefCounts'
  <2>1. Workers' = Workers
    BY <1>35 DEF ReleaseTunnel, Workers
  <2> QED
    <3>1. tref' = hostT' + Cardinality(Workers')
      BY <1>35, <2>1, WorkersNat DEF ReleaseTunnel, ReleaseTunnelRef
    <3>2. \A h \in Hosts : pc[h] \in TunnelPc => hostT' > 0
      BY <1>35 DEF ReleaseTunnel
    <3> QED
      BY <1>35, <3>1, <3>2 DEF ReleaseTunnel
<1>36. ASSUME NEW j \in Jobs, ReleaseJob(j) PROVE RefCounts'
  <2>1. Workers' = Workers
    BY <1>36 DEF ReleaseJob, Workers
  <2> QED
    BY <1>36, <2>1, WorkersNat DEF ReleaseJob
<1>37. ASSUME PeerLost PROVE RefCounts'
  <2>1. Workers' = Workers
    BY <1>37 DEF PeerLost, Workers
  <2> QED
    BY <1>37, <2>1, WorkersNat DEF PeerLost
<1>38. CASE UNCHANGED vars
  BY <1>38 DEF vars, Workers
<1> QED
  BY <1>1, <1>2, <1>3, <1>4, <1>5, <1>6, <1>7, <1>8, <1>9, <1>10, <1>11, <1>12, <1>13, <1>14,
     <1>15, <1>16, <1>17, <1>18, <1>19, <1>20, <1>21, <1>22, <1>23, <1>24, <1>25, <1>26, <1>27,
     <1>28, <1>29, <1>30, <1>31, <1>32, <1>33, <1>34, <1>35, <1>36, <1>37, <1>38
     DEF Next, HostStep, HostBlocked, WorkerStep, Quiescent

(***************************************************************************)
(* The theorems.                                                           *)
(***************************************************************************)

(* IInv is an invariant.                                                   *)
LEMMA Inductive == Spec => []IInv
<1>1. Init => IInv
  <2> SUFFICES ASSUME Init PROVE IInv
    OBVIOUS
  <2>1. TypeOK
    BY InitType
  <2>2. LanMuOwned
    BY HostsAndJobs DEF Init, LanMuOwned, LanSection
  <2>3. Workers = {}
    BY HostsAndJobs DEF Init, Workers, UsesTunnel, WorkerPc
  <2>4. RefCounts
    BY <2>3, FS_EmptySet, HostsAndJobs
       DEF Init, RefCounts, UsesJob, UsesTunnel, TunnelPc, HostPc, WorkerPc
  <2> QED
    BY <2>1, <2>2, <2>4 DEF IInv
<1>2. IInv /\ [Next]_vars => IInv'
  BY TypeStep, LanStep, RefStep DEF IInv
<1> QED
  BY <1>1, <1>2, PTL DEF Spec

(* Every variable keeps its type whatever the host and the workers do; in  *)
(* particular no release() ever takes a reference count below zero.        *)
THEOREM TypeCorrect == Spec => []TypeOK
<1>1. IInv => TypeOK
  BY DEF IInv
<1> QED
  BY Inductive, <1>1, PTL

(* lan_mu: at every moment the thread that owns the mutex is the one       *)
(* between its lock and its unlock, so connect, query, upload, download    *)
(* and disconnect never overlap on the TLS session.                        *)
THEOREM LanMutualExclusion == Spec => []LanMuOwned
<1>1. IInv => LanMuOwned
  BY DEF IInv
<1> QED
  BY Inductive, <1>1, PTL

(* FT_Tunnel::refcount and FT_Job::refcount always equal the handles held. *)
THEOREM CountsExact == Spec => []RefCounts
<1>1. IInv => RefCounts
  BY DEF IInv
<1> QED
  BY Inductive, <1>1, PTL

(* No worker and no pending host call dereferences a deleted tunnel or job,*)
(* in whatever order the host releases its handles and the workers exit.   *)
THEOREM MemorySafety == Spec => []NoUseAfterFree
<1>1. IInv => NoUseAfterFree
  <2> SUFFICES ASSUME IInv PROVE NoUseAfterFree
    OBVIOUS
  <2> USE DEF IInv, TypeOK, RefCounts
  <2>1. ASSUME NEW j \in Jobs, pc[j] \in UsesTunnel PROVE tref > 0
    BY <2>1, WorkersCounted
  <2>2. ASSUME NEW j \in Jobs, pc[j] \in UsesJob PROVE jref[j] > 0
    BY <2>2
  <2>3. ASSUME NEW h \in Hosts, pc[h] \in TunnelPc PROVE tref > 0
    BY <2>3, WorkersNat
  <2>4. ASSUME NEW h \in Hosts, arg[h] \in Jobs PROVE jref[arg[h]] > 0
    BY <2>4
  <2> QED
    BY <2>1, <2>2, <2>3, <2>4 DEF NoUseAfterFree
<1> QED
  BY Inductive, <1>1, PTL

(* While a worker is inside an exchange no other step - a dial, a          *)
(* shutdown by the host or from another job's callback, the release of the *)
(* last handle - closes or replaces the TLS session it is using.           *)
THEOREM SessionStable == Spec => SessionStableDuringIo
<1>1. ASSUME IInv, [Next]_vars, NEW i \in Jobs, pc[i] = "io", pc'[i] = "io"
      PROVE  conn' = conn \/ conn' = "dead"
  <2> DEFINE Kept == conn' = conn \/ conn' = "dead"
  <2> USE <1>1, HostsAndJobs DEF IInv, TypeOK, UsesTunnel, WorkerPc
  <2>1. ASSUME NEW h \in Hosts, StartConnect(h) PROVE Kept
    BY <2>1 DEF StartConnect
  <2>2. ASSUME NEW h \in Hosts, SyncConnect(h) PROVE Kept
    BY <2>2 DEF SyncConnect
  <2>3. ASSUME NEW h \in Hosts, Shutdown(h) PROVE Kept
    BY <2>3 DEF Shutdown
  <2>4. ASSUME NEW h \in Hosts, RetainTunnel(h) PROVE Kept
    BY <2>4 DEF RetainTunnel
  <2>5. ASSUME NEW h \in Hosts, NEW j \in Jobs, SpawnJob(h, j) PROVE Kept
    BY <2>5 DEF SpawnJob
  <2>6. ASSUME NEW h \in Hosts, NEW j \in Jobs, StubJob(h, j) PROVE Kept
    BY <2>6 DEF StubJob
  <2>7. ASSUME NEW h \in Hosts, NEW j \in Jobs, GetResult(h, j) PROVE Kept
    BY <2>7 DEF GetResult
  <2>8. ASSUME NEW h \in Hosts, NEW j \in Jobs, Cancel(h, j) PROVE Kept
    BY <2>8 DEF Cancel
  <2>9. ASSUME NEW h \in Hosts, NEW j \in Jobs, RetainJob(h, j) PROVE Kept
    BY <2>9 DEF RetainJob
  <2>10. ASSUME NEW h \in Hosts, StartConnectLock(h) PROVE Kept
    BY <2>10 DEF StartConnectLock
  <2>11. ASSUME NEW h \in Hosts, StartConnectDial(h) PROVE Kept
    BY <2>11 DEF StartConnectDial, LanMuOwned, LanSection
  <2>12. ASSUME NEW h \in Hosts, StartConnectReturn(h) PROVE Kept
    BY <2>12 DEF StartConnectReturn
  <2>13. ASSUME NEW h \in Hosts, SyncConnectLock(h) PROVE Kept
    BY <2>13 DEF SyncConnectLock
  <2>14. ASSUME NEW h \in Hosts, SyncConnectDial(h) PROVE Kept
    BY <2>14 DEF SyncConnectDial, LanMuOwned, LanSection
  <2>15. ASSUME NEW h \in Hosts, ShutdownLock(h) PROVE Kept
    BY <2>15 DEF ShutdownLock
  <2>16. ASSUME NEW h \in Hosts, ShutdownClose(h) PROVE Kept
    BY <2>16 DEF ShutdownClose, LanMuOwned, LanSection
  <2>17. ASSUME NEW h \in Hosts, StubCallback(h) PROVE Kept
    BY <2>17 DEF StubCallback
  <2>18. ASSUME NEW h \in Hosts, StubFinish(h) PROVE Kept
    BY <2>18 DEF StubFinish
  <2>19. ASSUME NEW h \in Hosts, GetResultReturn(h) PROVE Kept
    BY <2>19 DEF GetResultReturn
  <2>20. ASSUME NEW j \in Jobs, RunUnknown(j) PROVE Kept
    BY <2>20 DEF RunUnknown
  <2>21. ASSUME NEW j \in Jobs, RunLock(j) PROVE Kept
    BY <2>21 DEF RunLock
  <2>22. ASSUME NEW j \in Jobs, AbilityCached(j) PROVE Kept
    BY <2>22 DEF AbilityCached
  <2>23. ASSUME NEW j \in Jobs, RunConnect(j) PROVE Kept
    BY <2>23 DEF RunConnect, LanMuOwned, LanSection
  <2>24. ASSUME NEW j \in Jobs, AbilityConnectFailed(j) PROVE Kept
    BY <2>24 DEF AbilityConnectFailed, LanMuOwned, LanSection
  <2>25. ASSUME NEW j \in Jobs, TransferConnectFailed(j) PROVE Kept
    BY <2>25 DEF TransferConnectFailed, LanMuOwned, LanSection
  <2>26. ASSUME NEW j \in Jobs, TransferFailedDeliver(j) PROVE Kept
    BY <2>26 DEF TransferFailedDeliver
  <2>27. ASSUME NEW j \in Jobs, TransferFailedCallback(j) PROVE Kept
    BY <2>27 DEF TransferFailedCallback
  <2>28. ASSUME NEW j \in Jobs, RunIo(j) PROVE Kept
    BY <2>28 DEF RunIo
  <2>29. ASSUME NEW j \in Jobs, RunDeliver(j) PROVE Kept
    BY <2>29 DEF RunDeliver
  <2>30. ASSUME NEW j \in Jobs, RunCallback(j) PROVE Kept
    BY <2>30 DEF RunCallback
  <2>31. ASSUME NEW j \in Jobs, CallbackShutdownLock(j) PROVE Kept
    BY <2>31 DEF CallbackShutdownLock
  <2>32. ASSUME NEW j \in Jobs, CallbackShutdownClose(j) PROVE Kept
    BY <2>32 DEF CallbackShutdownClose, LanMuOwned, LanSection
  <2>33. ASSUME NEW j \in Jobs, WorkerReleaseJob(j) PROVE Kept
    BY <2>33 DEF WorkerReleaseJob
  <2>34. ASSUME NEW j \in Jobs, WorkerReleaseTunnel(j) PROVE Kept
    BY <2>34, TwoWorkersCounted DEF WorkerReleaseTunnel, ReleaseTunnelRef, RefCounts
  <2>35. ASSUME ReleaseTunnel PROVE Kept
    BY <2>35, WorkersCounted DEF ReleaseTunnel, ReleaseTunnelRef, RefCounts
  <2>36. ASSUME NEW j \in Jobs, ReleaseJob(j) PROVE Kept
    BY <2>36 DEF ReleaseJob
  <2>37. ASSUME PeerLost PROVE Kept
    BY <2>37 DEF PeerLost
  <2>38. CASE UNCHANGED vars
    BY <2>38 DEF vars
  <2> QED
    BY <2>1, <2>2, <2>3, <2>4, <2>5, <2>6, <2>7, <2>8, <2>9, <2>10, <2>11, <2>12, <2>13, <2>14,
       <2>15, <2>16, <2>17, <2>18, <2>19, <2>20, <2>21, <2>22, <2>23, <2>24, <2>25, <2>26, <2>27,
       <2>28, <2>29, <2>30, <2>31, <2>32, <2>33, <2>34, <2>35, <2>36, <2>37, <2>38
       DEF Next, HostStep, HostBlocked, WorkerStep, Quiescent
<1>2. IInv /\ [Next]_vars => [IoKeepsSession]_vars
  BY <1>1 DEF IoKeepsSession
<1> QED
  BY Inductive, <1>2, PTL DEF Spec, SessionStableDuringIo

(***************************************************************************)
(* One result per job.                                                     *)
(***************************************************************************)

(* A job whose delivery is still ahead is unfinished, in a worker or in the*)
(* stub path, and never in two places at once.                             *)
OneDelivery ==
    /\ \A j \in Jobs : pc[j] # "none" => isLan
    /\ \A h \in Hosts : pc[h] \in {"stub_cb", "stub_fin"} =>
          ~isLan /\ arg[h] \in Jobs /\ ~finished[arg[h]]
    /\ \A g, h \in Hosts :
          (/\ pc[g] \in {"stub_cb", "stub_fin"}
           /\ pc[h] \in {"stub_cb", "stub_fin"}
           /\ arg[g] = arg[h])
             => g = h
    /\ \A j \in Jobs :
          isLan /\ pc[j] \in {"none", "start", "conn", "io", "fail_fin", "fin"}
             => ~finished[j]

(* Every step keeps it.                                                    *)
LEMMA OneDeliveryStep ==
    ASSUME TypeOK, OneDelivery, [Next]_vars PROVE OneDelivery'
<1> USE HostsAndJobs DEF TypeOK, OneDelivery, HostPc, WorkerPc
<1>1. ASSUME NEW h \in Hosts, StartConnect(h) PROVE OneDelivery'
  BY <1>1 DEF StartConnect
<1>2. ASSUME NEW h \in Hosts, SyncConnect(h) PROVE OneDelivery'
  BY <1>2 DEF SyncConnect
<1>3. ASSUME NEW h \in Hosts, Shutdown(h) PROVE OneDelivery'
  BY <1>3 DEF Shutdown
<1>4. ASSUME NEW h \in Hosts, RetainTunnel(h) PROVE OneDelivery'
  BY <1>4 DEF RetainTunnel
<1>5. ASSUME NEW h \in Hosts, NEW j \in Jobs, SpawnJob(h, j) PROVE OneDelivery'
  BY <1>5 DEF SpawnJob
<1>6. ASSUME NEW h \in Hosts, NEW j \in Jobs, StubJob(h, j) PROVE OneDelivery'
  BY <1>6 DEF StubJob
<1>7. ASSUME NEW h \in Hosts, NEW j \in Jobs, GetResult(h, j) PROVE OneDelivery'
  BY <1>7 DEF GetResult
<1>8. ASSUME NEW h \in Hosts, NEW j \in Jobs, Cancel(h, j) PROVE OneDelivery'
  BY <1>8 DEF Cancel
<1>9. ASSUME NEW h \in Hosts, NEW j \in Jobs, RetainJob(h, j) PROVE OneDelivery'
  BY <1>9 DEF RetainJob
<1>10. ASSUME NEW h \in Hosts, StartConnectLock(h) PROVE OneDelivery'
  BY <1>10 DEF StartConnectLock
<1>11. ASSUME NEW h \in Hosts, StartConnectDial(h) PROVE OneDelivery'
  BY <1>11 DEF StartConnectDial
<1>12. ASSUME NEW h \in Hosts, StartConnectReturn(h) PROVE OneDelivery'
  BY <1>12 DEF StartConnectReturn
<1>13. ASSUME NEW h \in Hosts, SyncConnectLock(h) PROVE OneDelivery'
  BY <1>13 DEF SyncConnectLock
<1>14. ASSUME NEW h \in Hosts, SyncConnectDial(h) PROVE OneDelivery'
  BY <1>14 DEF SyncConnectDial
<1>15. ASSUME NEW h \in Hosts, ShutdownLock(h) PROVE OneDelivery'
  BY <1>15 DEF ShutdownLock
<1>16. ASSUME NEW h \in Hosts, ShutdownClose(h) PROVE OneDelivery'
  BY <1>16 DEF ShutdownClose
<1>17. ASSUME NEW h \in Hosts, StubCallback(h) PROVE OneDelivery'
  BY <1>17 DEF StubCallback
<1>18. ASSUME NEW h \in Hosts, StubFinish(h) PROVE OneDelivery'
  <2>1. ~isLan /\ arg[h] \in Jobs /\ finished' = [finished EXCEPT ![arg[h]] = TRUE]
    BY <1>18 DEF StubFinish
  <2>2. ASSUME NEW g \in Hosts, pc'[g] \in {"stub_cb", "stub_fin"}
        PROVE  /\ pc[g] \in {"stub_cb", "stub_fin"}
               /\ arg'[g] = arg[g] /\ arg[g] \in Jobs /\ ~finished'[arg[g]]
    BY <1>18, <2>1, <2>2 DEF StubFinish
  <2>3. \A j \in Jobs : pc'[j] = pc[j]
    BY <1>18 DEF StubFinish
  <2>4. isLan' = isLan
    BY <1>18 DEF StubFinish
  <2> HIDE DEF TypeOK, HostPc, WorkerPc
  <2> QED
    BY <2>1, <2>2, <2>3, <2>4
<1>19. ASSUME NEW h \in Hosts, GetResultReturn(h) PROVE OneDelivery'
  BY <1>19 DEF GetResultReturn
<1>20. ASSUME NEW j \in Jobs, RunUnknown(j) PROVE OneDelivery'
  BY <1>20 DEF RunUnknown
<1>21. ASSUME NEW j \in Jobs, RunLock(j) PROVE OneDelivery'
  BY <1>21 DEF RunLock
<1>22. ASSUME NEW j \in Jobs, AbilityCached(j) PROVE OneDelivery'
  BY <1>22 DEF AbilityCached
<1>23. ASSUME NEW j \in Jobs, RunConnect(j) PROVE OneDelivery'
  BY <1>23 DEF RunConnect
<1>24. ASSUME NEW j \in Jobs, AbilityConnectFailed(j) PROVE OneDelivery'
  BY <1>24 DEF AbilityConnectFailed
<1>25. ASSUME NEW j \in Jobs, TransferConnectFailed(j) PROVE OneDelivery'
  BY <1>25 DEF TransferConnectFailed
<1>26. ASSUME NEW j \in Jobs, TransferFailedDeliver(j) PROVE OneDelivery'
  BY <1>26 DEF TransferFailedDeliver
<1>27. ASSUME NEW j \in Jobs, TransferFailedCallback(j) PROVE OneDelivery'
  BY <1>27 DEF TransferFailedCallback
<1>28. ASSUME NEW j \in Jobs, RunIo(j) PROVE OneDelivery'
  BY <1>28 DEF RunIo
<1>29. ASSUME NEW j \in Jobs, RunDeliver(j) PROVE OneDelivery'
  BY <1>29 DEF RunDeliver
<1>30. ASSUME NEW j \in Jobs, RunCallback(j) PROVE OneDelivery'
  BY <1>30 DEF RunCallback
<1>31. ASSUME NEW j \in Jobs, CallbackShutdownLock(j) PROVE OneDelivery'
  BY <1>31 DEF CallbackShutdownLock
<1>32. ASSUME NEW j \in Jobs, CallbackShutdownClose(j) PROVE OneDelivery'
  BY <1>32 DEF CallbackShutdownClose
<1>33. ASSUME NEW j \in Jobs, WorkerReleaseJob(j) PROVE OneDelivery'
  BY <1>33 DEF WorkerReleaseJob
<1>34. ASSUME NEW j \in Jobs, WorkerReleaseTunnel(j) PROVE OneDelivery'
  BY <1>34 DEF WorkerReleaseTunnel
<1>35. ASSUME ReleaseTunnel PROVE OneDelivery'
  BY <1>35 DEF ReleaseTunnel
<1>36. ASSUME NEW j \in Jobs, ReleaseJob(j) PROVE OneDelivery'
  BY <1>36 DEF ReleaseJob
<1>37. ASSUME PeerLost PROVE OneDelivery'
  BY <1>37 DEF PeerLost
<1>38. CASE UNCHANGED vars
  BY <1>38 DEF vars
<1> QED
  BY <1>1, <1>2, <1>3, <1>4, <1>5, <1>6, <1>7, <1>8, <1>9, <1>10, <1>11, <1>12, <1>13, <1>14,
     <1>15, <1>16, <1>17, <1>18, <1>19, <1>20, <1>21, <1>22, <1>23, <1>24, <1>25, <1>26, <1>27,
     <1>28, <1>29, <1>30, <1>31, <1>32, <1>33, <1>34, <1>35, <1>36, <1>37, <1>38
     DEF Next, HostStep, HostBlocked, WorkerStep, Quiescent

(* deliver_result writes a job's result once: what ft_job_get_result        *)
(* returns after finished is set never changes.                             *)
THEOREM OneResult == Spec => ResultStable
<1>1. Init => OneDelivery
  <2> SUFFICES ASSUME Init PROVE OneDelivery
    OBVIOUS
  <2>1. \A h \in Hosts : pc[h] = "idle"
    BY DEF Init
  <2>2. \A j \in Jobs : pc[j] = "none"
    BY HostsAndJobs DEF Init
  <2>3. \A j \in Jobs : ~finished[j]
    BY DEF Init
  <2> QED
    BY <2>1, <2>2, <2>3 DEF OneDelivery
<1>2. TypeOK /\ OneDelivery /\ [Next]_vars => OneDelivery'
  BY OneDeliveryStep
<1>3. ASSUME TypeOK, OneDelivery, [Next]_vars PROVE ResultWrittenOnce
  <2> USE <1>3, HostsAndJobs DEF TypeOK, OneDelivery, ResultWrittenOnce
  <2>1. ASSUME NEW h \in Hosts, StubFinish(h) PROVE ResultWrittenOnce
    BY <2>1 DEF StubFinish
  <2>2. ASSUME NEW j \in Jobs,
               RunUnknown(j) \/ TransferFailedDeliver(j) \/ RunDeliver(j)
        PROVE  ResultWrittenOnce
    BY <2>2 DEF RunUnknown, TransferFailedDeliver, RunDeliver
  <2>3. CASE ec' = ec
    BY <2>3
  <2> QED
    BY <2>1, <2>2, <2>3
       DEF Next, HostStep, HostBlocked, WorkerStep, Quiescent, vars,
           StartConnect, SyncConnect, Shutdown, RetainTunnel,
           SpawnJob, StubJob, GetResult, Cancel, RetainJob,
           StartConnectLock, StartConnectDial, StartConnectReturn,
           SyncConnectLock, SyncConnectDial, ShutdownLock,
           ShutdownClose, StubCallback, GetResultReturn, RunLock,
           AbilityCached, RunConnect, AbilityConnectFailed,
           TransferConnectFailed, TransferFailedCallback, RunIo,
           RunCallback, CallbackShutdownLock, CallbackShutdownClose,
           WorkerReleaseJob, WorkerReleaseTunnel, ReleaseTunnel,
           ReleaseJob, PeerLost
<1>4. TypeOK /\ OneDelivery /\ [Next]_vars => [ResultWrittenOnce]_vars
  BY <1>3
<1> QED
  BY <1>1, <1>2, <1>4, TypeCorrect, PTL DEF Spec, ResultStable
(***************************************************************************)
(* The refinement of FileTransferApi.                                      *)
(***************************************************************************)

(* A worker has an outcome from the end of its exchange, or of the short   *)
(* cut it took, and not before; only a known cmd_type gets to lan_mu.      *)
OutcomeAhead ==
    \A j \in Jobs :
        /\ pc[j] \in {"none", "start", "conn", "io", "fail_fin"} => outcome[j] = "unset"
        /\ pc[j] = "fin" => outcome[j] # "unset"
        /\ pc[j] \in {"conn", "io"} => kind[j] # "unknown"

(* The turn of the abstract specification is the worker in its exchange.   *)
TurnIsIo ==
    /\ Turn \in Jobs \cup {None}
    /\ \A j \in Jobs : pc[j] = "io" <=> Turn = j

RInv == IInv /\ OneDelivery /\ OutcomeAhead /\ TurnIsIo

(* lan_mu makes the job in its exchange unique.                            *)
LEMMA TurnUnique == TypeOK /\ LanMuOwned => TurnIsIo
<1> SUFFICES ASSUME TypeOK, LanMuOwned PROVE TurnIsIo
  OBVIOUS
<1>1. \A i, j \in Jobs : pc[i] = "io" /\ pc[j] = "io" => i = j
  BY DEF LanMuOwned, LanSection
<1>2. CASE \E j \in Jobs : pc[j] = "io"
  <2>1. PICK j \in Jobs : pc[j] = "io"
    BY <1>2
  <2>2. Turn \in Jobs /\ pc[Turn] = "io"
    BY <2>1 DEF Turn
  <2> QED
    BY <1>1, <2>2 DEF TurnIsIo
<1>3. CASE \A j \in Jobs : pc[j] # "io"
  BY <1>3, HostsAndJobs DEF Turn, TurnIsIo
<1> QED
  BY <1>2, <1>3

(* Every step keeps it.                                                    *)
LEMMA OutcomeStep ==
    ASSUME TypeOK, OutcomeAhead, [Next]_vars PROVE OutcomeAhead'
<1> USE HostsAndJobs DEF TypeOK, OutcomeAhead
<1>1. ASSUME NEW h \in Hosts, HostStep(h) PROVE OutcomeAhead'
  BY <1>1 DEF HostStep, HostBlocked, StartConnect, SyncConnect, Shutdown, RetainTunnel,
              SpawnJob, StubJob, GetResult, Cancel, RetainJob, StartConnectLock,
              StartConnectDial, StartConnectReturn, SyncConnectLock, SyncConnectDial,
              ShutdownLock, ShutdownClose, StubCallback, StubFinish, GetResultReturn
<1>2. ASSUME NEW j \in Jobs,
             \/ RunUnknown(j) \/ RunLock(j) \/ RunConnect(j) \/ TransferConnectFailed(j)
             \/ TransferFailedDeliver(j) \/ TransferFailedCallback(j) \/ RunDeliver(j)
             \/ RunCallback(j) \/ CallbackShutdownLock(j) \/ CallbackShutdownClose(j)
             \/ WorkerReleaseJob(j) \/ WorkerReleaseTunnel(j)
      PROVE  OutcomeAhead'
  BY <1>2 DEF RunUnknown, RunLock, RunConnect, TransferConnectFailed,
              TransferFailedDeliver, TransferFailedCallback, RunDeliver,
              RunCallback, CallbackShutdownLock, CallbackShutdownClose,
              WorkerReleaseJob, WorkerReleaseTunnel
<1>3. ASSUME NEW j \in Jobs, AbilityCached(j) \/ AbilityConnectFailed(j) \/ RunIo(j)
      PROVE  OutcomeAhead'
  BY <1>3 DEF AbilityCached, AbilityConnectFailed, RunIo, IoOutcome
<1>4. CASE \/ ReleaseTunnel \/ PeerLost \/ UNCHANGED vars
           \/ \E j \in Jobs : ReleaseJob(j)
  BY <1>4 DEF ReleaseTunnel, PeerLost, ReleaseJob, vars
<1> QED
  BY <1>1, <1>2, <1>3, <1>4 DEF Next, WorkerStep, Quiescent

(* The four parts together are an invariant.                               *)
LEMMA RefinementInvariant == Spec => []RInv
<1>1. Init => OneDelivery /\ OutcomeAhead
  <2> SUFFICES ASSUME Init PROVE OneDelivery /\ OutcomeAhead
    OBVIOUS
  <2>1. \A h \in Hosts : pc[h] = "idle"
    BY DEF Init
  <2>2. \A j \in Jobs : pc[j] = "none"
    BY HostsAndJobs DEF Init
  <2>3. \A j \in Jobs : ~finished[j] /\ outcome[j] = "unset"
    BY DEF Init
  <2> QED
    BY <2>1, <2>2, <2>3 DEF OneDelivery, OutcomeAhead
<1>2. IInv /\ OneDelivery /\ OutcomeAhead /\ [Next]_vars => OneDelivery' /\ OutcomeAhead'
  BY OneDeliveryStep, OutcomeStep DEF IInv
<1>3. IInv => TurnIsIo
  BY TurnUnique DEF IInv
<1> QED
  BY <1>1, <1>2, <1>3, Inductive, PTL DEF Spec, RInv

(* A step that neither spawns a worker nor enters or leaves the stub path  *)
(* starts no job.                                                          *)
StubPc == {"stub_cb", "stub_fin"}

SameStarted ==
    /\ \A i \in Jobs : pc'[i] = "none" <=> pc[i] = "none"
    /\ \A h \in Hosts : /\ pc'[h] \in StubPc <=> pc[h] \in StubPc
                        /\ pc[h] \in StubPc => arg'[h] = arg[h]

(* Such a step leaves Started alone.                                       *)
LEMMA StartedSame ==
    ASSUME SameStarted, NEW j \in Jobs
    PROVE  Started(j)' <=> Started(j)
  BY DEF SameStarted, Started, StubPc

(* A step that leaves the jobs alone is a stutter, or opens or closes the  *)
(* session between two turns.                                              *)
LEMMA SessionStep ==
    ASSUME RInv, RInv', SameStarted,
           UNCHANGED <<kind, cancelled, finished, ec, outcome, probed>>,
           \A j \in Jobs : pc'[j] = "io" <=> pc[j] = "io",
           (IsConnected' <=> IsConnected) \/ \A j \in Jobs : pc[j] # "io"
    PROVE  [Api!Next]_(Api!vars)
<1>1. JobState' = JobState
  BY StartedSame DEF JobState
<1>2. Turn' = Turn
  BY DEF RInv, TurnIsIo
<1>3. CASE IsConnected' <=> IsConnected
  <2>1. IsConnected' = IsConnected
    BY <1>3 DEF IsConnected
  <2> QED
    BY <1>1, <1>2, <2>1 DEF Api!vars
<1>4. CASE (IsConnected' <=> ~IsConnected) /\ \A j \in Jobs : pc[j] # "io"
  <2>1. Turn = None
    BY <1>4 DEF RInv, TurnIsIo
  <2>2. IsConnected' = ~IsConnected
    BY <1>4 DEF IsConnected
  <2> QED
    BY <1>1, <1>2, <2>1, <2>2 DEF Api!OpenOrClose, Api!Next
<1> QED
  BY <1>3, <1>4
(* A job whose worker or stub path starts goes from created to running.    *)
LEMMA JobStarts ==
    ASSUME NEW j \in Jobs, finished' = finished, ~finished[j],
           ~Started(j), Started(j)',
           \A i \in Jobs : i # j => (Started(i)' <=> Started(i))
    PROVE  JobState[j] = "created" /\ JobState' = [JobState EXCEPT ![j] = "running"]
  BY DEF JobState

(* A job whose result is stored goes from running to done.                 *)
LEMMA JobEnds ==
    ASSUME NEW j \in Jobs, TypeOK, finished' = [finished EXCEPT ![j] = TRUE],
           ~finished[j], Started(j),
           \A i \in Jobs : i # j => (Started(i)' <=> Started(i))
    PROVE  JobState[j] = "running" /\ JobState' = [JobState EXCEPT ![j] = "done"]
  BY DEF JobState, TypeOK

(* ft_tunnel_start_job, on a LAN tunnel or on a stub, is Start.            *)
LEMMA StartRefines ==
    ASSUME RInv, RInv', NEW h \in Hosts, NEW j \in Jobs, SpawnJob(h, j) \/ StubJob(h, j)
    PROVE  Api!Start(j)
<1> USE HostsAndJobs DEF RInv, IInv
<1>1. UNCHANGED <<kind, cancelled, finished, ec, outcome, probed, conn>>
  BY DEF SpawnJob, StubJob
<1>2. pc[j] = "none" /\ ~finished[j] /\ ~Started(j)
  BY DEF SpawnJob, StubJob, OneDelivery, Started
<1>3. Started(j)' /\ \A i \in Jobs : i # j => (Started(i)' <=> Started(i))
  <2>1. CASE SpawnJob(h, j)
    BY <2>1 DEF SpawnJob, Started, TypeOK
  <2>2. CASE StubJob(h, j)
    <3>1. /\ pc[h] = "idle" /\ pc'[h] = "stub_cb" /\ arg'[h] = j
          /\ \A g \in Hosts : g # h => pc'[g] = pc[g] /\ arg'[g] = arg[g]
          /\ \A i \in Jobs : pc'[i] = pc[i]
      BY <2>2 DEF StubJob, TypeOK
    <3> QED
      BY <3>1 DEF Started
  <2> QED
    BY <2>1, <2>2
<1>4. JobState[j] = "created" /\ JobState' = [JobState EXCEPT ![j] = "running"]
  BY <1>1, <1>2, <1>3, JobStarts
<1>5. Turn' = Turn
  <2>1. \A i \in Jobs : pc'[i] = "io" <=> pc[i] = "io"
    BY DEF SpawnJob, StubJob, TypeOK
  <2> QED
    BY <2>1 DEF TurnIsIo
<1>6. IsConnected' = IsConnected
  BY <1>1 DEF IsConnected
<1> QED
  BY <1>1, <1>4, <1>5, <1>6 DEF Api!Start

(* deliver_result, wherever it is called from, is Publish.                 *)
LEMMA PublishRefines ==
    ASSUME RInv, RInv', NEW j \in Jobs,
           \/ RunUnknown(j) \/ TransferFailedDeliver(j) \/ RunDeliver(j)
           \/ \E h \in Hosts : StubFinish(h) /\ arg[h] = j
    PROVE  Api!Publish(j)
<1> USE HostsAndJobs DEF RInv, IInv
<1>1. UNCHANGED <<kind, cancelled, outcome, probed, conn>>
  BY DEF RunUnknown, TransferFailedDeliver, RunDeliver, StubFinish
<1>2. /\ finished' = [finished EXCEPT ![j] = TRUE] /\ ~finished[j] /\ Started(j)
      /\ pc[j] # "io"
      /\ ec' = [ec EXCEPT ![j] = IF outcome[j] = "unset" THEN "eio" ELSE outcome[j]]
      /\ \A i \in Jobs : pc'[i] = "io" <=> pc[i] = "io"
      /\ \A i \in Jobs : i # j => (Started(i)' <=> Started(i))
  <2>1. CASE RunUnknown(j) \/ TransferFailedDeliver(j) \/ RunDeliver(j)
    <3>1. /\ pc[j] \in {"start", "fail_fin", "fin"} /\ pc'[j] \in {"cb", "fail_cb"}
          /\ \A t \in Threads : t # j => pc'[t] = pc[t]
          /\ arg' = arg
      BY <2>1 DEF RunUnknown, TransferFailedDeliver, RunDeliver, TypeOK
    <3>2. /\ finished' = [finished EXCEPT ![j] = TRUE] /\ ~finished[j]
          /\ ec' = [ec EXCEPT ![j] = IF outcome[j] = "unset" THEN "eio" ELSE outcome[j]]
      BY <2>1, <3>1
         DEF RunUnknown, TransferFailedDeliver, RunDeliver, OneDelivery, OutcomeAhead
    <3>3. \A i \in Jobs : i # j => (Started(i)' <=> Started(i))
      BY <3>1 DEF Started
    <3> QED
      BY <3>1, <3>2, <3>3 DEF Started
  <2>2. CASE \E h \in Hosts : StubFinish(h) /\ arg[h] = j
    <3>1. PICK h \in Hosts : StubFinish(h) /\ arg[h] = j
      BY <2>2
    <3>2. /\ pc[h] = "stub_fin" /\ pc'[h] = "idle"
          /\ \A t \in Threads : t # h => pc'[t] = pc[t]
          /\ \A g \in Hosts : g # h => arg'[g] = arg[g]
          /\ finished' = [finished EXCEPT ![j] = TRUE]
          /\ ec' = [ec EXCEPT ![j] = "eio"]
      BY <3>1 DEF StubFinish, TypeOK
    <3>3. pc[j] = "none" /\ ~finished[j] /\ outcome[j] = "unset"
      BY <3>1, <3>2 DEF OneDelivery, OutcomeAhead
    <3>4. \A i \in Jobs : i # j => (Started(i)' <=> Started(i))
      BY <3>1, <3>2 DEF Started
    <3> QED
      BY <3>1, <3>2, <3>3, <3>4 DEF Started
  <2> QED
    BY <2>1, <2>2
<1>3. JobState[j] = "running" /\ JobState' = [JobState EXCEPT ![j] = "done"]
  BY <1>2, JobEnds
<1>4. Turn' = Turn /\ Turn # j
  BY <1>2 DEF TurnIsIo
<1>5. IsConnected' = IsConnected
  BY <1>1 DEF IsConnected
<1> QED
  BY <1>1, <1>2, <1>3, <1>4, <1>5 DEF Api!Publish

(* connect_lan_tunnel by a worker begins its turn.                         *)
LEMMA BeginRefines ==
    ASSUME RInv, RInv', NEW j \in Jobs, RunConnect(j)
    PROVE  Api!Begin(j)
<1> USE HostsAndJobs DEF RInv, IInv
<1>1. /\ UNCHANGED <<kind, cancelled, finished, ec, outcome, probed, arg>>
      /\ pc[j] = "conn" /\ pc'[j] = "io"
      /\ \A t \in Threads : t # j => pc'[t] = pc[t]
      /\ IsConnected'
  BY DEF RunConnect, TypeOK, ConnectOk, IsConnected
<1>2. SameStarted
  BY <1>1 DEF SameStarted
<1>3. JobState' = JobState /\ JobState[j] = "running"
  BY <1>1, <1>2, StartedSame DEF JobState, OneDelivery, Started
<1>4. Turn = None /\ Turn' = j
  BY <1>1 DEF TurnIsIo, LanMuOwned, LanSection
<1>5. kind[j] # "unknown" /\ outcome[j] = "unset" /\ IsConnected' = TRUE
  BY <1>1 DEF OutcomeAhead, IsConnected
<1> QED
  BY <1>1, <1>3, <1>4, <1>5 DEF Api!Begin

(* The end of the exchange ends the turn.                                  *)
LEMMA EndRefines ==
    ASSUME RInv, RInv', NEW j \in Jobs, RunIo(j)
    PROVE  \E e \in {"ok", "eio", "ecancelled"} : Api!End(j, e)
<1> USE HostsAndJobs DEF RInv, IInv
<1>1. PICK e \in Errs :
         /\ IoOutcome(j, e) /\ outcome' = [outcome EXCEPT ![j] = e]
         /\ probed' = (probed \/ (kind[j] = "ability" /\ e = "ok"))
  BY DEF RunIo
<1>2. /\ UNCHANGED <<kind, cancelled, finished, ec, conn, arg>>
      /\ pc[j] = "io" /\ pc'[j] = "fin"
      /\ \A t \in Threads : t # j => pc'[t] = pc[t]
  BY DEF RunIo, TypeOK
<1>3. SameStarted
  BY <1>2 DEF SameStarted
<1>4. JobState' = JobState
  BY <1>2, <1>3, StartedSame DEF JobState
<1>5. Turn = j /\ Turn' = None
  BY <1>2 DEF TurnIsIo
<1>6. IsConnected' = IsConnected
  BY <1>2 DEF IsConnected
<1>7. /\ e \in {"ok", "eio", "ecancelled"}
      /\ e = "ecancelled" => cancelled[j] /\ kind[j] # "ability"
  BY <1>1 DEF IoOutcome, Errs
<1> QED
  BY <1>1, <1>2, <1>4, <1>5, <1>6, <1>7 DEF Api!End

(* A cached ability and a failed dial are short cuts.                      *)
LEMMA ShortcutRefines ==
    ASSUME RInv, RInv', NEW j \in Jobs, AbilityCached(j) \/ AbilityConnectFailed(j)
    PROVE  \E e \in {"ok", "eio"} : Api!Shortcut(j, e)
<1> USE HostsAndJobs DEF RInv, IInv
<1>1. PICK e \in {"ok", "eio"} :
         /\ outcome' = [outcome EXCEPT ![j] = e]
         /\ e = "ok" => kind[j] = "ability" /\ probed
  BY DEF AbilityCached, AbilityConnectFailed
<1>2. /\ UNCHANGED <<kind, cancelled, finished, ec, probed, arg>>
      /\ pc[j] = "conn" /\ pc'[j] = "fin"
      /\ \A t \in Threads : t # j => pc'[t] = pc[t]
  BY DEF AbilityCached, AbilityConnectFailed, TypeOK
<1>3. IsConnected' = IsConnected
  BY DEF AbilityCached, AbilityConnectFailed, ConnectFailed, IsConnected
<1>4. SameStarted
  BY <1>2 DEF SameStarted
<1>5. JobState' = JobState /\ JobState[j] = "running"
  BY <1>2, <1>4, StartedSame DEF JobState, OneDelivery, Started
<1>6. Turn' = Turn /\ Turn # j
  BY <1>2 DEF TurnIsIo
<1>7. outcome[j] = "unset"
  BY <1>2 DEF OutcomeAhead
<1> QED
  BY <1>1, <1>2, <1>3, <1>5, <1>6, <1>7 DEF Api!Shortcut
(* The host's other calls do not touch a job: those that dial or close the *)
(* session own lan_mu, so no job is in its turn.                           *)
LEMMA HostRefines ==
    ASSUME RInv, RInv', NEW h \in Hosts,
           \/ StartConnect(h) \/ SyncConnect(h) \/ Shutdown(h) \/ RetainTunnel(h)
           \/ \E j \in Jobs : GetResult(h, j) \/ RetainJob(h, j)
           \/ StartConnectLock(h) \/ StartConnectDial(h) \/ StartConnectReturn(h)
           \/ SyncConnectLock(h) \/ SyncConnectDial(h)
           \/ ShutdownLock(h) \/ ShutdownClose(h)
           \/ StubCallback(h) \/ GetResultReturn(h)
    PROVE  [Api!Next]_(Api!vars)
<1> USE HostsAndJobs DEF RInv, IInv
<1>1. UNCHANGED <<kind, cancelled, finished, ec, outcome, probed>>
  BY DEF StartConnect, SyncConnect, Shutdown, RetainTunnel, GetResult, RetainJob,
         StartConnectLock, StartConnectDial, StartConnectReturn, SyncConnectLock,
         SyncConnectDial, ShutdownLock, ShutdownClose, StubCallback, GetResultReturn
<1>2. \A t \in Threads : t # h => pc'[t] = pc[t]
  BY DEF StartConnect, SyncConnect, Shutdown, RetainTunnel, GetResult, RetainJob,
         StartConnectLock, StartConnectDial, StartConnectReturn, SyncConnectLock,
         SyncConnectDial, ShutdownLock, ShutdownClose, StubCallback, GetResultReturn,
         TypeOK
<1>3. /\ pc'[h] \in StubPc <=> pc[h] \in StubPc
      /\ \A g \in Hosts : pc[g] \in StubPc => arg'[g] = arg[g]
  BY DEF StartConnect, SyncConnect, Shutdown, RetainTunnel, GetResult, RetainJob,
         StartConnectLock, StartConnectDial, StartConnectReturn, SyncConnectLock,
         SyncConnectDial, ShutdownLock, ShutdownClose, StubCallback, GetResultReturn,
         TypeOK, StubPc
<1>4. SameStarted /\ \A j \in Jobs : pc'[j] = "io" <=> pc[j] = "io"
  BY <1>2, <1>3 DEF SameStarted
<1>5. conn' = conn \/ \A j \in Jobs : pc[j] # "io"
  BY DEF StartConnect, SyncConnect, Shutdown, RetainTunnel, GetResult, RetainJob,
         StartConnectLock, StartConnectDial, StartConnectReturn, SyncConnectLock,
         SyncConnectDial, ShutdownLock, ShutdownClose, StubCallback, GetResultReturn,
         LanMuOwned, LanSection
<1> QED
  BY <1>1, <1>4, <1>5, SessionStep DEF IsConnected

(* So do a worker's own steps outside its turn, and the last release of    *)
(* the tunnel happens when no worker is left.                              *)
LEMMA WorkerRefines ==
    ASSUME RInv, RInv', NEW j \in Jobs,
           \/ RunLock(j) \/ TransferConnectFailed(j) \/ TransferFailedCallback(j)
           \/ RunCallback(j) \/ CallbackShutdownLock(j) \/ CallbackShutdownClose(j)
           \/ WorkerReleaseJob(j) \/ WorkerReleaseTunnel(j)
    PROVE  [Api!Next]_(Api!vars)
<1> USE HostsAndJobs DEF RInv, IInv
<1>1. UNCHANGED <<kind, cancelled, finished, ec, outcome, probed, arg>>
  BY DEF RunLock, TransferConnectFailed, TransferFailedCallback, RunCallback,
         CallbackShutdownLock, CallbackShutdownClose, WorkerReleaseJob, WorkerReleaseTunnel
<1>2. /\ \A t \in Threads : t # j => pc'[t] = pc[t]
      /\ pc[j] \notin {"none", "io"} /\ pc'[j] \notin {"none", "io"}
  BY DEF RunLock, TransferConnectFailed, TransferFailedCallback, RunCallback,
         CallbackShutdownLock, CallbackShutdownClose, WorkerReleaseJob, WorkerReleaseTunnel,
         TypeOK
<1>3. SameStarted /\ \A i \in Jobs : pc'[i] = "io" <=> pc[i] = "io"
  BY <1>1, <1>2 DEF SameStarted
<1>4. conn' = conn \/ \A i \in Jobs : pc[i] # "io"
  <2>1. CASE WorkerReleaseTunnel(j)
    BY <2>1, TwoWorkersCounted
       DEF WorkerReleaseTunnel, ReleaseTunnelRef, RefCounts, UsesTunnel, WorkerPc, TypeOK
  <2>2. CASE ~WorkerReleaseTunnel(j)
    BY <2>2 DEF RunLock, TransferConnectFailed, TransferFailedCallback, RunCallback,
         CallbackShutdownLock, CallbackShutdownClose, WorkerReleaseJob, LanMuOwned, LanSection
  <2> QED
    BY <2>1, <2>2
<1> QED
  BY <1>1, <1>3, <1>4, SessionStep DEF IsConnected

(* Each step of the threads is a step of the ABI specification or          *)
(* invisible in it.                                                        *)
LEMMA StepRefines ==
    ASSUME RInv, RInv', [Next]_vars
    PROVE  [Api!Next]_(Api!vars)
<1> USE HostsAndJobs
<1>1. CASE \E h \in Hosts, j \in Jobs : SpawnJob(h, j) \/ StubJob(h, j)
  BY <1>1, StartRefines DEF Api!Next
<1>2. CASE \E h \in Hosts, j \in Jobs : Cancel(h, j)
  <2>1. PICK h \in Hosts, j \in Jobs : Cancel(h, j)
    BY <1>2
  <2>2. /\ UNCHANGED <<kind, finished, ec, outcome, probed, conn, pc, arg>>
        /\ cancelled' = [cancelled EXCEPT ![j] = TRUE]
    BY <2>1 DEF Cancel
  <2>3. JobState' = JobState /\ Turn' = Turn /\ IsConnected' = IsConnected
    BY <2>2, StartedSame DEF SameStarted, JobState, Turn, IsConnected
  <2> QED
    BY <2>2, <2>3 DEF Api!AskCancel, Api!Next
<1>3. CASE \E h \in Hosts : StubFinish(h)
  <2>1. PICK h \in Hosts : StubFinish(h)
    BY <1>3
  <2>2. arg[h] \in Jobs
    BY <2>1 DEF StubFinish, RInv, OneDelivery
  <2> QED
    BY <2>1, <2>2, PublishRefines DEF Api!Next
<1>4. CASE \E h \in Hosts : HostStep(h)
  BY <1>1, <1>2, <1>3, <1>4, HostRefines DEF HostStep, HostBlocked
<1>5. CASE \E j \in Jobs : WorkerStep(j)
  <2>1. PICK j \in Jobs : WorkerStep(j)
    BY <1>5
  <2>2. CASE RunUnknown(j) \/ TransferFailedDeliver(j) \/ RunDeliver(j)
    BY <2>2, PublishRefines DEF Api!Next
  <2>3. CASE RunConnect(j)
    BY <2>3, BeginRefines DEF Api!Next
  <2>4. CASE RunIo(j)
    BY <2>4, EndRefines DEF Api!Next
  <2>5. CASE AbilityCached(j) \/ AbilityConnectFailed(j)
    BY <2>5, ShortcutRefines DEF Api!Next
  <2> QED
    BY <2>1, <2>2, <2>3, <2>4, <2>5, WorkerRefines DEF WorkerStep
<1>6. CASE ReleaseTunnel \/ PeerLost \/ \E j \in Jobs : ReleaseJob(j)
  <2>1. /\ UNCHANGED <<kind, cancelled, finished, ec, outcome, probed, pc, arg>>
    BY <1>6 DEF ReleaseTunnel, PeerLost, ReleaseJob
  <2>2. (IsConnected' <=> IsConnected) \/ \A i \in Jobs : pc[i] # "io"
    <3>1. CASE ReleaseTunnel
      BY <3>1, WorkersCounted
         DEF ReleaseTunnel, ReleaseTunnelRef, RInv, IInv, RefCounts, UsesTunnel, WorkerPc,
             TypeOK, IsConnected
    <3>2. CASE PeerLost \/ \E j \in Jobs : ReleaseJob(j)
      BY <3>2 DEF PeerLost, ReleaseJob, IsConnected
    <3> QED
      BY <1>6, <3>1, <3>2
  <2> QED
    BY <2>1, <2>2, SessionStep DEF SameStarted
<1>7. CASE UNCHANGED vars
  <2>1. UNCHANGED <<kind, cancelled, finished, ec, outcome, probed, pc, arg, conn>>
    BY <1>7 DEF vars
  <2> QED
    BY <2>1, SessionStep DEF SameStarted, IsConnected
<1> QED
  BY <1>4, <1>5, <1>6, <1>7 DEF Next, Quiescent

(* The threads, locks and reference counts of abi_ft.cpp implement the ABI *)
(* as the host sees it: jobs take turns on one session that nobody opens,  *)
(* replaces or closes during a turn, and each ends with one result that    *)
(* says what happened to it.                                               *)
THEOREM Refinement == Spec => ImplementsApi
<1>1. Init => Api!Init
  <2> SUFFICES ASSUME Init PROVE Api!Init
    OBVIOUS
  <2>1. kind \in [Jobs -> {"ability", "upload", "download", "unknown"}]
    BY Parameters DEF Init, Kinds
  <2>2. /\ \A h \in Hosts : pc[h] = "idle"
        /\ \A j \in Jobs : pc[j] = "none" /\ ~finished[j]
    BY HostsAndJobs DEF Init
  <2>3. JobState = [j \in Jobs |-> "created"] /\ Turn = None /\ IsConnected = FALSE
    BY <2>2 DEF JobState, Started, Turn, IsConnected, Init
  <2> QED
    BY <2>1, <2>3 DEF Init, Api!Init
<1>2. RInv /\ RInv' /\ [Next]_vars => [Api!Next]_(Api!vars)
  BY StepRefines
<1> QED
  BY <1>1, <1>2, RefinementInvariant, PTL DEF Spec, ImplementsApi, Api!Spec
=============================================================================
