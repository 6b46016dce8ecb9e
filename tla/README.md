# TLA+ verification of open-bambu-networking

The repository is an open replacement for two plugins of the Bambu Studio
slicer: the network plugin (`src/src`, `src/include/obn`) and the camera /
file-browser plugin (`src/stubs`). Studio loads them and calls a C ABI from
several threads; the plugins own further threads (one MQTT network thread per
session, a detached thread per file-transfer job, per certificate snapshot and
per cover fetch, the discovery listener, the stream workers) and talk to a
printer on the LAN and to the vendor's cloud.

Sequential helpers of this code are covered by unit tests. What the tests
hardly reach, and what this project is about, is the meeting of those threads,
of late and coalesced messages, and of sessions torn down while they are used.

## 1. Inventory

| Component | State it keeps | Operations | Hard behaviour | What makes it correct |
| --- | --- | --- | --- | --- |
| File-Transfer ABI (`abi_ft.cpp`) | `FT_Tunnel`: refcount, connection, cached ability, `lan_mu`; `FT_Job`: refcount, cancel flag, result | create, retain, release, connect, shutdown, start job, get result, cancel | detached workers, callbacks that re-enter, shutdown during I/O | no use after free, stable session during I/O, one result, every job ends |
| Tunnel client (`tunnel_upload.cpp`, `tunnel_local.cpp`, `tls_dial.cpp`) | TLS session, handshake phase, receive buffer, wire sequence | connect, ability, upload, download, list, sub_file, disconnect | replies of an earlier exchange, several frames per read, cancel, timeouts | uploads tile the file, results belong to the request, exchanges end |
| Cloud link (`agent.cpp`, `cloud_session.cpp`) | `cloud_session_`, desired and active subscriptions, `cloud_connected_devs_` | connect, refresh, add/del subscription, send | refresh against a connecting session, CONNACK against add, automatic reconnect | what is wanted is subscribed, one connection |
| LAN link and certificates (`agent.cpp`, `lan_session.cpp`, `mqtt_client.cpp`, `cert_store.cpp`, `lan_tls.cpp`) | `lan_session_`, certificate caches, files and the registry dials trust | connect, disconnect, send, install certificate, notify callbacks | joins of threads that need the lock, concurrent connects, detached snapshots | every thread owned, every call returns, a certified printer is trusted |
| Covers (`agent.cpp` 299-436 and 675-690, `cover_cache.cpp`, `cover_server.cpp`) | `synthetic_subtasks_` (at most 16), in-flight keys, PNG files | report handling, ensure, HTTP GET | late fetch by name, retry, eviction | no cover of an earlier print, the cover comes in the end |
| Firmware information (`agent.cpp` 463-673) | `device_fw_` | merge report, render | replies and pushes of mixed age | the offer converges to the printer's |
| Discovery and binding (`ssdp.cpp`, `agent.cpp` 794-844 and 978-1040, `bind_cloud.cpp`) | listener thread, socket, registry and cached packets by address | start, stop, detect, bind | stop against receive, late packets, printers that move | calls return, addresses converge |
| Authentication (`auth.cpp`, `cloud_auth.cpp`, `agent.cpp` 1106-1219 and 1438-1460) | session in memory and on disk | load, set, refresh, profile, clear | death during a save, a profile answered after logout | a saved session survives, a logout stays a logout |
| Presets (`abi_presets.cpp`, `cloud_presets.cpp`) | `preset_cache_` | synchronise, drain, create, delete | partial failure, logout meanwhile | nothing the cloud has is left out |
| FTPS and print jobs (`ftps.cpp`, `print_job.cpp`, `cloud_print.cpp`) | control and data channel, job stage | upload, publish, poll | replies that come late, failure or cancel between two stages | a job is ordered only when stored where the order says |
| BambuSource (`stubs/BambuSource.cpp`) | tunnel, TLS session, control queues and worker | open, start, read, send, close, destroy | close against a read that has no time-out, answers of several frames | nobody reads a freed session, requests and answers stay in step, closing returns |
| RTSP (`stubs/rtsp_client.cpp`, `rtsp_passthrough.cpp`) | queue of samples (8), keepalive and reader threads | start, pull, stop | slow consumer, interleaved frames, stop against read | whole units in order, end reported, stop returns |
| DirectShow filter (`stubs/dshow_filter.cpp`) | filter, pin, enumerators, worker, module lock count | load, connect, pause, run, stop, release | worker inside another filter, pin outliving its filter | library not unloaded under an object, pause delivers, stop returns |
| Other HTTP calls, configuration, logging, JSON, OS layer | per call, or process globals | request / response, read, parse, write | - | formatting |

Interaction: Studio calls the ABI files, which forward to `Agent` or to
`abi_ft.cpp`. `Agent` owns the LAN session, the cloud session, the discovery
listener and the authentication store, all guarded by the one mutex
`Agent::mu_`. MQTT network threads call back into `Agent` and take `mu_`.
`abi_ft.cpp`, the print jobs and the cover cache each open tunnel connections;
`BambuSource` uses the same `tunnel_local::Session` underneath.

`PROJECT.json` lists every component with its status, and the hazards with
their lines and the properties that cover them.

## 2. Modules

### FileTransfer

State: the fields of one `FT_Tunnel` (`tref`, `conn`, `probed`, `shutDown`,
`lanMu`) and of each `FT_Job` (`jref`, `cancelled`, `finished`, `ec`), and a
program counter per thread. A worker thread is named by its job; host threads
are a separate set. `hostT` and `hostJ` count the references the host holds, so
that "the count is right" can be said at all. `conn` has four states, because
`Connection::is_connected` only tests that an `SSL*` is set: a session whose
peer is gone (`"dead"`) still counts as connected.

Actions: one per critical section or per stretch between two of them.
`StartConnect*`, `SyncConnect*` and `Shutdown*` are the host's blocking calls;
`SpawnJob` is `ft_tunnel_start_job` on a LAN tunnel, `StubJob*` on any other;
`RunLock`, `RunConnect`, `RunIo`, `RunDeliver`, `RunCallback`, `WorkerRelease*`
are a worker from lock to exit, with `AbilityCached`, `AbilityConnectFailed`,
`TransferConnectFailed` and what follows it as its early exits. A result
callback may call `ft_tunnel_shutdown`, as Studio's does. `PeerLost` and the
host are external. The host respects the ABI's contract: it makes no call
through a handle it has released, and starts a job once.

### FileTransferApi and FileTransferImplements

`FileTransferApi` is what the ABI promises the host, without threads, locks or
counts: a job is created, runs and is done; jobs take turns on one session, which
is opened and closed only between turns; a job that ends `ok` had its turn, or
asked for an ability that was known; one that ends `ecancelled` is a transfer
whose cancellation was asked for; the result is published once.
`FileTransferImplements` maps `FileTransfer` to it: the turn belongs to the worker
in its exchange (not merely in `lan_mu`), the session is open when an `SSL*` is
set, a job is running from the call that starts it, in its own thread or in the
caller's, until `finished`. Reference counts, `PeerLost` and everything a callback
does are stuttering steps.

### TunnelWire

One connection and the exchanges made on it. Frames carry what the client reads
of the JSON envelope (command, sequence, result, chunk size, offset) and the
number of a payload fragment; sizes count blocks. `toClient` is the byte stream
from the printer, cut into frames. `RecvPayload` is `Session::recv_payload`: a
read may complete up to `MaxBurst` frames, `consume_frames` removes all of them
and only the first is returned. Each receive loop is an action with its own
acceptance rule: `recv_wire_json` matches command and sequence and counts skips
(`SkipStale`), `run_sub_file` matches without a limit, `run_download` and
`query_media_ability` take whatever comes. A socket timeout is a stuttering
step, since every loop answers it by reading again.

The printer is external. It answers in order, may refuse, may ask for any chunk
size and resume offset, and checks every chunk; its verdict on the chunk
sequence is what `ChunksTile` looks at.

### CloudLink

`Agent`'s cloud half over `CloudSession`s that are created and destroyed. A step
is one hold of `Agent::mu_` or `CloudSession::mu_`, or the code between two;
`on_connect` and `on_disconnect` are two steps each because they write the
atomic `connected_` before they take the lock. A pointer fetched under `mu_` and
used later is a step of its own (`Add` then `AddSession`); use after destruction
sets `crashed`, and nothing is claimed about what follows.

### LanAgent

`Agent`'s LAN half. Destroying a `LanSession` joins its network thread
(`Destroy`), and a thread that is in a callback waiting for `mu_` cannot be
joined: mutex acquisition is no cancellation point for
`mosquitto_loop_stop(force)`. `mu` has an owner only in the one section that
joins inside it. Certificate snapshots are counted per device; what they leave
behind is followed to the registry (`trusted`), the state file and the merged
bundles that a dial uses. Devices stand for their IP addresses.

### LocalSource

One `Bambu_Tunnel` of the port-6000 scheme. Three threads: `gst` opens, starts,
reads and sends, `ui` closes and destroys, `wk` is the CTRL worker. `io` is the
owner of `mjpg_io_mu` while it blocks in `SSL_read`; an `SSL*` is the number of
the `Bambu_Open` that made it, so a stale one can be told from the tunnel's. A
read has no time-out: `dial_tls` ends with `clear_socket_io_timeout`
(`tls_dial.cpp:303`). So a thread enters a read (`HandshakeEnter`, `ReadEnter`,
`WorkerEnter`) and leaves it when bytes have come or the socket is no longer up,
and in no other way. `Bambu_Close` is modelled in its own order: `CloseJoin`
(`stop_ctrl_mode`) before `CloseShut` (`tunnel_close`). `CloseAnyTime = FALSE` is
how the host uses the library: it does not close a tunnel while a StartStream on
it is in progress.

### RtspStream

`rtsp::Client` under `rtsp::Passthrough`: the handshake with one retry of a
challenge, the demultiplexer, the assembly of NAL units and access units, the
bounded queue and its end marker, the keepalive thread, and `stop()` with its two
joins before `close_tls`. A NAL unit carries its number and, as timestamp, that of
its access unit; `printer.sent` keeps what was sent, which is what the samples are
compared with. A unit goes as one packet or as two fragments, other messages may
come between them, and the mark on the last unit of an access unit may be missing.
SDP and header parsing are outcomes.

### DshowFilter

Class factory, filter, output pin, pin enumerators and the worker. The graph
manager makes one call at a time; `graph` is the call that waits for a join.
References are counted per kind of object, since a pin is kept alive by its
filter, by the client and by enumerators. The renderer is external: it may keep
all buffers, or sit in `Receive` while it is paused.

### PrintJob

One job of any of the five kinds, from the checks of its parameters to the
published `project_file`. The FTP server is external and serves its commands at
its own pace, so that after a read that timed out every later reply is an answer
to an earlier question. A file is known by the directory it is in. `Perform` is
one HTTP request: when it fails the server may have done its part all the same.
`UploadFile` is the promise of `TunnelWire`'s upload, and like it may never come
back from a printer that is silent. A local file that is read short is taken for
its end by the sender (`ftps.cpp:568`); the model reads files whole.

### SubtaskCovers

From a report of the printer to the picture Studio shows: the table of subtasks
with its eviction (the order of the hashed ids is chosen at the start), the cover
cache with its in-flight keys, and the HTTP server. A cover's content is the
number of the print whose file it was taken from. A file is in a place, a storage
and a folder of it (`/cache/` or another), and `FetchThumbnail` chooses as the code
does: the storages in order, a failed listing passed over, `/cache/` before other
folders, then the newer file (`Preferred`). A worker connects, fetches and renames;
the fetch waits for the printer without a time-out. Files that are deleted, or
printed again from the card, are left out.

### FirmwareRecord

The record of versions which the same reports feed, of the module `ota`: a
`get_version` reply, in which `sw_new_ver` may be missing, replaces, a
`new_ver_list` only fills in what is empty (`ParseModule`); `Offered` is what
`render_firmware_json` makes of it. The printer offers and installs versions while
reports are under way. An offer that is withdrawn is left out; nothing in the code
would clear it.

### Account

The session store, with the file operations of `persist_locked` one by one and a
process that may die between any two, on a build where `rename` replaces a file or
not (`windows`); login in its two parts (tokens, then profile), logout, the
refresh at startup; and the synchronisation of presets against logins, creations
and deletions. A listing whose body does not parse is an empty one, with success
(`cloud_presets.cpp:91` and `:286`). `out` and `saved` are history.

### Discovery

The listener thread, `start_discovery` in both directions, what a packet leaves in
the registry of serial numbers, in `ssdp_json_by_ip_` and, by way of Studio's main
thread, in its list; `bind_detect` and `bind`. Printers move between addresses and
packets are lost and late. What `connect_printer` itself writes to the registry
(`agent.cpp:78`) is left out.

### MC modules

Each `MC<Module>` extends its module for TLC. `MCAccount` adds a symmetry set
(accounts and preset names), used by a run that checks no liveness. `MCLiveView`
(`RtspStream`, `DshowFilter`) and `MCReports` (`SubtaskCovers`, `FirmwareRecord`)
extend two modules that share no state: a behaviour is one of either, chosen by the
initial value of a variable of the MC module, with the fairness of that module.

### Proof modules

`<Module>Proofs` extends its module and holds the theorems about it (section 4).
Two of them cover a second module: `StreamProofs` is about `RtspStream` and
`DshowFilter`, the two ends of the live view, and `LanAgentProofs` about `LanAgent`
and `SubtaskCovers`, which the reports of the LAN session feed. The second modules
have names of their own for what the first also has (`FilterSpec`, `CoverSpec`);
the specifications are not conjoined, every theorem is about one of them.

## 3. Runs

| Run | Bounds | What it shows |
| --- | --- | --- |
| `ft_jobs` | 1 host thread, 2 jobs of any kind, 2 counted host calls, failing dials, callbacks that shut down | memory safety, a stable session, one result, completion, reclamation; `FileTransferApi` is implemented |
| `wire` | 3 exchanges of any kind, 2 connections, a file of 4 blocks in chunks of 2 (or a chunk size of 0), offsets 1 and 4, 2 frames per read, cancels | uploads tile and are stored, sub-file answers are the request's own, downloads are intact, exchanges end |
| `cloud_link` | 1 UI thread, 1 worker, 2 devices, 2 sessions, refreshes, failures | what is active on the broker is what is wanted, one connection, everything wanted is subscribed in the end |
| `lan` | 2 UI threads, 1 sender, 2 devices, 2 sessions | every network thread is owned, a certified printer can be dialled, calls return unless a session is replaced while it is installed |
| `lan_install_deadlock` | 2 UI threads, 3 sessions | **violated**: two overlapping connects deadlock |
| `source_local` | 2 opens, 2 requests of 2 parts, 4 frames, 2 frames per read | no freed `SSL*` is used, requests and answers stay in step, closing returns when the printer answers and no part of its answer was thrown away |
| `source_close_silent` | the same, nothing asked of the printer | **violated**: `Bambu_Close` waits for a worker that waits for the printer |
| `live_view` | 3 NAL units in any access units, a queue of 2, one message on the wire; or 1 buffer, 1 enumerator, any number of sessions of the filter | RTSP: whole units in order, threads gone before close, end reported, stop returns. Filter: safe unloading, a pause delivers, stop returns |
| `print` | 2 chunks, 2 polls, all five kinds of job, all storage layouts | only what is stored is ordered, a cancelled job is not printed, a job ends unless it waits in a BRTC upload |
| `reports` | 1 name, 2 prints, 2 storages of 2 folders, 1 entry in the table of subtasks; or 3 versions, 2 reports on their way | no LAN print is shown the cover of an earlier print whose file is in the same place; with a printer that answers the cover comes in the end. With replies that name the offer again and again, the offer converges |
| `account` | 2 accounts, 2 presets, 2 tokens, 1 crash, 1 synchronisation | logout is final, session survives, nothing a reply listed is missing after a synchronisation |
| `discovery` | 2 printers, 1 address, 2 moves | calls return, addresses converge |

Why the bounds are enough to be interesting. Two jobs and a host let each of the
ends of a reference (host, worker; tunnel, job) be dropped last; releases by the
host and shutdowns from callbacks are not counted, so two counted calls start
both jobs and still leave one job's callback to shut the tunnel down under the
other. The safety properties of ten modules are proved for every bound
(section 4). Three exchanges let a stale reply meet an exchange that is neither its
own nor the first; an offset of one leaves a full and a short chunk, one of four leaves none.
`MaxSkips`, `MaxTries` and `MaxAttempts` are 32, 32 and 64 in the code, the RTSP
queue, the subtask table and the number of polls 8, 16 and 20; small values keep
both sides of every limit reachable. Two sessions let an old and a new one
coexist. Two opens and two sessions of the filter show what the first leaves for
the second. A queue of two samples has an order, and three NAL units let an access
unit of two be followed by, or follow, another. Two prints of one name are what the
cover key has to tell apart, two storages of two folders are every way in which one
file can be preferred to another, three versions allow an offer after an update, and
two moves let a printer leave its address and come back while a packet is late.

What a property leaves out, it leaves out by name. `JobsComplete` and
`TunnelReclaimed` except a callback stuck under `lan_mu`, `JobEnds` a BRTC upload
that waits for the printer; `DownloadIntact` a transfer from whose reads frames were
dropped; `CallsReturnUnlessReplaced` two connects that overlap;
`CloseReturnsIfAnswered` a CTRL worker that waits for a frame thrown away
(`AnswerLost`); `SessionSurvives` builds where `rename` does not replace;
`CoverNotOlder` cloud prints, whose cache key has no version, and files in another
place; `PresetsComplete` what the reply did not list. In each of these cases the code
does not keep the promise (section 5).

`CHECK_DEADLOCK FALSE` stands where the system may stop: the host makes no
further call, the bounds are used up, or (after `crashed`, or in a deadlock a
property is about) nothing can happen.

### Fairness

Weak fairness of each thread's continuation: a thread that can run does run, and
a mutex is eventually acquired when it stays free. The host is never obliged to
make a call. Beyond that:

- The printer on port 6000. After `dial_tls` the socket has no time-out
  (`tls_dial.cpp:303`), and every receive loop retries one (`tunnel_upload.cpp:94-104`),
  so nothing in the plugin ends an exchange with a printer that keeps the connection
  and is silent. That it answers, or the connection ends, is an assumption of its own
  wherever a property needs it: in `TunnelWire` (a printer whose session is up
  answers), in `AnsweringSpec` of `FileTransfer` (every exchange ends) and of
  `LocalSource` (every CTRL request is answered to its end), and in
  `CoverAnsweringSpec`. `FairSpec` of `FileTransfer` and of `LocalSource` is about the
  threads alone. `PrintJob` assumes nothing of it, and `JobEnds` excepts that upload.
- `CloudLink`: `NetStep` includes `Connack`; libmosquitto reconnects until it
  succeeds.
- `DshowFilter`: good frames keep coming between bad ones (strong, since bad ones
  may come any number of times). A silent printer would hold the JPEG worker in a
  read without a time-out.
- `SubtaskCovers`: the printer goes on reporting, and of the fetches of a cover that
  are tried again and again one finds it reachable and answering.
- `FirmwareRecord`: the printer answers `get_version` again and again with
  `sw_new_ver`, which the comment at `agent.cpp:451` calls optional; the code takes it
  for granted when it counts on the record to converge (`agent.cpp:461`).
- `Discovery`: printers keep announcing themselves, and not every packet is lost;
  Studio's main loop runs what was queued.
- `RtspStream` asks nothing of the printer: `stop()` shuts the socket before it joins.
  The FTP, HTTP and MQTT calls of `PrintJob` have time-outs. `Account` checks safety
  only.

`Cancel`, lost links, dropped sessions and crashes are never fair.

## 4. What is proved

A component's theorems are in a proof module that extends it (for `FileTransfer`:
`FileTransferImplements`). They hold for every value of the
constants that the module's named assumption allows: any number of threads,
jobs, devices and sessions, any file, chunk and queue size, any limit. TLC
evaluates the assumptions in every run, and every inductive invariant was
checked with TLC on the run's instance before it was proved.

| Module | Theorem | Statement |
| --- | --- | --- |
| `FileTransferProofs` | `TypeCorrect`, `LanMutualExclusion`, `CountsExact` | `Spec => []TypeOK`, `[]LanMuOwned`, `[]RefCounts` |
| | `MemorySafety` | `Spec => []NoUseAfterFree` |
| | `SessionStable`, `OneResult` | `Spec => SessionStableDuringIo`, `ResultStable` |
| | `Refinement` | `Spec => ImplementsApi` |
| `TunnelWireProofs` | `WireInvariant` | `Spec => []IInv` |
| | `UploadsTile`, `UploadsStored`, `SubFilesOwn` | `Spec => []ChunksTile`, `[]UploadStored`, `[]SubFileOwn` |
| | `DownloadsIntact` | `MaxTries > 1`: `Spec => []DownloadIntact` |
| `CloudLinkProofs` | `CloudInvariant` | `OneUiThread`: `Spec => []IInv` |
| | `SubscriptionsStayInStep`, `OneConnectionOnly` | `OneUiThread`: `Spec => []SubscriptionsInStep`, `[]OneConnection` |
| `LanAgentProofs` | `LanInvariant` | `Spec => []IInv` |
| | `NoLeakedSession`, `CertificatesConsistent` | `Spec => []SessionsOwned`, `[]CertifiedTrusted` |
| | `CoversInvariant` | `CoverSpec => []CoverInv` |
| | `CoversStayFresh` | `CoverSpec => []CoverNotOlder` |
| `LocalSourceProofs` | `SourceInvariant` | `~CloseAnyTime`: `Spec => []IInv` |
| | `FreeIsSafe`, `WorkerStaysInStep` | `~CloseAnyTime`: `Spec => []SslFreeSafe`, `[]RepliesInStep` |
| `StreamProofs` | `ClosesAfterThreads` | `Spec => []ThreadsBeforeClose` |
| | `StreamInvariant` | `Spec => []IInv` |
| | `UnitsStayWhole` | `Spec => []WholeUnits` |
| | `FilterInvariant` | `FilterSpec => []FilterInv` |
| | `UnloadsSafely`, `OneWorkerOnly` | `FilterSpec => []UnloadSafe`, `OneWorker` |
| `PrintJobProofs` | `JobInvariant` | `Spec => []IInv` |
| | `OrderNamesStoredFile`, `CancelStopsPrint` | `Spec => []OrderedIsStored`, `[]CancelledNotPrinted` |
| `AccountProofs` | `AccountInvariant` | `Spec => []IInv` |
| | `LogoutLasts`, `AllPresetsListed`, `SavedSessionSurvives` | `Spec => []LoggedOutStaysOut`, `[]PresetsComplete`, `SessionSurvives` |

Some theorems have a hypothesis besides the assumptions on types:

- `OneUiThread`: `connect_cloud`, `cloud_refresh` and `cloud_del_subscribe` come
  from Studio's one UI thread. With two, one could create and start a session
  while the other still stops the old one, and `OneConnection` is false. The
  number of workers, which add subscriptions and send, is arbitrary.
- `~CloseAnyTime`: Studio does not close a tunnel during a StartStream on it. The
  handshake keeps using the `SSL*` it was given (`BambuSource.cpp:783`), so
  without the hypothesis `SslFreeSafe` is false.
- `MaxTries > 1`: one reply that only reports progress must not end an upload; the
  code has 32 tries, and the modelled printer reports progress at most once.

### The inductive invariants

`FileTransfer`: `TypeOK /\ LanMuOwned /\ RefCounts`. `NoUseAfterFree` is not
inductive: that `tref > 0` survives a release needs to know that other users are
counted, which is `RefCounts`; then it follows, since a worker in `UsesTunnel`
contributes to the cardinality and a host in a tunnel call holds a handle.
`LanMuOwned` excludes a second thread from closing or replacing the session
during an exchange; together with `RefCounts` it gives `SessionStable`.
`OneResult` needs `OneDelivery`: a job whose worker has not reached its delivery
is not finished, and no two host threads deliver the same stub job.
`Refinement` goes action by action from the same facts: the turn is unique
because `lan_mu` has one owner, and a session is closed in nobody's turn.

`TunnelWire`: an upload is right because of what lies between client and printer.
`ChunksInLine` says that the chunks in the queue are at its front and continue
each other and what the printer has; `Sending` that the client's next chunk
continues the last one; `Asked` that an upload request is last in the queue or
answered by at most one frame; `Verdicts` that a final reply in the stream is
the truth. `SubFileOwn` needs only that sequence numbers are used once
(`Numbered`). Downloads compare nothing, so `DownloadIntact` needs a second
invariant, `TInv`: as long as every download has ended well, each exchange
meets an empty stream and then only its own reply (`Orderly`: `Calm` between
exchanges, `Exchanging`, `Closing` and `Assembling` within them). A download
that fails or is cancelled ends `Orderly` for good, which is the finding of
section 5.

`CloudLink`: `LiveOwned` (a live session is `cloud_session_` or is being stopped,
and while one is stopped there is no other), `LinkOwned` (link, `connected_` and
the started thread go together, a lost link clears `active_`) and `SetsInStep`,
which also says what the sets are while the CONNACK handler waits for the lock.

`LanAgent`: session pointers are moved between calls and `lan_session_` and never
copied (`Distinct`), so the holder of a running thread (`Held`) is the only one,
also when calls of `connect_printer` overlap. `Certs` adds to `CertifiedTrusted`
that the certificate file of a certified device is there.

`LocalSource`: `ReaderHolds` and `WorkerHolds` say where a thread holds an `SSL*`
and what then excludes `tunnel_close` (the lock, or the join in `stop_ctrl_mode`),
`OneUse` that a tunnel is used for video or for CTRL messages; `AnswersAligned` that
only the answer to the one outstanding request is under way, and its last frame is
the only one that says that no more follow. That frame may have been thrown away:
then the worker waits, and never takes the next request for answered.

`RtspStream`: that close_tls finds no thread needs only where `stop()` is
(`Joined`): it goes on when the worker, then the keepalive thread has been joined.
`WholeUnits` is not inductive, since it says nothing of what is still on its way.
`IInv` follows the NAL units: there are numbers t and d such that the worker has
taken the first t, the rest of the first d is decoded and waits in `naluQ`, and
what comes after d is in `fu_buf` and on the wire, in order and without a gap (two
fragments of one unit next to each other among the packets); the open access unit
and the samples are what the first t make of themselves. Timestamps never
decrease, so a new one, or a mark, means that an access unit is complete. The
argument is by steps of the worker, not by induction over the data. The attempt
also corrected the model: `Flush` dropped a sample too many from a queue that was
not full.

`SubtaskCovers`: covers are fetched by name and kept by name and version, so the
invariant has to relate both to prints. A key with a version belongs to the print of
that number and has its name (`Keyed`). A picture `Fits` a key when it is that of a
print that has started and, if the files of the two prints are in one place, not the
older: what the search over storages and folders finds fits (`HitFits`), since of two
files in one place it prefers the newer. So what a worker fetched, what the cache
keeps and what Studio shows for a key fits it (`FetchedFits`, `KeptFits`,
`ShownFits`). The eviction of subtasks and the in-flight keys are not needed for it.

`DshowFilter`: the lock count is the number of objects and server locks
(`Counted`), the pin lives as long as it is referred to, and a worker needs a live
filter (`WorkerKept`). `PrintJob`: `FlowInv` is about the stages, `WireInv` says
for each place of the FTP client which commands and replies may be outstanding:
after a time-out CWD and PASV may read replies to earlier probes, but whoever is
past PASV has read them all, so that the 226 is the one of this STOR. `Account`:
the operation in progress, memory and file agree (`StoreInStep`, `SavedOnDisk`),
and after a logout there is no token anywhere (`NoToken`).

### Only model-checked

- Every liveness property: fairness and `ENABLED` are out of the prover's reach.
  That includes all of `Discovery` and `FirmwareRecord`, whose properties are of this kind. Every
  invariant and every safety action property that a passing run checks is proved.
- The properties that a hypothesis above leaves out (two UI threads, a close
  during StartStream) are no properties of the code.

## 5. Findings and known behaviour

Each violation run is a finding:

- `lan_install_deadlock`: two overlapping `connect_printer` calls, of which one
  destroys, under `mu_`, the session the other has just installed (`agent.cpp:124`),
  against the comment at `agent.cpp:66`.
- `source_close_silent`: `Bambu_Close` joins the CTRL worker (`BambuSource.cpp:1131`)
  before it shuts the socket the worker is blocked on, the reverse of `STATUS.md:426`;
  with a silent printer it never returns.

The models also contain the following, which no property claims to be absent:

- A failed dial runs `result_cb` under `lan_mu` (`abi_ft.cpp:404` and `:444`),
  against the comment at `abi_ft.cpp:412`; a callback that shuts the tunnel down
  then waits for itself (`SelfDeadlock`).
- Of several frames that one read completes, all but the first are thrown away
  (`tunnel_local.cpp:832`). When the end of an answer is among them, a CTRL worker
  waits for it, and `Bambu_Close` for the worker, though the printer answered
  (`AnswerLost`). Downloads take every reply, without comparing sequence
  numbers (`tunnel_upload.cpp:390`), so that a cancelled one feeds the next.
- A refresh of the cloud session loses the subscriptions buffered in one that is
  still connecting (`agent.cpp:1391`); two snapshots of one printer's certificate
  may run at once (`agent.cpp:920`); `cloud_connected_devs_` is left as it is by an
  automatic reconnect (`agent.cpp:1318`).
- Session pointers are used after `mu_` was released (`agent.cpp:149`, `:1400`);
  the models record it in `crashed`. The host of a cover fetch is read from
  `lan_session_`, which may be the next printer's by then (`agent.cpp:392`).
- `Filter::Stop` does not return while the printer is silent
  (`dshow_filter.cpp:1542` with `tls_dial.cpp:303`).
- A tunnel that is opened again keeps `closing` and `mjpg_authed`
  (`BambuSource.cpp:878`); a `Bambu_Close` during StartStream frees the `SSL*` in use
  (`BambuSource.cpp:783`).
- With a silent printer a file-transfer job keeps `lan_mu`, a BRTC print job its
  thread, and a cover fetch its in-flight key, for ever (`tunnel_upload.cpp:94-104`).
- A keepalive answered with 401 is never authenticated again
  (`rtsp_client.cpp:886`); the full queue of samples drops the key frame first
  (`rtsp_passthrough.cpp:154`).
- A cloud print that is cancelled during its upload is ordered all the same
  (`cloud_print.cpp:304`).
- A `new_ver` from a push only fills an empty field (`agent.cpp:480`), and nothing
  empties it. When replies leave `sw_new_ver` out, the offer after the first update is
  never shown: without its fairness of `CompleteReply`, `OfferConverges` is false.
- The cover is taken from the first storage that has a file of that name
  (`tunnel_upload.cpp:919`), not only from `/cache/` as `agent.cpp:357` has it, so that
  of an earlier print may be shown. The cover of a cloud print is kept by its name alone
  (`cover_cache.cpp:133`): its key does not "naturally retire" (`agent.cpp:370`), and a
  reprint is shown the old cover.
- The table of subtasks may evict the entry just made (`agent.cpp:403`); the cover server does
  not recover from a failed accept (`cover_server.cpp:285`).
- A preset listing that does not parse counts as empty, with success
  (`cloud_presets.cpp:286`), and Studio erases what it is not given.
- On Windows the session file does not exist for a moment (`auth.cpp:168`); a login
  whose profile cannot be had keeps the former user's id (`agent.cpp:1202`).
- A listener that died of a receive error is not started again (`ssdp.cpp:321`).
- A certificate file is written in place; one cut short by a crash is accepted for
  good, since only its existence is tested (`cert_store.cpp`). Not modelled.

## 6. Keeping the project

Every invariant of a run has its theorem, so a change of the code that a module
models shows first as a run or a proof that no longer passes. Worth adding, should
the code grow there: a certificate file cut short by a crash (section 5), and the
FTP listing and deletion once the plugin calls them. Liveness stays with TLC.

## 7. Not modelled

Encodings, JSON text, base64 and digests, certificate parsing and the signing of
messages, HTTP request formatting, logging and configuration: no state shared
between steps. HTTP calls whose answer is only handed to Studio (filament,
MakerWorld, ratings, unbinding): one request, one response. FTP listing, reading,
sizes and deletion have no caller in the plugin. Registration of the filter and
image conversion: platform glue and pixel arithmetic. The vendored headers and
the developer tools are not part of the program. The host application, the
printers, the broker, the renderer and libmosquitto are external and modelled
only as far as the code in `src/` relies on them.
