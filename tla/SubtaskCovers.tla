--------------------------- MODULE SubtaskCovers ----------------------------
(***************************************************************************)
(* The print covers: Agent::notify_local_message and                       *)
(* lookup_synthetic_subtask (src/src/agent.cpp), the cache of PNG files    *)
(* (src/src/cover_cache.cpp), the HTTP server on the loopback interface    *)
(* (src/src/cover_server.cpp) and bambu_network_get_subtask_info           *)
(* (src/src/abi_http.cpp).  The firmware record, which the same reports    *)
(* feed, is in FirmwareRecord.                                             *)
(*                                                                         *)
(* The MQTT thread handles reports, detached workers fetch covers from the *)
(* printer by the NAME of the print, and Studio asks for a cover once per  *)
(* subtask id.  Prints are numbered; a file's content is the number of the *)
(* print it was made for.  The 32-bit hashes are taken as injective, and   *)
(* the printer's clock as one that does not go back.                       *)
(***************************************************************************)
EXTENDS Integers, Sequences, FiniteSets, FiniteSetsExt

CONSTANTS
    Names,       \* names of prints
    MaxPrints,   \* bound: prints
    MaxWire,     \* bound: reports on their way
    Storages,    \* storages of a printer, 3 in the code
    Cap          \* entries of synthetic_subtasks_, 16 in the code

ASSUME CoverParameters ==
    /\ Names # {} /\ {MaxPrints, MaxWire, Storages, Cap} \subseteq Nat \ {0}

VARIABLES
    rank,      \* the order of the subtask ids, which are hashes
    prints,    \* external: the printer's prints: name, kind, place of the file
    wire,      \* external: reports on their way, each of a print
    session,   \* lan_session_ is set
    mq,        \* the report in the hands of the MQTT thread, or <<>>
    subtasks,  \* synthetic_subtasks_: the prints with an entry
    server,    \* cover_server_: "none", "up", or "broken" after a failed accept
    cache,     \* the PNG files: path -> content, 0 for none
    gInflight, \* g_inflight
    workers,   \* fetch_worker threads: key, position, content
    studio     \* external: last print seen, url at hand, cover shown

coverVars == <<subtasks, server, cache, gInflight, workers>>
allVars == <<rank, prints, wire, session, mq, coverVars, studio>>

Prints == 1..MaxPrints
PrintNos == 1..Len(prints)
Nothing == <<>>

(* Where a file may be: a storage, and a folder of it, /cache/ or another. *)
Places == (1..Storages) \X {"cache", "other"}

(* path_for: the name and the version; a cloud print has no version.       *)
Paths == Names \X (0..MaxPrints)

CoverInit ==
    /\ rank \in {f \in [Prints -> Prints] : \A i, j \in Prints : f[i] = f[j] => i = j}
    /\ prints = <<>> /\ wire = <<>> /\ session \in BOOLEAN /\ mq = Nothing
    /\ subtasks = {} /\ server = "none" /\ cache = [k \in Paths |-> 0]
    /\ gInflight = {} /\ workers = {}
    /\ studio = [print |-> 0, url |-> Nothing, shown |-> 0]

PrintNo(i) == prints[i]

(* Mutant: covers are kept by name alone.                                  *)
Version_None(i) == 0

(* The version of a report: the printer's task_id, which no later print    *)
(* has; a print with a subtask id of the cloud is given none.              *)
Version(i) == IF PrintNo(i).kind = "lan" THEN i ELSE 0

(* path_for.                                                               *)
PathFor(i) == <<PrintNo(i).name, Version(i)>>

(***************************************************************************)
(* notify_local_message.                                                   *)
(***************************************************************************)

(* The entry is made, then the smallest ids go, whichever they are.        *)
Record(i) ==
    LET all == subtasks \cup {i} IN
    IF Cardinality(all) <= Cap THEN all
    ELSE all \ {CHOOSE j \in all : \A k \in all : rank[j] <= rank[k]}

(* cover_server::Server::start may fail; the next report tries again.      *)
StartServer == IF server = "none" THEN {"none", "up"} ELSE {server}

(* A report of a print, as far as mu_ is held.                             *)
NotifyRecord ==
    /\ mq = Nothing /\ wire # <<>> /\ wire' = Tail(wire)
    /\ LET i == Head(wire) IN
       /\ mq' = <<[print |-> i, host |-> session]>>
       /\ subtasks' = Record(i) /\ server' \in StartServer
    /\ UNCHANGED <<rank, prints, session, cache, gInflight, workers, studio>>

(* cover_cache::ensure: a cover that is there, or being fetched, is not    *)
(* fetched again.                                                          *)
Ensure(i) ==
    IF cache[PathFor(i)] # 0 \/ PathFor(i) \in gInflight
    THEN UNCHANGED <<gInflight, workers>>
    ELSE /\ gInflight' = gInflight \cup {PathFor(i)}
         /\ workers' = workers \cup {[key |-> PathFor(i), at |-> "connect", got |-> 0]}

(* The rest of the report: ensure, then on_local_message_; Studio looks at *)
(* the cover of a subtask id it has not seen.                              *)
NotifyDeliver ==
    /\ mq # Nothing /\ mq' = Nothing
    /\ LET i == mq[1].print IN
       /\ IF mq[1].host THEN Ensure(i) ELSE UNCHANGED <<gInflight, workers>>
       /\ studio' = IF studio.print = i THEN studio
                    ELSE [print |-> i, url |-> Nothing, shown |-> 0]
    /\ UNCHANGED <<rank, prints, wire, session, subtasks, server, cache>>

(***************************************************************************)
(* fetch_worker.                                                           *)
(***************************************************************************)

(* Mutant: a failed fetch leaves its key behind.                           *)
Leave_KeyStays(w) == workers' = workers \ {w} /\ UNCHANGED gInflight

(* ScopeRelease: the key is released however the worker ends.              *)
Leave(w) == workers' = workers \ {w} /\ gInflight' = gInflight \ {w.key}

(* Connection::connect: the dial and the handshake have time-outs.         *)
WorkerConnect(w) ==
    /\ w.at = "connect" /\ workers' = (workers \ {w}) \cup {[w EXCEPT !.at = "fetch"]}
    /\ UNCHANGED <<rank, prints, wire, session, mq, subtasks, server, cache, gInflight, studio>>

(* find_model_entry and the loop over the storages: a file in an earlier   *)
(* storage is taken, of two in one storage the one in /cache/, of two in   *)
(* one place the newer.                                                    *)
Preferred(i, j) ==
    LET a == PrintNo(i).place  b == PrintNo(j).place IN
    \/ a[1] < b[1]
    \/ a[1] = b[1] /\ a[2] = "cache" /\ b[2] # "cache"
    \/ a = b /\ i > j

(* fetch_model_tile_thumbnail: the picture in the file found under the     *)
(* name; a storage whose LIST_INFO fails is passed over.                   *)
FetchThumbnail(n, listed) ==
    LET files == {i \in PrintNos : PrintNo(i).name = n /\ PrintNo(i).place[1] \in listed} IN
    {i \in files : \A j \in files \ {i} : Preferred(i, j)}

(* The fetch, by the name of the print.  Its receive loops have no time-   *)
(* out (tunnel_upload.cpp:94-104), so it ends when the printer answers, or *)
(* the connection breaks.                                                  *)
WorkerFetch(w) ==
    /\ w.at = "fetch"
    /\ \E listed \in SUBSET (1..Storages) : \E p \in FetchThumbnail(w.key[1], listed) :
        workers' = (workers \ {w}) \cup {[w EXCEPT !.at = "rename", !.got = p]}
    /\ UNCHANGED <<rank, prints, wire, session, mq, subtasks, server, cache, gInflight, studio>>

(* No connection, no thumbnail, no room for the temporary file.            *)
WorkerFails(w) ==
    /\ Leave(w)
    /\ UNCHANGED <<rank, prints, wire, session, mq, subtasks, server, cache, studio>>

(* write_atomic: the temporary file becomes the cover.                     *)
WorkerRename(w) ==
    /\ w.at = "rename" /\ cache' = [cache EXCEPT ![w.key] = w.got] /\ Leave(w)
    /\ UNCHANGED <<rank, prints, wire, session, mq, subtasks, server, studio>>

WorkerStep(w) == WorkerConnect(w) \/ WorkerFetch(w) \/ WorkerFails(w) \/ WorkerRename(w)

(***************************************************************************)
(* Studio's requests.                                                      *)
(***************************************************************************)

(* lookup_synthetic_subtask.                                               *)
Lookup(i) == IF i \in subtasks /\ server # "none" THEN PathFor(i) ELSE Nothing

(* bambu_network_get_subtask_info: without an entry or a url the answer is *)
(* empty.                                                                  *)
GetSubtaskInfo ==
    /\ studio.print # 0 /\ studio.url = Nothing
    /\ studio' = [studio EXCEPT !.url = Lookup(studio.print)]
    /\ UNCHANGED <<rank, prints, wire, session, mq, coverVars>>

(* accept_loop ends for good on an error; running_ stays set.              *)
AcceptBreaks ==
    /\ server = "up" /\ server' = "broken"
    /\ UNCHANGED <<rank, prints, wire, session, mq, subtasks, cache, gInflight, workers, studio>>

(* handle_one: the file has come within 15 s and is sent; otherwise 503,   *)
(* and the user may click for another try.                                 *)
HandleOne ==
    /\ server = "up" /\ studio.url # Nothing /\ cache[studio.url] # 0
    /\ studio.shown = 0 /\ studio' = [studio EXCEPT !.shown = cache[studio.url]]
    /\ UNCHANGED <<rank, prints, wire, session, mq, coverVars>>

(***************************************************************************)
(* The printer and the LAN session (external).                             *)
(***************************************************************************)

(* A file is put on the printer, and its print starts.                     *)
StartPrint ==
    /\ Len(prints) < MaxPrints
    /\ \E n \in Names, kind \in {"lan", "cloud"}, place \in Places :
        prints' = Append(prints, [name |-> n, kind |-> kind, place |-> place])
    /\ UNCHANGED <<rank, wire, session, mq, coverVars, studio>>

SendReport ==
    /\ Len(wire) < MaxWire /\ prints # <<>> /\ wire' = Append(wire, Len(prints))
    /\ UNCHANGED <<rank, prints, session, mq, coverVars, studio>>

SessionUp ==
    /\ ~session /\ session' = TRUE
    /\ UNCHANGED <<rank, prints, wire, mq, coverVars, studio>>

NotifyReport == NotifyRecord \/ NotifyDeliver
Worker == \E w \in workers : WorkerStep(w)

CoverNext ==
    \/ NotifyReport \/ Worker \/ GetSubtaskInfo \/ AcceptBreaks \/ HandleOne
    \/ StartPrint \/ SendReport \/ SessionUp

CoverSpec == CoverInit /\ [][CoverNext]_allVars

(* The MQTT thread runs; the session comes up; a printing printer keeps    *)
(* reporting.  And, the assumption about the printer: of fetches that are  *)
(* tried again and again one finds it reachable, ANSWERING, and room on    *)
(* the disk.  One that accepts the connection and then stays silent keeps  *)
(* the worker, and its key in g_inflight, for ever.                        *)
CoverFairness ==
    /\ WF_allVars(NotifyReport) /\ WF_allVars(SessionUp) /\ SF_allVars(SendReport)
    /\ SF_allVars(\E w \in workers : WorkerConnect(w))
    /\ SF_allVars(\E w \in workers : WorkerFetch(w))
    /\ SF_allVars(\E w \in workers : WorkerRename(w))

CoverAnsweringSpec == CoverSpec /\ CoverFairness

(***************************************************************************)
(* Properties.                                                             *)
(***************************************************************************)

(* Studio shows a cover for its print, a LAN print.                        *)
ShownForLan ==
    studio.print # 0 /\ studio.shown # 0 /\ PrintNo(studio.print).kind = "lan"

SamePlace == PrintNo(studio.shown).place = PrintNo(studio.print).place

(* When a file is uploaded over, or beside, an earlier one of its name in  *)
(* the same place, a LAN print of it is never shown the cover of the       *)
(* earlier one, though covers are fetched by name, late, and kept on disk  *)
(* for good (agent.cpp:313-316).  Of files in different places the one     *)
(* that is searched for first is shown, and a cloud print, whose covers    *)
(* have no version, may be shown an earlier one.                           *)
CoverNotOlder == ShownForLan /\ SamePlace => studio.shown >= studio.print

(* A fetch that failed is tried again with the next report: the cover of   *)
(* the print that goes on is there in the end.                             *)
CoverFetched ==
    <>[](prints # <<>> => cache[PathFor(Len(prints))] # 0)
=============================================================================
