------------------------------ MODULE PrintJob ------------------------------
(***************************************************************************)
(* One print job of the plugin: run_local_print_job, run_sdcard_print_job, *)
(* run_send_gcode_to_sdcard (src/src/print_job.cpp) and                    *)
(* run_cloud_print_job with and without the LAN channel                    *)
(* (src/src/cloud_print.cpp), down to the exchanges of obn::ftps::Client   *)
(* (src/src/ftps.cpp) with the printer's FTP server.                       *)
(*                                                                         *)
(* The job runs on the caller's thread; the printer serves its control     *)
(* connection at its own pace, so a reply may come after the read for it   *)
(* has timed out; Studio may cancel at any time.  A stored file is known   *)
(* by its directory: the file name is the same all along.                  *)
(***************************************************************************)
EXTENDS Integers, Sequences

CONSTANTS
    Chunks,    \* bound: pieces of 64 KiB in the file
    MaxPolls   \* attempts of poll_upload, 20 in the code

ASSUME PrintParameters == {Chunks, MaxPolls} \subseteq Nat \ {0}

VARIABLES
    p,        \* PrintParams, as far as the control flow looks at them
    at,       \* where the job is
    chan,     \* use_lan_channel
    stage,    \* the last stage given to update_fn
    rc,       \* what the call returned
    cancel,   \* "no", or when Studio cancelled: "early", "late"
    polls,    \* attempts of poll_upload so far
    cloud,    \* external: project, uploaded objects, patched url, task mode
    path,     \* stored_path: the directory STOR is given
    cands,    \* adjust_storage_path: the candidates still to be tried
    sent,     \* chunks written to the data connection
    err,      \* what stor() returned
    cmds,     \* external: commands the FTP server has not served yet
    replies,  \* external: reply codes on their way
    data,     \* external: the data connection: "none", "open", "eof"
    dirs,     \* external: directories of the printer
    store,    \* external: what the printer has under each directory
    pub       \* external: the project_file the printer was sent

jobVars   == <<p, at, chan, stage, rc, polls>>
cloudVars == <<cloud>>
ftpVars   == <<path, cands, sent, err, cmds, replies, data, store>>
vars == <<jobVars, cloudVars, ftpVars, cancel, dirs, pub>>

Dirs == {"/sdcard", "/usb", "/"}
NoPub == [chan |-> "none", url |-> "none", file |-> "none"]
NoTask == "none"

(* What Studio asks for: ftp_folder puts the path under /sdcard or /usb,   *)
(* or leaves it at the root; `reach': dev_ip and the access code are given.*)
Params ==
    [kind : {"local", "sdcard", "gcode", "cloud", "record"}, folder : Dirs,
     emmc : BOOLEAN, reach : BOOLEAN, tls : BOOLEAN]

(* The use_lan_channel an entry point passes on.                           *)
Channel(kind) == IF kind = "cloud" THEN "cloud" ELSE "lan"

Init ==
    /\ p \in Params /\ at = "start" /\ chan = Channel(p.kind)
    /\ stage = "none" /\ rc = "none" /\ cancel = "no" /\ polls = 0
    /\ cloud = [project |-> FALSE, config |-> FALSE, main |-> FALSE,
                url |-> "none", task |-> NoTask]
    /\ path = p.folder /\ cands = <<>> /\ sent = 0 /\ err = "none"
    /\ cmds = <<>> /\ replies = <<>> /\ data = "none"
    /\ dirs \in SUBSET Dirs /\ store = [d \in Dirs \cup {"emmc"} |-> "old"]
    /\ pub = NoPub

Return(code) == at' = "done" /\ rc' = code
Report(s) == stage' = s
FailStage(code) == Return(code) /\ Report("ERROR")

(***************************************************************************)
(* The jobs, up to their uploads.                                          *)
(***************************************************************************)

(* Create is reported, then cancel_fn is asked.                            *)
Begin(next) ==
    /\ Report("Create")
    /\ IF cancel # "no" THEN Return("cancelled") ELSE at' = next /\ UNCHANGED rc

(* run_local_print_job, after its look at the parameters.                  *)
StartLocal ==
    /\ at = "start" /\ p.kind = "local"
    /\ \/ FailStage("failed")
       \/ p.reach /\ Begin(IF p.emmc THEN "brtc" ELSE "dial")
    /\ UNCHANGED <<p, chan, polls, cloudVars, ftpVars, cancel, dirs, pub>>

(* run_send_gcode_to_sdcard: over FTP only, and cancel_fn is not asked.    *)
StartGcode ==
    /\ at = "start" /\ p.kind = "gcode"
    /\ \/ FailStage("failed")
       \/ p.reach /\ Report("Create") /\ at' = "dial" /\ UNCHANGED rc
    /\ UNCHANGED <<p, chan, polls, cloudVars, ftpVars, cancel, dirs, pub>>

(* run_cloud_print_job: without a file or a login there is no job.         *)
StartCloud ==
    /\ at = "start" /\ p.kind \in {"cloud", "record"}
    /\ \/ FailStage("failed")
       \/ Begin("project")
    /\ UNCHANGED <<p, chan, polls, cloudVars, ftpVars, cancel, dirs, pub>>

(* run_sdcard_print_job: the file is there already.                        *)
StartSdcard ==
    /\ at = "start" /\ p.kind = "sdcard"
    /\ \/ FailStage("failed")
       \/ cancel # "no" /\ Return("cancelled") /\ UNCHANGED stage
       \/ cancel = "no" /\ at' = "publish" /\ Report("Sending") /\ UNCHANGED rc
    /\ UNCHANGED <<p, chan, polls, cloudVars, ftpVars, cancel, dirs, pub>>

(* http_client's perform: the server did its part and said so, or the call *)
(* failed or timed out and the server may have done it all the same.       *)
Perform(effect) ==
    {[ok |-> TRUE, cloud |-> effect]} \cup {[ok |-> FALSE, cloud |-> c] : c \in {cloud, effect}}

(* A call of run_cloud_print_job; when it fails, fail_stage ends the job.  *)
HttpCall(from, to, effect) ==
    /\ at = from
    /\ \E resp \in Perform(effect) :
        /\ cloud' = resp.cloud
        /\ IF ~resp.ok THEN FailStage("failed")
           ELSE /\ at' = to /\ UNCHANGED rc
                /\ IF from \in {"config", "main"} THEN Report("Upload") ELSE UNCHANGED stage
    /\ UNCHANGED <<p, chan, polls, ftpVars, cancel, dirs, pub>>

CreateProject == HttpCall("project", "config", [cloud EXCEPT !.project = TRUE])

(* slurp_file and s3_put, of the config file and of the file to print.     *)
S3Put ==
    \/ HttpCall("config", "notify", [cloud EXCEPT !.config = TRUE])
    \/ HttpCall("main", "patch2", [cloud EXCEPT !.main = TRUE])

NotifyUpload == HttpCall("notify", "poll", cloud)

(* patch_project, with a placeholder first and the real url in the end.    *)
PatchProject ==
    \/ HttpCall("patch1", "url", [cloud EXCEPT !.url = "placeholder"])
    \/ HttpCall("patch2", "storage", [cloud EXCEPT !.url = "main"])

GetUploadUrl == HttpCall("url", "main", cloud)

(* Mutant: as long as the server has not seen the upload.                  *)
PollUpload_NoLimit ==
    /\ at = "poll"
    /\ \/ cancel # "no" /\ Return("cancelled") /\ UNCHANGED <<stage, polls>>
       \/ cancel = "no" /\ at' = "patch1" /\ UNCHANGED <<stage, rc, polls>>
       \/ cancel = "no" /\ polls' = (polls + 1) % MaxPolls /\ UNCHANGED <<at, stage, rc>>
    /\ UNCHANGED <<p, chan, cloudVars, ftpVars, cancel, dirs, pub>>

(* poll_upload: an attempt, and the next one after 500 ms; being cancelled *)
(* is not reported.                                                        *)
PollUpload ==
    /\ at = "poll"
    /\ IF polls = MaxPolls THEN FailStage("failed") /\ UNCHANGED polls
       ELSE IF cancel # "no" THEN Return("cancelled") /\ UNCHANGED <<stage, polls>>
       ELSE \/ at' = "patch1" /\ UNCHANGED <<stage, rc, polls>>
            \/ polls' = polls + 1 /\ UNCHANGED <<at, stage, rc>>
    /\ UNCHANGED <<p, chan, cloudVars, ftpVars, cancel, dirs, pub>>

(* Step 9/I: the LAN channel also uploads to the printer; without an       *)
(* address it degrades to the cloud channel.                               *)
ChooseStorage ==
    /\ at = "storage"
    /\ chan' = IF p.reach THEN chan ELSE "cloud"
    /\ at' = IF chan' = "cloud" THEN "sending" ELSE IF p.emmc THEN "brtc" ELSE "dial"
    /\ UNCHANGED <<p, stage, rc, polls, cloudVars, ftpVars, cancel, dirs, pub>>

(***************************************************************************)
(* The upload to the printer.                                              *)
(***************************************************************************)

(* tunnel_upload::upload_file (module TunnelWire): the results it can have *)
(* when it returns, which it does only if the printer answers.             *)
UploadFile == {"ok", "failed"} \cup {c \in {"cancelled"} : cancel # "no"}

(* The exchange has ended; a failed upload is returned without a report.   *)
BrtcUpload ==
    /\ at = "brtc" /\ UNCHANGED <<path, cands, sent, err, cmds, replies, data>>
    /\ \E res \in UploadFile :
        IF res = "ok"
        THEN /\ at' = "stored" /\ Report("Upload") /\ UNCHANGED rc
             /\ store' = [store EXCEPT !["emmc"] = "whole"]
        ELSE /\ Return(res) /\ stage' \in {stage, "Upload"}
             /\ store' \in {store, [store EXCEPT !["emmc"] = "partial"]}
    /\ UNCHANGED <<p, chan, polls, cloudVars, cancel, dirs, pub>>

Cmd(c) == cmds' = Append(cmds, c)

(* read_reply: the next reply, or -1 when none came in time.               *)
Got(code) ==
    \/ code = -1 /\ UNCHANGED replies
    \/ replies # <<>> /\ code = Head(replies) /\ replies' = Tail(replies)

Codes == {-1, 150, 200, 220, 226, 227, 230, 250, 331, 426, 451, 550}

(* ftp_upload: no such file, or a file over 1 GB.                          *)
FileRejected == at = "dial" /\ FailStage("failed") /\ UNCHANGED cmds

(* connect_tcp: whether one of the addresses of the host answers in time.  *)
ConnectTcp == BOOLEAN

(* connect_transport: no connection, or one whose banner is awaited.       *)
Dial ==
    /\ UNCHANGED <<path, cands, sent, err, data, store, replies>>
    /\ \/ FileRejected
       \/ \E connected \in ConnectTcp :
            /\ at = "dial"
            /\ IF connected THEN at' = "banner" /\ Cmd("banner") /\ UNCHANGED <<stage, rc>>
               ELSE FailStage("failed") /\ UNCHANGED cmds
    /\ UNCHANGED <<p, chan, polls, cloudVars, cancel, dirs, pub>>

(* login(): what follows a reply.                                          *)
Login(cmd, code) ==
    CASE cmd = "banner" /\ code = 220 -> "USER"
      [] cmd = "USER" /\ code = 331   -> "PASS"
      [] cmd = "USER" /\ code = 230   -> "TYPE"
      [] cmd = "PASS" /\ code = 230   -> "TYPE"
      [] cmd = "TYPE" /\ code = 200   -> IF p.tls THEN "PBSZ" ELSE "ready"
      [] cmd = "PBSZ" /\ code = 200   -> "PROT"
      [] cmd = "PROT" /\ code = 200   -> "ready"
      [] OTHER -> "rejected"

LoginReply ==
    /\ at \in {"banner", "USER", "PASS", "TYPE", "PBSZ", "PROT"}
    /\ UNCHANGED <<path, cands, sent, err, data, store>>
    /\ \E code \in Codes :
        /\ Got(code)
        /\ LET next == Login(at, code) IN
           CASE next = "rejected" -> FailStage("failed") /\ UNCHANGED cmds
             [] next = "ready" -> at' = "probe" /\ UNCHANGED <<cmds, stage, rc>>
             [] OTHER -> at' = next /\ Cmd(next) /\ UNCHANGED <<stage, rc>>
    /\ UNCHANGED <<p, chan, polls, cloudVars, cancel, dirs, pub>>

(* The start of stor(): the file is opened, then PASV.                     *)
BeginStor ==
    \/ at' = "PASV" /\ Cmd("PASV") /\ UNCHANGED err
    \/ at' = "quit" /\ err' = "failed" /\ UNCHANGED cmds

(* adjust_storage_path: the folder asked for, its sibling, the root; a     *)
(* path under neither is taken as it is.                                   *)
Candidates(folder) ==
    CASE folder = "/sdcard" -> <<"/sdcard", "/usb", "/">>
      [] folder = "/usb"    -> <<"/usb", "/sdcard", "/">>
      [] OTHER -> <<>>

Probe ==
    /\ at = "probe" /\ cands' = Candidates(p.folder)
    /\ IF cands' = <<>> THEN BeginStor ELSE at' = "CWD" /\ Cmd(Head(cands')) /\ UNCHANGED err
    /\ UNCHANGED <<p, chan, stage, rc, polls, cloudVars, path, sent, replies, data, store,
                   cancel, dirs, pub>>

(* cwd(): the first one that is accepted is the place.                     *)
ProbeReply ==
    /\ at = "CWD"
    /\ \E code \in Codes :
        /\ Got(code)
        /\ CASE code \in {200, 250} -> path' = Head(cands) /\ cands' = <<>> /\ BeginStor
             [] code \notin {200, 250} /\ Len(cands) = 1 -> UNCHANGED path /\ cands' = <<>> /\ BeginStor
             [] OTHER -> /\ cands' = Tail(cands) /\ Cmd(cands[2])
                         /\ UNCHANGED <<at, path, err>>
    /\ UNCHANGED <<p, chan, stage, rc, polls, cloudVars, sent, data, store, cancel, dirs, pub>>

(* open_data_tcp: 227 and a connection, then STOR.                         *)
PasvReply ==
    /\ at = "PASV"
    /\ \E code \in Codes :
        /\ Got(code)
        /\ \/ code = 227 /\ at' = "STOR" /\ Cmd("STOR") /\ data' = "open" /\ UNCHANGED err
           \/ at' = "quit" /\ err' = "failed" /\ UNCHANGED <<cmds, data>>
    /\ UNCHANGED <<p, chan, stage, rc, polls, cloudVars, path, cands, sent, store, cancel, dirs, pub>>

(* wrap_data_tls: the handshake on the data connection may fail.           *)
DataTls == {TRUE} \cup IF p.tls THEN {FALSE} ELSE {}

(* 150, then the handshake.                                                *)
StorReply ==
    /\ at = "STOR"
    /\ \E code \in Codes, secured \in DataTls :
        /\ Got(code)
        /\ IF code = 150 /\ secured THEN at' = "chunks" /\ UNCHANGED <<err, data>>
           ELSE at' = "quit" /\ err' = "failed" /\ data' = "eof"
    /\ UNCHANGED <<p, chan, stage, rc, polls, cloudVars, path, cands, sent, cmds, store,
                   cancel, dirs, pub>>

(* One chunk.  progress runs when the percentage changes, at the last      *)
(* chunk in any case, and asks cancel_fn.                                  *)
StorChunk ==
    /\ at = "chunks" /\ sent < Chunks
    /\ \/ at' = "quit" /\ err' = "failed" /\ data' = "eof" /\ UNCHANGED <<sent, stage>>
       \/ /\ sent' = sent + 1
          /\ \/ cancel = "no" /\ Report("Upload") /\ UNCHANGED <<at, err, data>>
             \/ /\ cancel # "no" /\ UNCHANGED stage
                /\ at' = "quit" /\ err' = "cancelled" /\ data' = "eof"
             \/ sent' < Chunks /\ UNCHANGED <<at, stage, err, data>>
    /\ UNCHANGED <<p, chan, rc, polls, cloudVars, path, cands, cmds, replies, store, cancel, dirs, pub>>

(* The data connection is closed before the final reply is read.           *)
StorEnds ==
    /\ at = "chunks" /\ sent = Chunks /\ at' = "final" /\ data' = "eof"
    /\ UNCHANGED <<p, chan, stage, rc, polls, cloudVars, path, cands, sent, err, cmds, replies,
                   store, cancel, dirs, pub>>

(* Mutant: a final reply that does not come in time counts as success.     *)
FinalReply_TimeoutOk ==
    /\ at = "final" /\ at' = "quit"
    /\ \E code \in Codes : Got(code) /\ err' = IF code \in {-1, 226, 250} THEN "none" ELSE "failed"
    /\ UNCHANGED <<p, chan, stage, rc, polls, cloudVars, path, cands, sent, cmds, data, store,
                   cancel, dirs, pub>>

FinalReply ==
    /\ at = "final" /\ at' = "quit"
    /\ \E code \in Codes : Got(code) /\ err' = IF code \in {226, 250} THEN "none" ELSE "failed"
    /\ UNCHANGED <<p, chan, stage, rc, polls, cloudVars, path, cands, sent, cmds, data, store,
                   cancel, dirs, pub>>

(* The end of ftp_upload.                                                  *)
UploadVerdict ==
    IF err = "none" THEN at' = "stored" /\ UNCHANGED <<stage, rc>> ELSE FailStage(err)

(* quit(): QUIT and one reply, whichever it is.                            *)
Quit ==
    /\ at = "quit" /\ Cmd("QUIT") /\ \E code \in Codes : Got(code)
    /\ UploadVerdict
    /\ UNCHANGED <<p, chan, polls, cloudVars, path, cands, sent, err, data, store, cancel, dirs, pub>>

(***************************************************************************)
(* From the upload to the printer's order.                                 *)
(***************************************************************************)

(* Mutant: cancel_fn is not asked again.                                   *)
AfterUpload_NoCheck ==
    /\ at = "stored"
    /\ IF p.kind = "gcode" THEN Return("ok") /\ Report("Finished")
       ELSE /\ at' = IF p.kind = "local" THEN "publish" ELSE "sending"
            /\ UNCHANGED rc /\ IF p.kind = "local" THEN Report("Sending") ELSE UNCHANGED stage
    /\ UNCHANGED <<p, chan, polls, cloudVars, ftpVars, cancel, dirs, pub>>

(* run_send_gcode_to_sdcard is done; run_local_print_job asks cancel_fn    *)
(* once more; run_cloud_print_job goes on.                                 *)
AfterUpload ==
    /\ at = "stored"
    /\ CASE p.kind = "gcode" -> Return("ok") /\ Report("Finished")
         [] p.kind = "local" ->
              IF cancel # "no" THEN FailStage("cancelled")
              ELSE at' = "publish" /\ Report("Sending") /\ UNCHANGED rc
         [] OTHER -> at' = "sending" /\ UNCHANGED <<stage, rc>>
    /\ UNCHANGED <<p, chan, polls, cloudVars, ftpVars, cancel, dirs, pub>>

(* build_task_body: mode is lan_file or cloud_file.                        *)
TaskMode == chan

(* create_task: a refusal is passed over with task_id 0, an unreadable     *)
(* answer is not.                                                          *)
CreateTask ==
    /\ at = "sending"
    /\ \/ at' = "publish" /\ Report("Sending") /\ UNCHANGED rc
          /\ cloud' \in {cloud, [cloud EXCEPT !.task = TaskMode]}
       \/ FailStage("failed") /\ cloud' = [cloud EXCEPT !.task = TaskMode]
    /\ UNCHANGED <<p, chan, polls, ftpVars, cancel, dirs, pub>>

(* The name the file has in project_file.                                  *)
FilePath ==
    IF p.kind = "sdcard" THEN "dst_file"
    ELSE IF p.emmc \/ chan = "cloud" THEN "remote_name" ELSE path

(* Its url: build_brtc_emmc_url, build_ftp_url, build_file_url or the      *)
(* presigned url.                                                          *)
Url ==
    IF p.kind = "sdcard" THEN "file"
    ELSE IF chan = "cloud" THEN "oss"
    ELSE IF p.emmc THEN "emmc" ELSE path

(* build_project_file_json.                                                *)
ProjectFile == [chan |-> chan, file |-> FilePath, url |-> Url]

(* send_message_to_printer or cloud_send_message.                          *)
Publish ==
    /\ at = "publish"
    /\ \/ pub' = ProjectFile /\ Return("ok") /\ Report("Finished")
       \/ FailStage("failed") /\ UNCHANGED pub
    /\ UNCHANGED <<p, chan, polls, cloudVars, ftpVars, cancel, dirs>>

JobStep ==
    \/ StartLocal \/ StartGcode \/ StartCloud \/ StartSdcard
    \/ CreateProject \/ S3Put \/ NotifyUpload \/ PollUpload \/ PatchProject \/ GetUploadUrl
    \/ ChooseStorage \/ BrtcUpload \/ Dial \/ LoginReply \/ Probe \/ ProbeReply \/ PasvReply \/ StorReply
    \/ StorChunk \/ StorEnds \/ FinalReply \/ Quit \/ AfterUpload \/ CreateTask \/ Publish

(***************************************************************************)
(* Studio and the printer (external).                                      *)
(***************************************************************************)

(* Studio's cancel flag; "early" until the file has been stored.           *)
Cancel ==
    /\ cancel = "no" /\ at # "done"
    /\ cancel' = IF at \in {"sending", "publish"} THEN "late" ELSE "early"
    /\ UNCHANGED <<jobVars, cloudVars, ftpVars, dirs, pub>>

ReplyTo(c) ==
    CASE c = "banner" -> {220} [] c = "USER" -> {331, 230} [] c = "PASS" -> {230, 550}
      [] c \in {"TYPE", "PBSZ", "PROT"} -> {200}
      [] c \in Dirs -> {IF c \in dirs THEN 250 ELSE 550}
      [] c = "PASV" -> {227, 550}
      [] c = "STOR" -> IF path \in dirs THEN {150, 550} ELSE {550}
      [] OTHER -> {226}

(* A command is served; STOR truncates what was there and reads data.      *)
PrinterServes ==
    /\ cmds # <<>> /\ Head(cmds) # "storing"
    /\ \E code \in ReplyTo(Head(cmds)) :
        /\ replies' = Append(replies, code)
        /\ cmds' = (IF code = 150 THEN <<"storing">> ELSE <<>>) \o Tail(cmds)
        /\ store' = IF code = 150 THEN [store EXCEPT ![path] = "partial"] ELSE store
    /\ UNCHANGED <<jobVars, cloudVars, path, cands, sent, err, data, cancel, dirs, pub>>

(* The data connection has ended: all of it, or what there is of it.  A    *)
(* close_notify ends a file as well as its last byte does.                 *)
PrinterStored ==
    /\ cmds # <<>> /\ Head(cmds) = "storing" /\ data = "eof" /\ cmds' = Tail(cmds)
    /\ \/ /\ store' = [store EXCEPT ![path] = IF sent = Chunks THEN "whole" ELSE "partial"]
          /\ replies' = Append(replies, 226)
       \/ \E code \in {426, 451} : replies' = Append(replies, code) /\ UNCHANGED store
    /\ UNCHANGED <<jobVars, cloudVars, path, cands, sent, err, data, cancel, dirs, pub>>

Next == JobStep \/ Cancel \/ PrinterServes \/ PrinterStored

Spec == Init /\ [][Next]_vars

(* The job's thread moves on: its FTP, HTTP and MQTT calls have time-outs. *)
(* The upload over the port-6000 tunnel has none: it waits for the         *)
(* printer's messages without a deadline and without looking at the cancel *)
(* flag (tunnel_upload.cpp:99-104, 494 and 619; a time-out of the socket   *)
(* only makes them try again), so nothing is assumed of it.                *)
FairSpec == Spec /\ WF_vars(at # "brtc" /\ JobStep)

(***************************************************************************)
(* Properties.                                                             *)
(***************************************************************************)

(* The printer is ordered to print what an upload of this job has put,     *)
(* whole, where the order says - although the place was chosen by replies  *)
(* that may be answers to earlier, timed-out questions, and although the   *)
(* LAN channel may have been given up.  The task record names the same     *)
(* channel.                                                                *)
OrderedIsStored ==
    pub # NoPub /\ p.kind # "sdcard" =>
        /\ IF pub.chan = "cloud" THEN cloud.main /\ cloud.url = "main"
           ELSE store[pub.url] = "whole" /\ (pub.url # "emmc" => pub.file = pub.url)
        /\ cloud.task \in {NoTask, pub.chan}

(* A local print that is cancelled before its file is stored on the        *)
(* printer is not printed, also when no progress call noticed it; and no   *)
(* job that told Studio of a failure or a cancellation prints.             *)
CancelledNotPrinted ==
    /\ p.kind = "local" /\ cancel = "early" => pub = NoPub
    /\ rc \in {"failed", "cancelled"} => pub = NoPub /\ stage # "Finished"

(* A job returns, whatever the printer and the cloud leave unanswered, or  *)
(* it stays for ever in one place: the upload over the port-6000 tunnel,   *)
(* which only a printer that answers or goes away brings to an end.        *)
JobEnds == <>(at = "done") \/ <>[](at = "brtc")
=============================================================================
