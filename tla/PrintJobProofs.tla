--------------------------- MODULE PrintJobProofs ---------------------------
(***************************************************************************)
(* Proofs about module PrintJob, for a file of any length and any number   *)
(* of attempts to poll.                                                    *)
(***************************************************************************)
EXTENDS PrintJob, SequenceTheorems, TLAPS

(***************************************************************************)
(* The inductive invariant.                                                *)
(***************************************************************************)
CloudAts == {"project", "config", "notify", "poll", "patch1", "url", "main", "patch2",
             "storage", "sending"}
LoginAts == {"banner", "USER", "PASS", "TYPE", "PBSZ", "PROT"}
FtpAts == {"dial", "probe", "CWD", "PASV", "STOR", "chunks", "final", "quit"} \cup LoginAts
Ats == CloudAts \cup FtpAts \cup {"start", "brtc", "stored", "publish", "done"}

CloudType == [project : BOOLEAN, config : BOOLEAN, main : BOOLEAN,
              url : {"none", "placeholder", "main"}, task : {NoTask, "lan", "cloud"}]

JobType ==
    /\ p \in Params /\ at \in Ats /\ chan \in {"lan", "cloud"} /\ cloud \in CloudType
    /\ cancel \in {"no", "early", "late"} /\ err \in {"none", "failed", "cancelled"}
    /\ path \in Dirs /\ cands \in Seq(Dirs) /\ (at = "CWD" => cands # <<>>)

(* Which job, over which channel, comes to which place.                    *)
Places ==
    /\ p.kind \in {"local", "gcode", "sdcard"} => chan = "lan"
    /\ at \in CloudAts => p.kind \in {"cloud", "record"}
    /\ at \in FtpAts \cup {"brtc", "stored"} => chan = "lan" /\ p.kind # "sdcard"
    /\ at \in FtpAts /\ p.emmc => p.kind = "gcode"
    /\ at = "brtc" => p.emmc
    /\ at = "publish" => p.kind # "gcode"

(* The one return of the job, and what it reports.                         *)
Returned ==
    /\ at = "done" <=> rc # "none"
    /\ rc # "ok" => stage # "Finished" /\ pub = NoPub
    /\ pub # NoPub => pub = ProjectFile /\ p.kind # "gcode"

(* A local print is not sent after an early cancellation.                  *)
EarlyStops == p.kind = "local" /\ cancel = "early" => at # "publish" /\ pub = NoPub

(* The cloud has the file, under its final url, before anything else is    *)
(* done with it; the task record names the channel.                        *)
InCloud ==
    /\ at = "patch2" => cloud.main
    /\ /\ p.kind \in {"cloud", "record"}
       /\ at \in FtpAts \cup {"storage", "sending", "brtc", "stored", "publish"} \/ pub # NoPub
       => cloud.main /\ cloud.url = "main"
    /\ cloud.task # NoTask => cloud.task = chan /\ at \in {"publish", "done"}

FlowInv == JobType /\ Places /\ Returned /\ EarlyStops /\ InCloud

(***************************************************************************)
(* The control connection: what may be outstanding on it when the job is   *)
(* at a place.  A probe that timed out leaves its reply behind, so CWD and *)
(* PASV may have to read the replies to earlier probes first; whoever is   *)
(* past PASV has read them all.                                            *)
(***************************************************************************)
InLogin == \/ cmds = <<at>> /\ replies = <<>>
           \/ cmds = <<>> /\ Len(replies) = 1
InProbe == cmds \in Seq(Dirs) /\ replies \in Seq({250, 550})
InPasv ==
    /\ \A i \in 1..Len(cmds) : cmds[i] \in Dirs \/ (cmds[i] = "PASV" /\ i = Len(cmds))
    /\ \A i \in 1..Len(replies) : replies[i] # 227 \/ (i = Len(replies) /\ cmds = <<>>)
InStor == /\ data = "open"
          /\ \/ cmds = <<"STOR">> /\ replies = <<>>
             \/ cmds = <<"storing">> /\ replies = <<150>>
             \/ cmds = <<>> /\ replies = <<550>>
InChunks == data = "open" /\ cmds = <<"storing">> /\ replies = <<>>
InFinal ==
    /\ sent = Chunks
    /\ \/ cmds = <<"storing">> /\ replies = <<>>
       \/ cmds = <<>> /\ replies = <<226>> /\ store[path] = "whole"
       \/ cmds = <<>> /\ replies \in {<<426>>, <<451>>}

(* The file is where the order will say it is, and no command that would   *)
(* change it is left.                                                      *)
Placed == IF p.emmc THEN cmds = <<>> /\ store["emmc"] = "whole"
          ELSE cmds \in {<<>>, <<"QUIT">>} /\ store[path] = "whole"

Before == (CloudAts \ {"sending"}) \cup {"start", "brtc", "dial", "probe"}

Commands == LoginAts \cup Dirs \cup {"PASV", "STOR", "storing", "QUIT"}

WireType == /\ cmds \in Seq(Commands) /\ replies \in Seq(Int) /\ sent \in Nat
            /\ store \in [Dirs \cup {"emmc"} -> {"old", "partial", "whole"}]

WireInv ==
    /\ WireType
    /\ at \in Before => cmds = <<>> /\ replies = <<>>
    /\ at \in LoginAts => InLogin
    /\ at = "CWD" => InProbe
    /\ at = "PASV" => InPasv
    /\ at = "STOR" => InStor
    /\ at = "chunks" => InChunks
    /\ at = "final" => InFinal
    /\ at = "quit" /\ err = "none" => cmds = <<>> /\ store[path] = "whole"
    /\ /\ at \in {"stored", "sending", "publish"} \/ pub # NoPub
       /\ p.kind \notin {"sdcard", "gcode"} /\ chan = "lan"
       => Placed

IInv == FlowInv /\ WireInv

USE DEF NoTask

(***************************************************************************)
(* Steps of the job that end it or move it on.                             *)
(***************************************************************************)

(* A job that gives up has not printed.                                    *)
LEMMA FlowFails ==
  ASSUME FlowInv, at # "done", at' = "done", rc' \in {"failed", "cancelled"}, stage' # "Finished",
         UNCHANGED <<p, chan, pub, cancel>>, err' \in {"none", "failed", "cancelled"},
         path' \in Dirs, cands' \in Seq(Dirs), cloud' \in CloudType, cloud'.task \in {NoTask, chan}
  PROVE  FlowInv' /\ pub' = NoPub
<1>1. pub = NoPub
  BY DEF FlowInv, Returned
<1> QED
  BY <1>1 DEF FlowInv, JobType, Places, Returned, EarlyStops, InCloud, Ats, FtpAts, CloudAts, LoginAts

(* A step from place to place prints nothing.                              *)
LEMMA FlowMoves ==
  ASSUME FlowInv, at # "done", at' \in Ats \ {"done"}, UNCHANGED <<p, pub, cancel, rc>>,
         chan' \in {"lan", "cloud"}, stage' # "Finished", err' \in {"none", "failed", "cancelled"},
         path' \in Dirs, cands' \in Seq(Dirs), at' = "CWD" => cands' # <<>>,
         cloud' \in CloudType, Places', InCloud',
         p.kind = "local" /\ cancel = "early" => at' # "publish"
  PROVE  FlowInv'
<1>1. pub = NoPub /\ rc = "none"
  BY DEF FlowInv, Returned
<1> QED
  BY <1>1 DEF FlowInv, JobType, Returned, EarlyStops

(* So does a step inside the upload over FTP.                              *)
LEMMA FlowFtp ==
  ASSUME FlowInv, at \in FtpAts, at' \in FtpAts \cup {"stored"}, UNCHANGED <<p, chan, pub, cancel, rc, cloud>>,
         stage' \in {stage, "Upload"}, err' \in {"none", "failed", "cancelled"},
         path' \in Dirs, cands' \in Seq(Dirs), at' = "CWD" => cands' # <<>>
  PROVE  FlowInv'
<1>1. at # "done" /\ at' \in Ats \ {"done"} /\ at' # "publish" /\ stage' # "Finished"
  BY DEF FtpAts, LoginAts, Ats, FlowInv, Returned
<1>2. Places'
  BY DEF FlowInv, Places, FtpAts, LoginAts, CloudAts
<1>3. InCloud'
  BY DEF FlowInv, InCloud, Returned, FtpAts, LoginAts
<1> QED
  BY <1>1, <1>2, <1>3, FlowMoves DEF FlowInv, JobType

(* Nothing is claimed of the control connection of a job that gave up.     *)
LEMMA WireFails ==
  ASSUME WireType', at' = "done", pub' = NoPub
  PROVE  WireInv'
  BY DEF WireInv, Before, CloudAts, LoginAts

(* Before the FTP dialogue nothing is outstanding.                         *)
LEMMA WireBefore ==
  ASSUME WireInv, at \in Before, at' \in Before, UNCHANGED <<cmds, replies, sent, store>>,
         pub' = NoPub
  PROVE  WireInv'
  BY DEF WireInv, WireType, Before, CloudAts, LoginAts

(***************************************************************************)
(* The jobs, up to their uploads.                                          *)
(***************************************************************************)

(* The start of each job.                                                  *)
LEMMA StartInv ==
  ASSUME IInv, StartLocal \/ StartGcode \/ StartCloud \/ StartSdcard
  PROVE  IInv'
<1> USE DEF IInv
<1>1. /\ at = "start" /\ pub = NoPub /\ rc = "none" /\ stage # "Finished"
      /\ UNCHANGED <<p, chan, cloud, path, cands, sent, err, cmds, replies, data, store, cancel, pub>>
  BY DEF StartLocal, StartGcode, StartCloud, StartSdcard, FlowInv, Returned, cloudVars, ftpVars
<1>2. JobType /\ Places /\ InCloud
  BY DEF FlowInv
<1>3. CASE at' = "done"
  <2>1. rc' \in {"failed", "cancelled"} /\ stage' # "Finished"
    BY <1>1, <1>3 DEF StartLocal, StartGcode, StartCloud, StartSdcard, FailStage, Return, Report, Begin
  <2>2. FlowInv' /\ pub' = NoPub
    BY <1>1, <1>2, <1>3, <2>1, FlowFails DEF JobType, InCloud
  <2>3. WireType'
    BY <1>1 DEF WireInv, WireType
  <2> QED
    BY <1>3, <2>2, <2>3, WireFails
<1>4. CASE at' # "done"
  <2>1. /\ rc' = rc /\ stage' # "Finished"
        /\ \/ at' = "brtc" /\ p.kind = "local" /\ p.emmc
           \/ at' = "dial" /\ p.kind = "local" /\ ~p.emmc
           \/ at' = "dial" /\ p.kind = "gcode"
           \/ at' = "project" /\ p.kind \in {"cloud", "record"}
           \/ at' = "publish" /\ p.kind = "sdcard"
    BY <1>1, <1>4 DEF StartLocal, StartGcode, StartCloud, StartSdcard, FailStage, Return, Report, Begin
  <2>2. Places'
    BY <1>1, <1>2, <2>1 DEF Places, CloudAts, FtpAts, LoginAts
  <2>3. InCloud'
    BY <1>1, <1>2, <2>1 DEF InCloud, FtpAts, LoginAts
  <2>4. FlowInv'
    BY <1>1, <1>2, <2>1, <2>2, <2>3, FlowMoves DEF JobType, Ats, FtpAts, CloudAts
  <2>5. CASE at' # "publish"
    BY <1>1, <2>1, <2>4, <2>5, WireBefore DEF Before, CloudAts
  <2>6. CASE at' = "publish"
    BY <1>1, <2>1, <2>4, <2>6 DEF WireInv, WireType, Before, CloudAts, LoginAts
  <2> QED
    BY <2>5, <2>6
<1> QED
  BY <1>3, <1>4

(* A call of the cloud, which may fail and be done all the same.           *)
LEMMA HttpInv ==
  ASSUME IInv, NEW from, NEW to, NEW effect, HttpCall(from, to, effect),
         from \in CloudAts \ {"sending", "storage"}, to \in CloudAts \ {"sending"},
         effect \in CloudType, effect.task = cloud.task,
         to = "patch2" => effect.main,
         to = "storage" => effect.main /\ effect.url = "main"
  PROVE  IInv'
<1> USE DEF IInv
<1>1. /\ at = from /\ at # "done" /\ pub = NoPub /\ rc = "none" /\ stage # "Finished"
      /\ at \in Before /\ cloud.task = NoTask
      /\ UNCHANGED <<p, chan, path, cands, sent, err, cmds, replies, data, store, cancel, pub>>
  BY DEF HttpCall, FlowInv, Returned, InCloud, ftpVars, CloudAts, Before
<1>2. JobType /\ Places /\ InCloud
  BY DEF FlowInv
<1>3. PICK resp \in Perform(effect) :
        /\ cloud' = resp.cloud
        /\ IF ~resp.ok THEN FailStage("failed")
           ELSE /\ at' = to /\ UNCHANGED rc
                /\ IF from \in {"config", "main"} THEN Report("Upload") ELSE UNCHANGED stage
  BY DEF HttpCall
<1>4. cloud' \in CloudType /\ cloud'.task = NoTask /\ (resp.ok => cloud' = effect)
  BY <1>1, <1>2, <1>3 DEF Perform, JobType
<1>5. CASE ~resp.ok
  <2>1. at' = "done" /\ rc' = "failed" /\ stage' # "Finished"
    BY <1>3, <1>5 DEF FailStage, Return, Report
  <2>2. FlowInv' /\ pub' = NoPub
    BY <1>1, <1>2, <1>4, <2>1, FlowFails DEF JobType
  <2>3. WireType'
    BY <1>1 DEF WireInv, WireType
  <2> QED
    BY <2>1, <2>2, <2>3, WireFails
<1>6. CASE resp.ok
  <2>1. at' = to /\ rc' = rc /\ stage' # "Finished" /\ cloud' = effect
    BY <1>1, <1>3, <1>4, <1>6 DEF Report
  <2>2. Places'
    BY <1>1, <1>2, <2>1 DEF Places, CloudAts, FtpAts, LoginAts
  <2>3. InCloud'
    BY <1>1, <1>4, <2>1 DEF InCloud, CloudAts, FtpAts, LoginAts
  <2>4. FlowInv'
    BY <1>1, <1>2, <1>4, <2>1, <2>2, <2>3, FlowMoves DEF JobType, Ats, CloudAts
  <2> QED
    BY <1>1, <2>1, <2>4, WireBefore DEF Before
<1> QED
  BY <1>5, <1>6

(* The dialogue with the cloud, up to the choice of the storage.           *)
LEMMA CloudInv ==
  ASSUME IInv, CreateProject \/ S3Put \/ NotifyUpload \/ PatchProject \/ GetUploadUrl
  PROVE  IInv'
<1>1. cloud \in CloudType /\ (at = "patch2" => cloud.main)
  BY DEF IInv, FlowInv, JobType, InCloud
<1>2. CASE CreateProject
  BY <1>1, <1>2, HttpInv DEF CreateProject, CloudAts, CloudType
<1>3. CASE S3Put
  BY <1>1, <1>3, HttpInv DEF S3Put, CloudAts, CloudType
<1>4. CASE NotifyUpload
  BY <1>1, <1>4, HttpInv DEF NotifyUpload, CloudAts
<1>5. CASE PatchProject
  BY <1>1, <1>5, HttpInv DEF PatchProject, HttpCall, CloudAts, CloudType
<1>6. CASE GetUploadUrl
  BY <1>1, <1>6, HttpInv DEF GetUploadUrl, CloudAts
<1> QED
  BY <1>2, <1>3, <1>4, <1>5, <1>6

(* Polling, and the choice between the LAN and the cloud channel.          *)
LEMMA StorageInv ==
  ASSUME IInv, PollUpload \/ ChooseStorage
  PROVE  IInv'
<1> USE DEF IInv
<1>1. /\ at \in {"poll", "storage"} /\ pub = NoPub /\ rc = "none" /\ stage # "Finished"
      /\ at \in Before /\ cloud.task = NoTask /\ p.kind \in {"cloud", "record"}
      /\ UNCHANGED <<p, cloud, path, cands, sent, err, cmds, replies, data, store, cancel, pub>>
  BY DEF PollUpload, ChooseStorage, FlowInv, Returned, Places, InCloud, ftpVars, cloudVars,
         CloudAts, Before
<1>2. JobType /\ Places /\ InCloud
  BY DEF FlowInv
<1>3. CASE at' = "done"
  <2>1. rc' \in {"failed", "cancelled"} /\ stage' # "Finished" /\ chan' = chan
    BY <1>1, <1>3 DEF PollUpload, ChooseStorage, FailStage, Return, Report
  <2>2. FlowInv' /\ pub' = NoPub
    BY <1>1, <1>2, <1>3, <2>1, FlowFails DEF JobType
  <2>3. WireType'
    BY <1>1 DEF WireInv, WireType
  <2> QED
    BY <1>3, <2>2, <2>3, WireFails
<1>4. CASE PollUpload /\ at' # "done"
  <2>1. at = "poll" /\ at' \in {"poll", "patch1"} /\ rc' = rc /\ stage' = stage /\ chan' = chan
    BY <1>4 DEF PollUpload, FailStage, Return
  <2>2. Places'
    BY <1>1, <1>2, <2>1 DEF Places, CloudAts, FtpAts, LoginAts
  <2>3. InCloud'
    BY <1>1, <1>2, <2>1 DEF InCloud, FtpAts, LoginAts
  <2>4. FlowInv'
    BY <1>1, <1>2, <2>1, <2>2, <2>3, FlowMoves DEF JobType, Ats, CloudAts
  <2> QED
    BY <1>1, <2>1, <2>4, WireBefore DEF Before, CloudAts
<1>5. CASE ChooseStorage
  <2>1. /\ at = "storage" /\ rc' = rc /\ stage' = stage /\ chan' \in {chan, "cloud"}
        /\ \/ chan' = "cloud" /\ at' = "sending"
           \/ chan' = "lan" /\ p.emmc /\ at' = "brtc"
           \/ chan' = "lan" /\ ~p.emmc /\ at' = "dial"
    BY <1>2, <1>5 DEF ChooseStorage, JobType
  <2>2. Places'
    BY <1>1, <1>2, <2>1 DEF Places, CloudAts, FtpAts, LoginAts
  <2>3. InCloud'
    BY <1>1, <1>2, <2>1 DEF InCloud, FtpAts, LoginAts
  <2>4. FlowInv'
    BY <1>1, <1>2, <2>1, <2>2, <2>3, FlowMoves DEF JobType, Ats, CloudAts, FtpAts
  <2>5. CASE at' = "sending"
    BY <1>1, <2>1, <2>4, <2>5 DEF WireInv, WireType, Before, CloudAts, LoginAts
  <2>6. CASE at' # "sending"
    BY <1>1, <2>1, <2>4, <2>6, WireBefore DEF Before
  <2> QED
    BY <2>5, <2>6
<1> QED
  BY <1>3, <1>4, <1>5

(***************************************************************************)
(* From the upload to the order.                                           *)
(***************************************************************************)

(* The upload over the tunnel.                                             *)
LEMMA BrtcInv ==
  ASSUME IInv, BrtcUpload
  PROVE  IInv'
<1> USE DEF IInv
<1>1. /\ at = "brtc" /\ pub = NoPub /\ rc = "none" /\ stage # "Finished" /\ cmds = <<>>
      /\ cloud.task = NoTask /\ chan = "lan" /\ p.emmc
      /\ UNCHANGED <<p, chan, cloud, path, cands, sent, err, cmds, replies, data, cancel, pub>>
  BY DEF BrtcUpload, FlowInv, Returned, Places, InCloud, cloudVars, WireInv, Before
<1>2. JobType /\ Places /\ InCloud /\ WireType
  BY DEF FlowInv, WireInv
<1>3. PICK res \in UploadFile :
        IF res = "ok"
        THEN /\ at' = "stored" /\ Report("Upload") /\ UNCHANGED rc
             /\ store' = [store EXCEPT !["emmc"] = "whole"]
        ELSE /\ Return(res) /\ stage' \in {stage, "Upload"}
             /\ store' \in {store, [store EXCEPT !["emmc"] = "partial"]}
  BY DEF BrtcUpload
<1>4. WireType'
  BY <1>1, <1>2, <1>3 DEF WireType
<1>5. CASE res # "ok"
  <2>1. at' = "done" /\ rc' \in {"failed", "cancelled"} /\ stage' # "Finished"
    BY <1>1, <1>3, <1>5 DEF Return, UploadFile
  <2>2. FlowInv' /\ pub' = NoPub
    BY <1>1, <1>2, <2>1, FlowFails DEF JobType
  <2> QED
    BY <1>4, <2>1, <2>2, WireFails
<1>6. CASE res = "ok"
  <2>1. at' = "stored" /\ rc' = rc /\ stage' = "Upload" /\ store' = [store EXCEPT !["emmc"] = "whole"]
    BY <1>3, <1>6 DEF Report
  <2>2. Places'
    BY <1>1, <1>2, <2>1 DEF Places, CloudAts, FtpAts, LoginAts
  <2>3. InCloud'
    BY <1>1, <1>2, <2>1 DEF InCloud, FtpAts, LoginAts
  <2>4. FlowInv'
    BY <1>1, <1>2, <2>1, <2>2, <2>3, FlowMoves DEF JobType, Ats
  <2>5. Placed'
    BY <1>1, <1>2, <2>1 DEF Placed, WireType
  <2> QED
    BY <1>1, <1>4, <2>1, <2>4, <2>5 DEF WireInv, Before, CloudAts, LoginAts
<1> QED
  BY <1>5, <1>6

(* The file is stored: the job is done, cancelled, or goes on to its task  *)
(* and its order.                                                          *)
LEMMA StoredInv ==
  ASSUME IInv, AfterUpload \/ CreateTask
  PROVE  IInv'
<1> USE DEF IInv
<1>1. /\ at \in {"stored", "sending"} /\ pub = NoPub /\ rc = "none" /\ stage # "Finished"
      /\ cloud.task = NoTask /\ p.kind # "sdcard"
      /\ UNCHANGED <<p, chan, path, cands, sent, err, cmds, replies, data, store, cancel, pub>>
  BY DEF AfterUpload, CreateTask, FlowInv, Returned, Places, InCloud, ftpVars, CloudAts
<1>2. JobType /\ Places /\ InCloud /\ WireType
  BY DEF FlowInv, WireInv
<1>3. WireType'
  BY <1>1, <1>2 DEF WireType
<1>4. p.kind # "gcode" /\ chan = "lan" => Placed
  BY <1>1 DEF WireInv
<1>5. Placed => Placed'
  BY <1>1 DEF Placed
<1>6. cloud' \in CloudType /\ cloud'.task \in {NoTask, chan} /\ cloud'.main = cloud.main /\ cloud'.url = cloud.url
  BY <1>1, <1>2 DEF AfterUpload, CreateTask, cloudVars, JobType, CloudType, TaskMode
<1>7. CASE at' = "done" /\ rc' \in {"failed", "cancelled"}
  <2>1. stage' # "Finished"
    BY <1>1, <1>7 DEF AfterUpload, CreateTask, FailStage, Return, Report
  <2>2. FlowInv' /\ pub' = NoPub
    BY <1>1, <1>2, <1>6, <1>7, <2>1, FlowFails DEF JobType
  <2> QED
    BY <1>3, <1>7, <2>2, WireFails
<1>8. CASE AfterUpload /\ p.kind = "gcode"
  <2>1. at' = "done" /\ rc' = "ok" /\ cloud' = cloud
    BY <1>8 DEF AfterUpload, Return, cloudVars
  <2>2. FlowInv'
    BY <1>1, <1>2, <1>8, <2>1 DEF FlowInv, JobType, Places, Returned, EarlyStops, InCloud, Ats,
                                  CloudAts, FtpAts, LoginAts
  <2> QED
    BY <1>1, <1>3, <2>1, <2>2, WireFails
<1>9. CASE at' # "done"
  <2>1. /\ rc' = rc /\ stage' # "Finished" /\ p.kind # "gcode" /\ at' \in {"publish", "sending"}
        /\ at' = "sending" => p.kind # "local" /\ cloud' = cloud
        /\ at' = "publish" /\ p.kind = "local" => cancel = "no"
    BY <1>1, <1>2, <1>9 DEF AfterUpload, CreateTask, Return, Report, FailStage, cloudVars, Places,
                           CloudAts
  <2>2. Places'
    BY <1>1, <1>2, <2>1 DEF Places, CloudAts, FtpAts, LoginAts, JobType, Params
  <2>3. InCloud'
    BY <1>1, <1>2, <1>6, <2>1 DEF InCloud, FtpAts, LoginAts
  <2>4. FlowInv'
    BY <1>1, <1>2, <1>6, <2>1, <2>2, <2>3, FlowMoves DEF JobType, Ats, CloudAts
  <2> QED
    BY <1>1, <1>3, <1>4, <1>5, <2>1, <2>4 DEF WireInv, Before, CloudAts, LoginAts
<1> QED
  BY <1>1, <1>7, <1>8, <1>9 DEF AfterUpload, CreateTask, FailStage, Return

(* The order names the place of the file.                                  *)
LEMMA PublishInv ==
  ASSUME IInv, Publish
  PROVE  IInv'
<1> USE DEF IInv
<1>1. /\ at = "publish" /\ pub = NoPub /\ rc = "none" /\ stage # "Finished" /\ at' = "done"
      /\ p.kind # "gcode" /\ ~(p.kind = "local" /\ cancel = "early")
      /\ UNCHANGED <<p, chan, cloud, path, cands, sent, err, cmds, replies, data, store, cancel>>
  BY DEF Publish, FlowInv, Returned, Places, EarlyStops, ftpVars, cloudVars, Return, FailStage
<1>2. JobType /\ Places /\ InCloud /\ WireType
  BY DEF FlowInv, WireInv
<1>3. WireType'
  BY <1>1, <1>2 DEF WireType
<1>4. CASE rc' = "failed"
  <2>1. FlowInv' /\ pub' = NoPub
    BY <1>1, <1>2, <1>4, FlowFails DEF Publish, JobType, InCloud, Return, Report, FailStage
  <2> QED
    BY <1>1, <1>3, <2>1, WireFails
<1>5. CASE rc' = "ok"
  <2>1. pub' = ProjectFile
    BY <1>5 DEF Publish, Return, FailStage
  <2>2. ProjectFile' = ProjectFile
    BY <1>1 DEF ProjectFile, FilePath, Url
  <2>3. JobType' /\ Places' /\ InCloud'
    BY <1>1, <1>2 DEF JobType, Places, InCloud, Ats, CloudAts, FtpAts, LoginAts
  <2>4. Returned' /\ EarlyStops'
    BY <1>1, <1>5, <2>1, <2>2 DEF Returned, EarlyStops
  <2>5. Placed => Placed'
    BY <1>1 DEF Placed
  <2> QED
    BY <1>1, <1>3, <2>3, <2>4, <2>5 DEF FlowInv, WireInv, Before, CloudAts, LoginAts
<1> QED
  BY <1>4, <1>5 DEF Publish, Return, FailStage

(***************************************************************************)
(* The upload over FTP.                                                    *)
(***************************************************************************)

(* Facts about queues: what is left of a short one, and that appending     *)
(* and taking off keep the rest.                                           *)
LEMMA QueueFacts ==
  /\ \A S : \A s \in Seq(S) : Len(s) = 1 => s # <<>> /\ Tail(s) = <<>>
  /\ \A e : /\ Append(<<>>, e) = <<e>> /\ Head(<<e>>) = e /\ Tail(<<e>>) = <<>> /\ <<e>> # <<>>
           /\ Len(<<e>>) = 1 /\ <<e>>[1] = e
  /\ <<>> \in Seq(Commands) /\ \A e \in Commands : <<e>> \in Seq(Commands)
  /\ <<>> \in Seq(Int)
<1>1. ASSUME NEW S, NEW s \in Seq(S), Len(s) = 1
      PROVE  s # <<>> /\ Tail(s) = <<>>
  <2>1. s # <<>>
    BY <1>1
  <2>2. Tail(s) \in Seq(S) /\ Len(Tail(s)) = 0
    BY <1>1, <2>1, HeadTailProperties
  <2> QED
    BY <2>1, <2>2, EmptySeq
<1>2. ASSUME NEW e
      PROVE  /\ Append(<<>>, e) = <<e>> /\ Head(<<e>>) = e /\ <<e>> # <<>>
             /\ Len(<<e>>) = 1 /\ <<e>>[1] = e
  OBVIOUS
<1>3. <<>> \in Seq(Commands) /\ (\A e \in Commands : <<e>> \in Seq(Commands)) /\ <<>> \in Seq(Int)
  OBVIOUS
<1>4. ASSUME NEW e
      PROVE  Tail(<<e>>) = <<>>
  <2>1. <<e>> \in Seq({e}) /\ Len(<<e>>) = 1
    OBVIOUS
  <2> QED
    BY <1>1, <2>1
<1> QED
  BY <1>1, <1>2, <1>3, <1>4

(* read_reply leaves a queue of replies.                                   *)
LEMMA GotFacts ==
  ASSUME NEW code \in Codes, Got(code), replies \in Seq(Int)
  PROVE  /\ replies' \in Seq(Int)
         /\ code # -1 => replies # <<>> /\ code = Head(replies) /\ replies' = Tail(replies)
         /\ replies' = replies \/ (replies # <<>> /\ replies' = Tail(replies))
  BY DEF Got

(* A step of the dialogue that fails ends the job.                         *)
LEMMA FtpFails ==
  ASSUME IInv, at \in FtpAts, at' = "done", rc' \in {"failed", "cancelled"}, stage' # "Finished",
         UNCHANGED <<p, chan, pub, cancel, cloud, err, path, cands, sent, store>>, WireType'
  PROVE  IInv'
<1>1. at # "done"
  BY DEF FtpAts, LoginAts
<1>2. cloud.task = NoTask
  BY DEF IInv, FlowInv, InCloud, FtpAts, LoginAts
<1>3. FlowInv' /\ pub' = NoPub
  BY <1>1, <1>2, FlowFails DEF IInv, FlowInv, JobType
<1> QED
  BY <1>3, WireFails DEF IInv

(* A step of stor() that fails leads to quit().                            *)
LEMMA StorFails ==
  ASSUME IInv, at \in FtpAts, at' = "quit", err' \in {"failed", "cancelled"},
         UNCHANGED <<p, chan, pub, cancel, rc, cloud, stage, store>>,
         path' \in Dirs, cands' \in Seq(Dirs), WireType'
  PROVE  IInv'
<1>1. FlowInv'
  BY FlowFtp DEF IInv, FtpAts
<1>2. pub' = NoPub
  BY DEF IInv, FlowInv, Returned, FtpAts, LoginAts
<1>3. WireInv'
  BY <1>2 DEF WireInv, Before, CloudAts, LoginAts
<1> QED
  BY <1>1, <1>3 DEF IInv

(* Before STOR is under way, the dialogue does not change what is stored.  *)
LEMMA DialInv ==
  ASSUME IInv, Dial
  PROVE  IInv'
<1>1. /\ at = "dial" /\ at \in FtpAts /\ cmds = <<>> /\ replies = <<>> /\ WireType /\ pub = NoPub
      /\ UNCHANGED <<p, chan, pub, cancel, cloud, err, path, cands, sent, store, replies>>
  BY DEF IInv, Dial, FileRejected, FtpAts, WireInv, Before, cloudVars, FlowInv, Returned
<1>2. CASE at' = "done"
  BY <1>1, <1>2, FtpFails DEF Dial, FileRejected, FailStage, Return, Report, WireType
<1>3. CASE at' # "done"
  <2>1. at' = "banner" /\ cmds' = <<"banner">> /\ UNCHANGED <<stage, rc>>
    BY <1>1, <1>3, QueueFacts DEF Dial, FileRejected, FailStage, Return, Cmd
  <2>2. FlowInv'
    BY <1>1, <2>1, FlowFtp DEF IInv, FtpAts, LoginAts, FlowInv, JobType
  <2>3. WireType'
    <3>1. "banner" \in Commands
      BY DEF Commands, LoginAts
    <3>2. cmds' \in Seq(Commands)
      BY <2>1, <3>1, QueueFacts
    <3> QED
      BY <1>1, <3>2 DEF WireType
  <2>4. WireInv'
    BY <1>1, <2>1, <2>3 DEF WireInv, InLogin, Before, CloudAts, LoginAts
  <2> QED
    BY <2>2, <2>4 DEF IInv
<1> QED
  BY <1>2, <1>3

(* A reply that does not come in time rejects the login, so that the next  *)
(* reply to be read is the one to the next command.                        *)
LEMMA LoginInv ==
  ASSUME IInv, LoginReply
  PROVE  IInv'
<1>1. /\ at \in LoginAts /\ at \in FtpAts /\ InLogin /\ WireType /\ pub = NoPub
      /\ UNCHANGED <<p, chan, pub, cancel, cloud, err, path, cands, sent, store>>
  BY DEF IInv, LoginReply, FtpAts, LoginAts, WireInv, cloudVars, FlowInv, Returned
<1>2. PICK code \in Codes :
        /\ Got(code)
        /\ LET next == Login(at, code) IN
           CASE next = "rejected" -> FailStage("failed") /\ UNCHANGED cmds
             [] next = "ready" -> at' = "probe" /\ UNCHANGED <<cmds, stage, rc>>
             [] OTHER -> at' = next /\ Cmd(next) /\ UNCHANGED <<stage, rc>>
  BY DEF LoginReply
<1>3. replies' \in Seq(Int)
  BY <1>1, <1>2, GotFacts DEF WireType
<1>4. CASE Login(at, code) = "rejected"
  <2>1. at' = "done" /\ rc' = "failed" /\ stage' = "ERROR" /\ cmds' = cmds
    BY <1>2, <1>4 DEF FailStage, Return, Report
  <2> QED
    BY <1>1, <1>3, <2>1, FtpFails DEF WireType
<1>5. CASE Login(at, code) # "rejected"
  <2>1. code # -1 /\ Login(at, code) \in (LoginAts \ {"banner"}) \cup {"ready"}
    BY <1>1, <1>5 DEF Login, LoginAts
  <2>2. cmds = <<>> /\ replies' = <<>>
    BY <1>1, <1>2, <2>1, GotFacts, QueueFacts DEF InLogin, WireType
  <2>3. /\ UNCHANGED <<stage, rc>>
        /\ \/ at' = "probe" /\ cmds' = <<>>
           \/ at' \in LoginAts /\ cmds' = <<at'>>
    BY <1>2, <1>5, <2>1, <2>2, QueueFacts DEF Cmd, LoginAts
  <2>4. FlowInv'
    BY <1>1, <2>3, FlowFtp DEF IInv, FtpAts, LoginAts, FlowInv, JobType
  <2>5. WireType'
    <3>1. LoginAts \subseteq Commands
      BY DEF Commands
    <3>2. cmds' \in Seq(Commands) /\ replies' \in Seq(Int)
      BY <2>2, <2>3, <3>1, QueueFacts
    <3> QED
      BY <1>1, <3>2 DEF WireType
  <2>6. WireInv'
    BY <1>1, <2>2, <2>3, <2>5 DEF WireInv, InLogin, Before, CloudAts, LoginAts
  <2> QED
    BY <2>4, <2>6 DEF IInv
<1> QED
  BY <1>4, <1>5

(* A command appended to a queue of probes.                                *)
LEMMA ProbeQueue ==
  ASSUME NEW q \in Seq(Dirs), NEW e \in Commands
  PROVE  /\ Append(q, e) \in Seq(Commands) /\ Len(Append(q, e)) = Len(q) + 1
         /\ \A i \in 1..Len(q) : Append(q, e)[i] \in Dirs
         /\ Append(q, e)[Len(q) + 1] = e /\ Len(q) \in Nat
         /\ e \in Dirs => Append(q, e) \in Seq(Dirs)
<1>1. Dirs \subseteq Commands
  BY DEF Commands
<1>2. q \in Seq(Commands)
  BY <1>1, SeqMonotonic
<1>3. \A i \in 1..Len(q) : q[i] \in Dirs
  BY ElementOfSeq
<1> QED
  BY <1>2, <1>3, AppendProperties, LenProperties

(* stor() begins behind the probes.                                        *)
LEMMA BeginStorInv ==
  ASSUME IInv, at \in {"probe", "CWD"}, BeginStor, cmds \in Seq(Dirs), replies' \in Seq({250, 550}),
         UNCHANGED <<p, chan, stage, rc, cloud, sent, store, cancel, pub>>,
         path' \in Dirs, cands' = <<>>
  PROVE  IInv'
<1>1. at \in FtpAts /\ WireType /\ pub = NoPub /\ cands' \in Seq(Dirs) /\ JobType
  BY EmptySeq DEF IInv, WireInv, FtpAts, FlowInv, Returned
<1>2. replies' \in Seq(Int)
  BY SeqMonotonic
<1>3. "PASV" \in Commands /\ Dirs \subseteq Commands
  BY DEF Commands
<1>4. CASE at' = "PASV" /\ Cmd("PASV") /\ UNCHANGED err
  <2>1. WireType'
    BY <1>1, <1>2, <1>3, <1>4, ProbeQueue DEF WireType, Cmd
  <2>2. InPasv'
    <3>1. \A i \in 1..Len(cmds') : cmds'[i] \in Dirs \/ (cmds'[i] = "PASV" /\ i = Len(cmds'))
      BY <1>3, <1>4, ProbeQueue DEF Cmd
    <3>2. \A i \in 1..Len(replies') : replies'[i] \in {250, 550}
      BY ElementOfSeq
    <3> QED
      BY <3>1, <3>2 DEF InPasv
  <2>3. FlowInv'
    BY <1>1, <1>4, FlowFtp DEF IInv, FtpAts, JobType
  <2>4. WireInv'
    BY <1>1, <1>4, <2>1, <2>2 DEF WireInv, Before, CloudAts, LoginAts
  <2> QED
    BY <2>3, <2>4 DEF IInv
<1>5. CASE at' = "quit" /\ err' = "failed" /\ UNCHANGED cmds
  BY <1>1, <1>2, <1>5, StorFails DEF WireType
<1> QED
  BY <1>4, <1>5 DEF BeginStor

(* adjust_storage_path begins.                                             *)
LEMMA ProbeInv ==
  ASSUME IInv, Probe
  PROVE  IInv'
<1>1. /\ at = "probe" /\ at \in FtpAts /\ WireType /\ pub = NoPub /\ JobType
      /\ cmds = <<>> /\ replies = <<>>
      /\ UNCHANGED <<p, chan, stage, rc, cloud, path, sent, replies, store, cancel, pub>>
  BY DEF IInv, WireInv, FtpAts, FlowInv, Returned, Probe, cloudVars, Before
<1>2. cands' \in Seq(Dirs)
  <2>1. cands' = Candidates(p.folder)
    BY DEF Probe
  <2>2. {<<"/sdcard", "/usb", "/">>, <<"/usb", "/sdcard", "/">>, <<>>} \subseteq Seq(Dirs)
    BY DEF Dirs
  <2> QED
    BY <2>1, <2>2 DEF Candidates
<1>3. cmds \in Seq(Dirs) /\ replies' \in Seq({250, 550})
  BY <1>1, EmptySeq
<1>4. CASE cands' = <<>>
  BY <1>1, <1>3, <1>4, BeginStorInv DEF Probe, JobType
<1>5. CASE cands' # <<>>
  <2>1. at' = "CWD" /\ cmds' = Append(cmds, Head(cands')) /\ err' = err
    BY <1>5 DEF Probe, Cmd
  <2>2. Head(cands') \in Dirs /\ Head(cands') \in Commands
    BY <1>2, <1>5, HeadTailProperties DEF Commands
  <2>3. cmds' \in Seq(Dirs) /\ cmds' \in Seq(Commands)
    BY <1>3, <2>1, <2>2, ProbeQueue
  <2>4. FlowInv'
    BY <1>1, <1>2, <1>5, <2>1, FlowFtp DEF IInv, FtpAts, JobType
  <2>5. WireInv'
    BY <1>1, <1>3, <2>1, <2>3 DEF WireInv, WireType, InProbe, Before, CloudAts, LoginAts
  <2> QED
    BY <2>4, <2>5 DEF IInv
<1> QED
  BY <1>4, <1>5

(* A probe is answered, by whichever reply comes next, or times out.       *)
LEMMA ProbeReplyInv ==
  ASSUME IInv, ProbeReply
  PROVE  IInv'
<1>1. /\ at = "CWD" /\ at \in FtpAts /\ WireType /\ pub = NoPub /\ JobType /\ InProbe
      /\ cands \in Seq(Dirs) /\ cands # <<>> /\ path \in Dirs
      /\ UNCHANGED <<p, chan, stage, rc, cloud, sent, store, cancel, pub>>
  BY DEF IInv, WireInv, FtpAts, FlowInv, Returned, ProbeReply, cloudVars, JobType
<1>2. PICK code \in Codes :
        /\ Got(code)
        /\ CASE code \in {200, 250} -> path' = Head(cands) /\ cands' = <<>> /\ BeginStor
             [] code \notin {200, 250} /\ Len(cands) = 1 -> UNCHANGED path /\ cands' = <<>> /\ BeginStor
             [] OTHER -> /\ cands' = Tail(cands) /\ Cmd(cands[2])
                         /\ UNCHANGED <<at, path, err>>
  BY DEF ProbeReply
<1>3. replies' \in Seq({250, 550}) /\ replies' \in Seq(Int)
  <2>1. replies' \in Seq({250, 550})
    <3>1. replies' = replies \/ (replies # <<>> /\ replies' = Tail(replies))
      BY <1>1, <1>2, GotFacts DEF WireType
    <3>2. replies \in Seq({250, 550})
      BY <1>1 DEF InProbe
    <3> QED
      BY <3>1, <3>2, HeadTailProperties
  <2> QED
    BY <2>1, SeqMonotonic
<1>4. Head(cands) \in Dirs
  BY <1>1, HeadTailProperties
<1>5. CASE code \in {200, 250} \/ Len(cands) = 1
  <2>1. path' \in Dirs /\ cands' = <<>> /\ BeginStor
    BY <1>1, <1>2, <1>4, <1>5
  <2> QED
    BY <1>1, <1>3, <2>1, BeginStorInv DEF InProbe
<1>6. CASE ~(code \in {200, 250} \/ Len(cands) = 1)
  <2>1. cands' = Tail(cands) /\ cmds' = Append(cmds, cands[2]) /\ UNCHANGED <<at, path, err>>
    BY <1>2, <1>6 DEF Cmd
  <2>2. Len(cands) \in Nat /\ Len(cands) >= 2
    <3>1. Len(cands) \in Nat \ {0}
      BY <1>1, EmptySeq
    <3> QED
      BY <1>6, <3>1
  <2>3. cands[2] \in Dirs /\ cands[2] \in Commands
    <3>1. 2 \in 1..Len(cands)
      BY <2>2
    <3>2. cands[2] \in Dirs
      BY <1>1, <3>1
    <3> QED
      BY <3>2 DEF Commands
  <2>4. cands' \in Seq(Dirs) /\ cands' # <<>>
    <3>1. Tail(cands) \in Seq(Dirs) /\ Len(Tail(cands)) = Len(cands) - 1
      BY <1>1, HeadTailProperties
    <3>2. Len(cands') # 0
      BY <2>1, <2>2, <3>1
    <3> QED
      BY <2>1, <3>1, <3>2, EmptySeq
  <2>5. cmds' \in Seq(Dirs) /\ cmds' \in Seq(Commands)
    BY <1>1, <2>1, <2>3, ProbeQueue DEF InProbe
  <2>6. FlowInv'
    BY <1>1, <2>1, <2>4, FlowFtp DEF IInv, FtpAts, JobType
  <2>7. WireInv'
    BY <1>1, <1>3, <2>1, <2>5 DEF WireInv, WireType, InProbe, Before, CloudAts, LoginAts
  <2> QED
    BY <2>6, <2>7 DEF IInv
<1> QED
  BY <1>5, <1>6

(* 227 can only be the reply to PASV: every reply to a probe has been read *)
(* by then, however many had timed out.                                    *)
LEMMA PasvInv ==
  ASSUME IInv, PasvReply
  PROVE  IInv'
<1>1. /\ at = "PASV" /\ at \in FtpAts /\ WireType /\ pub = NoPub /\ JobType /\ InPasv
      /\ UNCHANGED <<p, chan, stage, rc, cloud, path, cands, sent, store, cancel, pub>>
  BY DEF IInv, WireInv, FtpAts, FlowInv, Returned, PasvReply, cloudVars
<1>2. PICK code \in Codes :
        /\ Got(code)
        /\ \/ code = 227 /\ at' = "STOR" /\ Cmd("STOR") /\ data' = "open" /\ UNCHANGED err
           \/ at' = "quit" /\ err' = "failed" /\ UNCHANGED <<cmds, data>>
  BY DEF PasvReply
<1>3. replies' \in Seq(Int)
  BY <1>1, <1>2, GotFacts DEF WireType
<1>4. CASE at' = "quit"
  BY <1>1, <1>2, <1>3, <1>4, StorFails DEF WireType, JobType
<1>5. CASE at' # "quit"
  <2>1. code = 227 /\ at' = "STOR" /\ cmds' = Append(cmds, "STOR") /\ data' = "open" /\ err' = err
    BY <1>2, <1>5 DEF Cmd
  <2>2. replies \in Seq(Int) /\ replies # <<>> /\ Head(replies) = 227 /\ replies' = Tail(replies)
    BY <1>1, <1>2, <2>1, GotFacts DEF WireType
  <2>3. Len(replies) \in Nat \ {0} /\ replies[1] = 227
    BY <2>2, EmptySeq
  <2>4. Len(replies) = 1 /\ cmds = <<>>
    BY <1>1, <2>3 DEF InPasv
  <2>5. replies' = <<>> /\ cmds' = <<"STOR">>
    BY <2>1, <2>2, <2>4, QueueFacts
  <2>6. cmds' \in Seq(Commands)
    BY <2>5, QueueFacts DEF Commands
  <2>7. FlowInv'
    BY <1>1, <2>1, FlowFtp DEF IInv, FtpAts, JobType
  <2>8. WireInv'
    BY <1>1, <1>3, <2>1, <2>5, <2>6 DEF WireInv, WireType, InStor, Before, CloudAts, LoginAts
  <2> QED
    BY <2>7, <2>8 DEF IInv
<1> QED
  BY <1>4, <1>5

(* 150 is the reply to STOR, and the printer waits for the data.           *)
LEMMA StorReplyInv ==
  ASSUME IInv, StorReply
  PROVE  IInv'
<1>1. /\ at = "STOR" /\ at \in FtpAts /\ WireType /\ pub = NoPub /\ JobType /\ InStor
      /\ UNCHANGED <<p, chan, stage, rc, cloud, path, cands, sent, cmds, store, cancel, pub>>
  BY DEF IInv, WireInv, FtpAts, FlowInv, Returned, StorReply, cloudVars
<1>2. PICK code \in Codes, secured \in DataTls :
        /\ Got(code)
        /\ IF code = 150 /\ secured THEN at' = "chunks" /\ UNCHANGED <<err, data>>
           ELSE at' = "quit" /\ err' = "failed" /\ data' = "eof"
  BY DEF StorReply
<1>3. replies' \in Seq(Int)
  BY <1>1, <1>2, GotFacts DEF WireType
<1>4. CASE at' = "quit"
  BY <1>1, <1>2, <1>3, <1>4, StorFails DEF WireType, JobType
<1>5. CASE at' # "quit"
  <2>1. code = 150 /\ at' = "chunks" /\ UNCHANGED <<err, data>>
    BY <1>2, <1>5
  <2>2. replies # <<>> /\ Head(replies) = 150 /\ replies' = Tail(replies)
    BY <1>1, <1>2, <2>1, GotFacts DEF WireType
  <2>3. cmds = <<"storing">> /\ replies = <<150>> /\ data = "open"
    BY <1>1, <2>2, QueueFacts DEF InStor
  <2>4. InChunks'
    BY <1>1, <2>1, <2>2, <2>3, QueueFacts DEF InChunks
  <2>5. FlowInv'
    BY <1>1, <2>1, FlowFtp DEF IInv, FtpAts, JobType
  <2>6. WireInv'
    BY <1>1, <1>3, <2>1, <2>4 DEF WireInv, WireType, Before, CloudAts, LoginAts
  <2> QED
    BY <2>5, <2>6 DEF IInv
<1> QED
  BY <1>4, <1>5

(* The data.                                                               *)
LEMMA ChunksInv ==
  ASSUME IInv, StorChunk \/ StorEnds
  PROVE  IInv'
<1>1. /\ at = "chunks" /\ at \in FtpAts /\ WireType /\ pub = NoPub /\ JobType /\ InChunks
      /\ UNCHANGED <<p, chan, rc, cloud, path, cands, cmds, replies, store, cancel, pub>>
  BY DEF IInv, WireInv, FtpAts, FlowInv, Returned, StorChunk, StorEnds, cloudVars
<1>2. sent' \in Nat
  BY <1>1 DEF StorChunk, StorEnds, WireType
<1>3. CASE at' = "quit"
  <2>1. err' \in {"failed", "cancelled"} /\ stage' = stage
    BY <1>1, <1>3 DEF StorChunk, StorEnds
  <2> QED
    BY <1>1, <1>2, <1>3, <2>1, StorFails DEF WireType, JobType
<1>4. CASE StorChunk /\ at' # "quit"
  <2>1. at' = "chunks" /\ UNCHANGED <<err, data>> /\ stage' \in {stage, "Upload"}
    BY <1>1, <1>4 DEF StorChunk, Report
  <2>2. FlowInv'
    BY <1>1, <2>1, FlowFtp DEF IInv, FtpAts, JobType
  <2>3. WireInv'
    BY <1>1, <1>2, <2>1 DEF WireInv, WireType, InChunks, Before, CloudAts, LoginAts
  <2> QED
    BY <2>2, <2>3 DEF IInv
<1>5. CASE StorEnds
  <2>1. at' = "final" /\ UNCHANGED <<err, stage>> /\ sent' = Chunks
    BY <1>5 DEF StorEnds
  <2>2. FlowInv'
    BY <1>1, <2>1, FlowFtp DEF IInv, FtpAts, JobType
  <2>3. WireInv'
    BY <1>1, <1>2, <2>1 DEF WireInv, WireType, InChunks, InFinal, Before, CloudAts, LoginAts
  <2> QED
    BY <2>2, <2>3 DEF IInv
<1> QED
  BY <1>3, <1>4, <1>5

(* 226 is the printer's word that all of it is stored.                     *)
LEMMA FinalInv ==
  ASSUME IInv, FinalReply
  PROVE  IInv'
<1>1. /\ at = "final" /\ at \in FtpAts /\ WireType /\ pub = NoPub /\ JobType /\ InFinal
      /\ UNCHANGED <<p, chan, stage, rc, cloud, path, cands, sent, cmds, data, store, cancel, pub>>
      /\ at' = "quit"
  BY DEF IInv, WireInv, FtpAts, FlowInv, Returned, FinalReply, cloudVars
<1>2. PICK code \in Codes : Got(code) /\ err' = IF code \in {226, 250} THEN "none" ELSE "failed"
  BY DEF FinalReply
<1>3. replies' \in Seq(Int)
  BY <1>1, <1>2, GotFacts DEF WireType
<1>4. CASE err' # "none"
  BY <1>1, <1>2, <1>3, <1>4, StorFails DEF WireType, JobType
<1>5. CASE err' = "none"
  <2>1. code \in {226, 250}
    BY <1>2, <1>5
  <2>2. replies # <<>> /\ Head(replies) \in {226, 250}
    BY <1>1, <1>2, <2>1, GotFacts DEF WireType
  <2>3. cmds = <<>> /\ store[path] = "whole"
    BY <1>1, <2>2, QueueFacts DEF InFinal
  <2>4. FlowInv'
    BY <1>1, <1>5, FlowFtp DEF IInv, FtpAts, JobType
  <2>5. WireInv'
    BY <1>1, <1>3, <2>3 DEF WireInv, WireType, Before, CloudAts, LoginAts
  <2> QED
    BY <2>4, <2>5 DEF IInv
<1> QED
  BY <1>4, <1>5

(* quit() and the verdict of ftp_upload.                                   *)
LEMMA QuitInv ==
  ASSUME IInv, Quit
  PROVE  IInv'
<1>1. /\ at = "quit" /\ at \in FtpAts /\ WireType /\ pub = NoPub /\ JobType
      /\ UNCHANGED <<p, chan, cloud, path, cands, sent, err, data, store, cancel, pub>>
      /\ cmds' = Append(cmds, "QUIT") /\ stage # "Finished"
  BY DEF IInv, WireInv, FtpAts, FlowInv, Returned, Quit, Cmd, cloudVars
<1>2. replies' \in Seq(Int)
  BY <1>1, GotFacts DEF WireType, Quit
<1>3. "QUIT" \in Commands
  BY DEF Commands
<1>4. cmds' \in Seq(Commands)
  BY <1>1, <1>3, AppendProperties DEF WireType
<1>5. CASE err # "none"
  <2>1. at' = "done" /\ rc' = err /\ stage' = "ERROR"
    BY <1>5 DEF Quit, UploadVerdict, FailStage, Return, Report
  <2> QED
    BY <1>1, <1>2, <1>4, <1>5, <2>1, FtpFails DEF WireType, JobType
<1>6. CASE err = "none"
  <2>1. at' = "stored" /\ UNCHANGED <<stage, rc>>
    BY <1>6 DEF Quit, UploadVerdict
  <2>2. cmds' = <<"QUIT">> /\ store[path] = "whole"
    BY <1>1, <1>6, QueueFacts DEF IInv, WireInv
  <2>3. p.kind # "gcode" => Placed'
    BY <1>1, <2>2 DEF Placed, IInv, FlowInv, Places
  <2>4. FlowInv'
    BY <1>1, <1>6, <2>1, FlowFtp DEF IInv, FtpAts, JobType
  <2>5. WireInv'
    BY <1>1, <1>2, <1>4, <2>1, <2>3 DEF WireInv, WireType, Before, CloudAts, LoginAts
  <2> QED
    BY <2>4, <2>5 DEF IInv
<1> QED
  BY <1>5, <1>6

(***************************************************************************)
(* Studio and the printer.                                                 *)
(***************************************************************************)

(* A step of the printer leaves the job where it is.                       *)
LEMMA PrinterFlow ==
  ASSUME FlowInv, PrinterServes \/ PrinterStored
  PROVE  /\ FlowInv' /\ UNCHANGED <<p, at, chan, path, sent, err, data, pub>>
<1>1. UNCHANGED <<p, at, chan, stage, rc, cloud, path, cands, sent, err, data, cancel, pub>>
  BY DEF PrinterServes, PrinterStored, jobVars, cloudVars
<1>2. ProjectFile' = ProjectFile
  BY <1>1 DEF ProjectFile, FilePath, Url
<1> QED
  BY <1>1, <1>2 DEF FlowInv, JobType, Places, Returned, EarlyStops, InCloud

(* What the printer does with a command: only STOR touches a file.         *)
Served(code) ==
    /\ replies' = Append(replies, code)
    /\ Head(cmds) # "STOR" => code # 150 /\ cmds' = Tail(cmds) /\ store' = store
    /\ Head(cmds) \in Dirs => code \in {250, 550}
    /\ Head(cmds) = "STOR" => \/ code = 150 /\ cmds' = <<"storing">> \o Tail(cmds)
                              \/ code = 550 /\ cmds' = Tail(cmds)

(* A command that is served is served so, whatever the reply.              *)
LEMMA ServeFacts ==
  ASSUME WireType, PrinterServes, JobType
  PROVE  /\ WireType' /\ cmds # <<>> /\ Head(cmds) # "storing" /\ Head(cmds) \in Commands
         /\ \E code \in Int : Served(code)
<1>1. PICK code \in ReplyTo(Head(cmds)) :
        /\ replies' = Append(replies, code)
        /\ cmds' = (IF code = 150 THEN <<"storing">> ELSE <<>>) \o Tail(cmds)
        /\ store' = IF code = 150 THEN [store EXCEPT ![path] = "partial"] ELSE store
  BY DEF PrinterServes
<1>2. cmds # <<>> /\ Head(cmds) # "storing" /\ Head(cmds) \in Commands /\ Tail(cmds) \in Seq(Commands)
  BY HeadTailProperties DEF PrinterServes, WireType
<1>3. /\ code \in Int
      /\ Head(cmds) # "STOR" => code # 150
      /\ Head(cmds) \in Dirs => code \in {250, 550}
      /\ Head(cmds) = "STOR" => code \in {150, 550}
  BY <1>1, <1>2 DEF ReplyTo, Commands, LoginAts, Dirs
<1>4. code # 150 => cmds' = Tail(cmds)
  BY <1>1, <1>2, ConcatEmptySeq
<1>5. "storing" \in Commands
  BY DEF Commands
<1>6. <<"storing">> \in Seq(Commands)
  BY <1>5, QueueFacts
<1>7. cmds' \in Seq(Commands)
  BY <1>1, <1>2, <1>4, <1>6, ConcatProperties
<1>8. replies' \in Seq(Int)
  BY <1>1, <1>3, AppendProperties DEF WireType
<1>9. store' \in [Dirs \cup {"emmc"} -> {"old", "partial", "whole"}]
  BY <1>1 DEF WireType
<1>10. WireType'
  BY <1>7, <1>8, <1>9 DEF WireType, PrinterServes
<1>11. Served(code)
  BY <1>1, <1>3, <1>4 DEF Served
<1> QED
  BY <1>2, <1>3, <1>10, <1>11

(* The printer serves a command, early or late.                            *)
LEMMA ServesInv ==
  ASSUME IInv, PrinterServes
  PROVE  IInv'
<1>1. FlowInv' /\ UNCHANGED <<p, at, chan, path, sent, err, data, pub>> /\ JobType /\ WireType
  BY PrinterFlow DEF IInv, FlowInv, WireInv
<1>2. WireType' /\ cmds # <<>> /\ Head(cmds) # "storing"
  BY <1>1, ServeFacts
<1>3. PICK code \in Int : Served(code)
  BY <1>1, ServeFacts
<1>4. cmds \in Seq(Commands) /\ replies \in Seq(Int)
  BY <1>1 DEF WireType
<1>5. at \notin Before
  BY <1>2 DEF IInv, WireInv
<1>6. at \in LoginAts => InLogin'
  <2> SUFFICES ASSUME at \in LoginAts
               PROVE  InLogin'
    OBVIOUS
  <2>1. cmds = <<at>> /\ replies = <<>> /\ at # "STOR"
    BY <1>2 DEF IInv, WireInv, InLogin, LoginAts
  <2>2. cmds' = <<>> /\ replies' = <<code>>
    BY <1>3, <2>1, QueueFacts DEF Served
  <2> QED
    BY <2>2, QueueFacts DEF InLogin
<1>7. at = "CWD" => InProbe'
  <2> SUFFICES ASSUME at = "CWD"
               PROVE  InProbe'
    OBVIOUS
  <2>1. cmds \in Seq(Dirs) /\ replies \in Seq({250, 550})
    BY DEF IInv, WireInv, InProbe
  <2>2. Head(cmds) \in Dirs /\ Tail(cmds) \in Seq(Dirs)
    BY <1>2, <2>1, HeadTailProperties
  <2>3. cmds' = Tail(cmds) /\ code \in {250, 550}
    BY <1>3, <2>2 DEF Dirs, Served
  <2> QED
    BY <1>3, <2>1, <2>2, <2>3, AppendProperties DEF InProbe, Served
<1>8. at = "PASV" => InPasv'
  <2> SUFFICES ASSUME at = "PASV"
               PROVE  InPasv'
    OBVIOUS
  <2>1. /\ \A i \in 1..Len(cmds) : cmds[i] \in Dirs \/ (cmds[i] = "PASV" /\ i = Len(cmds))
        /\ \A i \in 1..Len(replies) : replies[i] # 227
    BY <1>2 DEF IInv, WireInv, InPasv
  <2>2. Len(cmds) \in Nat \ {0} /\ Head(cmds) = cmds[1] /\ Len(replies) \in Nat
    BY <1>2, <1>4, EmptySeq, LenProperties
  <2>3. Head(cmds) \in Dirs \/ (Head(cmds) = "PASV" /\ Len(cmds) = 1)
    <3>1. 1 \in 1..Len(cmds) /\ (1 = Len(cmds) => Len(cmds) = 1)
      BY <2>2
    <3> QED
      BY <2>1, <2>2, <3>1
  <2>4. cmds' = Tail(cmds) /\ (code = 227 => Len(cmds) = 1)
    BY <1>3, <2>3 DEF Dirs, Served
  <2>5. /\ Len(Tail(cmds)) = Len(cmds) - 1 /\ Tail(cmds) \in Seq(Commands)
        /\ \A i \in 1..Len(Tail(cmds)) : Tail(cmds)[i] = cmds[i + 1]
    BY <1>2, <1>4, HeadTailProperties
  <2>6. \A i \in 1..Len(cmds') : cmds'[i] \in Dirs \/ (cmds'[i] = "PASV" /\ i = Len(cmds'))
    <3> SUFFICES ASSUME NEW i \in 1..Len(cmds')
                 PROVE  cmds'[i] \in Dirs \/ (cmds'[i] = "PASV" /\ i = Len(cmds'))
      OBVIOUS
    <3>1. Len(cmds') = Len(cmds) - 1 /\ cmds'[i] = cmds[i + 1]
      BY <2>4, <2>5
    <3>2. i + 1 \in 1..Len(cmds)
      BY <2>2, <3>1
    <3>3. cmds[i + 1] \in Dirs \/ (cmds[i + 1] = "PASV" /\ i + 1 = Len(cmds))
      BY <2>1, <3>2
    <3> QED
      BY <2>2, <3>1, <3>3
  <2>7. code = 227 => cmds' = <<>>
    BY <1>4, <2>4, QueueFacts
  <2>8. /\ Len(replies') = Len(replies) + 1 /\ replies'[Len(replies) + 1] = code
        /\ \A i \in 1..Len(replies) : replies'[i] = replies[i]
    BY <1>3, <1>4, AppendProperties DEF Served
  <2> QED
    BY <2>1, <2>2, <2>6, <2>7, <2>8 DEF InPasv
<1>9. at = "STOR" => InStor'
  <2> SUFFICES ASSUME at = "STOR"
               PROVE  InStor'
    OBVIOUS
  <2>1. cmds = <<"STOR">> /\ replies = <<>> /\ data = "open"
    BY <1>2, QueueFacts DEF IInv, WireInv, InStor
  <2>2. Tail(cmds) = <<>> /\ replies' = <<code>>
    BY <1>3, <2>1, QueueFacts DEF Served
  <2>3. <<"storing">> \o <<>> = <<"storing">>
    BY QueueFacts, ConcatEmptySeq DEF Commands
  <2> QED
    BY <1>1, <1>3, <2>1, <2>2, <2>3, QueueFacts DEF InStor, Served
<1>10. at \notin {"chunks", "final"}
  BY <1>2, QueueFacts DEF IInv, WireInv, InChunks, InFinal
<1>11. ~(at = "quit" /\ err = "none")
  BY <1>2 DEF IInv, WireInv
<1>12. Placed => Placed'
  <2> SUFFICES ASSUME Placed
               PROVE  Placed'
    OBVIOUS
  <2>1. ~p.emmc /\ cmds = <<"QUIT">> /\ store[path] = "whole"
    BY <1>2 DEF Placed
  <2>2. cmds' = <<>> /\ store' = store
    BY <1>3, <2>1, QueueFacts DEF Served
  <2> QED
    BY <1>1, <2>1, <2>2 DEF Placed
<1> QED
  BY <1>1, <1>2, <1>5, <1>6, <1>7, <1>8, <1>9, <1>10, <1>11, <1>12 DEF IInv, WireInv

(* The printer has stored what came, all of it when the job sent all.      *)
LEMMA StoresInv ==
  ASSUME IInv, PrinterStored
  PROVE  IInv'
<1>1. FlowInv' /\ UNCHANGED <<p, at, chan, path, sent, err, data, pub>> /\ JobType /\ WireType
  BY PrinterFlow DEF IInv, FlowInv, WireInv
<1>2. cmds # <<>> /\ Head(cmds) = "storing" /\ data = "eof" /\ cmds' = Tail(cmds)
  BY DEF PrinterStored
<1>3. \/ /\ store' = [store EXCEPT ![path] = IF sent = Chunks THEN "whole" ELSE "partial"]
         /\ replies' = Append(replies, 226)
      \/ store' = store /\ \E code \in {426, 451} : replies' = Append(replies, code)
  BY DEF PrinterStored
<1>4. cmds \in Seq(Commands) /\ replies \in Seq(Int) /\ path \in Dirs
  BY <1>1 DEF WireType, JobType
<1>5. cmds' \in Seq(Commands) /\ replies' \in Seq(Int)
  <2>1. cmds' \in Seq(Commands)
    BY <1>2, <1>4, HeadTailProperties
  <2>2. \A code \in Int : Append(replies, code) \in Seq(Int)
    BY <1>4, AppendProperties
  <2>3. \E code \in {226, 426, 451} : replies' = Append(replies, code)
    BY <1>3
  <2> QED
    BY <2>1, <2>2, <2>3
<1>6. WireType'
  BY <1>1, <1>3, <1>5 DEF WireType
<1>7. Len(cmds) \in Nat \ {0} /\ cmds[1] = "storing"
  BY <1>2, <1>4, EmptySeq
<1>8. at \notin Before /\ ~(at = "quit" /\ err = "none")
  BY <1>2 DEF IInv, WireInv
<1>9. at \notin LoginAts \cup {"CWD", "PASV", "STOR", "chunks"}
  <2>1. at \notin LoginAts
    BY <1>2, QueueFacts DEF IInv, WireInv, InLogin, LoginAts
  <2>2. at # "CWD"
    <3> SUFFICES ASSUME at = "CWD"
                 PROVE  FALSE
      OBVIOUS
    <3>1. Head(cmds) \in Dirs
      BY <1>2, HeadTailProperties DEF IInv, WireInv, InProbe
    <3> QED
      BY <1>2, <3>1 DEF Dirs
  <2>3. at # "PASV"
    BY <1>7 DEF IInv, WireInv, InPasv, Dirs
  <2>4. at \notin {"STOR", "chunks"}
    BY <1>2 DEF IInv, WireInv, InStor, InChunks
  <2> QED
    BY <2>1, <2>2, <2>3, <2>4
<1>10. at = "final" => InFinal'
  <2> SUFFICES ASSUME at = "final"
               PROVE  InFinal'
    OBVIOUS
  <2>1. sent = Chunks /\ cmds = <<"storing">> /\ replies = <<>>
    BY <1>2 DEF IInv, WireInv, InFinal
  <2>2. cmds' = <<>> /\ Append(replies, 226) = <<226>> /\ Append(replies, 426) = <<426>>
        /\ Append(replies, 451) = <<451>>
    BY <1>2, <2>1, QueueFacts
  <2>3. CASE replies' = Append(replies, 226)
             /\ store' = [store EXCEPT ![path] = IF sent = Chunks THEN "whole" ELSE "partial"]
    <3>1. store'[path'] = "whole"
      BY <1>1, <1>4, <2>1, <2>3 DEF WireType
    <3> QED
      BY <1>1, <2>1, <2>2, <2>3, <3>1 DEF InFinal
  <2>4. CASE replies' \in {Append(replies, 426), Append(replies, 451)}
    BY <1>1, <2>1, <2>2, <2>4 DEF InFinal
  <2> QED
    BY <1>3, <2>3, <2>4
<1>11. ~Placed
  BY <1>2, QueueFacts DEF Placed
<1> QED
  BY <1>1, <1>6, <1>8, <1>9, <1>10, <1>11 DEF IInv, WireInv

(* Studio cancels: early, as long as the order is not about to be given.   *)
LEMMA CancelInv ==
  ASSUME IInv, Cancel
  PROVE  IInv'
<1>1. /\ UNCHANGED <<p, at, chan, stage, rc, cloud, path, cands, sent, err, cmds, replies, data,
                     store, pub>>
      /\ at # "done" /\ cancel' \in {"early", "late"} /\ (cancel' = "early" => at # "publish")
  BY DEF Cancel, jobVars, cloudVars, ftpVars
<1>2. pub = NoPub /\ ProjectFile' = ProjectFile /\ (Placed <=> Placed')
  BY <1>1 DEF IInv, FlowInv, Returned, ProjectFile, FilePath, Url, Placed
<1>3. FlowInv'
  BY <1>1, <1>2 DEF IInv, FlowInv, JobType, Places, Returned, EarlyStops, InCloud
<1>4. WireInv'
  BY <1>1, <1>2 DEF IInv, WireInv, WireType, InLogin, InProbe, InPasv, InStor, InChunks, InFinal
<1> QED
  BY <1>3, <1>4 DEF IInv

(***************************************************************************)
(* The invariant is inductive.                                             *)
(***************************************************************************)

(* It holds when a job begins.                                             *)
LEMMA InitInv == Init => IInv
<1> SUFFICES ASSUME Init
             PROVE  IInv
  OBVIOUS
<1>1. p.kind \in {"local", "sdcard", "gcode", "cloud", "record"} /\ p.folder \in Dirs
  BY DEF Init, Params
<1>2. cands \in Seq(Dirs) /\ cmds \in Seq(Commands) /\ replies \in Seq(Int)
  BY EmptySeq DEF Init
<1>3. FlowInv
  BY <1>1, <1>2 DEF Init, FlowInv, JobType, Places, Returned, EarlyStops, InCloud, Channel, CloudType,
                    Ats, CloudAts, FtpAts, LoginAts
<1>4. WireInv
  BY <1>2 DEF Init, WireInv, WireType, CloudAts, LoginAts
<1> QED
  BY <1>3, <1>4 DEF IInv

(* No step breaks it.                                                      *)
LEMMA NextInv ==
  ASSUME IInv, [Next]_vars
  PROVE  IInv'
<1>1. CASE JobStep
  BY <1>1, StartInv, CloudInv, StorageInv, BrtcInv, DialInv, LoginInv, ProbeInv, ProbeReplyInv,
     PasvInv, StorReplyInv, ChunksInv, FinalInv, QuitInv, StoredInv, PublishInv DEF JobStep
<1>2. CASE UNCHANGED vars
  <2>1. UNCHANGED <<p, at, chan, stage, rc, cloud, path, cands, sent, err, cmds, replies, data,
                    store, cancel, pub>>
    BY <1>2 DEF vars, jobVars, cloudVars, ftpVars
  <2>2. ProjectFile' = ProjectFile /\ (Placed <=> Placed')
    BY <2>1 DEF ProjectFile, FilePath, Url, Placed
  <2>3. FlowInv'
    BY <2>1, <2>2 DEF IInv, FlowInv, JobType, Places, Returned, EarlyStops, InCloud
  <2>4. WireInv'
    BY <2>1, <2>2 DEF IInv, WireInv, WireType, InLogin, InProbe, InPasv, InStor, InChunks, InFinal
  <2> QED
    BY <2>3, <2>4 DEF IInv
<1> QED
  BY <1>1, <1>2, CancelInv, ServesInv, StoresInv DEF Next

(* The job, the cloud's side of it and the control connection stay in step *)
(* in every behaviour, whatever times out.                                 *)
THEOREM JobInvariant == Spec => []IInv
  BY InitInv, NextInv, PTL DEF Spec

(***************************************************************************)
(* The results.                                                            *)
(***************************************************************************)

(* OrderedIsStored holds: what the printer is ordered to print is what     *)
(* this job put, whole, where the order says.  It rests on the FTP client  *)
(* being in step with the server again once it has read a 227, although    *)
(* the replies to probes that timed out are still to come.                 *)
THEOREM OrderNamesStoredFile == Spec => []OrderedIsStored
<1>1. IInv => OrderedIsStored
  <2> SUFFICES ASSUME IInv, pub # NoPub, p.kind # "sdcard"
               PROVE  /\ IF pub.chan = "cloud" THEN cloud.main /\ cloud.url = "main"
                         ELSE store[pub.url] = "whole" /\ (pub.url # "emmc" => pub.file = pub.url)
                      /\ cloud.task \in {NoTask, pub.chan}
    BY DEF OrderedIsStored
  <2>1. /\ pub = ProjectFile /\ p.kind # "gcode" /\ chan \in {"lan", "cloud"}
        /\ cloud.task # NoTask => cloud.task = chan
        /\ p.kind \in {"local", "cloud", "record"} /\ (p.kind = "local" => chan = "lan")
    BY DEF IInv, FlowInv, Returned, JobType, InCloud, Places, Params
  <2>2. pub.chan = chan /\ pub.url = Url /\ pub.file = FilePath
    BY <2>1 DEF ProjectFile
  <2>3. CASE chan = "cloud"
    BY <2>1, <2>2, <2>3 DEF IInv, FlowInv, InCloud
  <2>4. CASE chan = "lan"
    <3>1. Placed
      BY <2>1, <2>4 DEF IInv, WireInv
    <3> QED
      BY <2>1, <2>2, <2>4, <3>1 DEF Placed, Url, FilePath
  <2> QED
    BY <2>1, <2>3, <2>4
<1> QED
  BY JobInvariant, <1>1, PTL

(* CancelledNotPrinted holds: a local print cancelled before its file is   *)
(* stored is not printed, and a job that reported a failure or a           *)
(* cancellation has printed nothing.                                       *)
THEOREM CancelStopsPrint == Spec => []CancelledNotPrinted
<1>1. IInv => CancelledNotPrinted
  BY DEF IInv, FlowInv, Returned, EarlyStops, CancelledNotPrinted
<1> QED
  BY JobInvariant, <1>1, PTL
=============================================================================
