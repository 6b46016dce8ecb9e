--------------------------- MODULE FirmwareRecord ---------------------------
(***************************************************************************)
(* The firmware record: what Agent::notify_local_message harvests from the *)
(* reports of a printer (update_fw_state, parse_module_into), and what     *)
(* render_firmware_json offers from it (src/src/agent.cpp).                *)
(*                                                                         *)
(* The record of one module, "ota".  The MQTT thread handles the reports   *)
(* in their order, under mu_.                                              *)
(***************************************************************************)
EXTENDS Integers, Sequences, FiniteSetsExt

CONSTANTS
    MaxVersion,  \* bound: firmware versions
    MaxReports      \* bound: reports on their way

ASSUME FirmwareParameters == {MaxVersion, MaxReports} \subseteq Nat \ {0}

VARIABLES
    printer,  \* external: the version installed, the one it offers or 0
    reports,     \* external: reports on their way
    fw        \* device_fw_: cur_ver and new_ver of "ota", 0 when empty

fwVars == <<printer, reports, fw>>

FirmwareInit ==
    /\ printer = [cur |-> 1, new |-> 0] /\ reports = <<>> /\ fw = [cur |-> 0, new |-> 0]

(* Mutant: a get_version reply only fills in, too.                         *)
ParseModule_FillOnly(m) ==
    [cur |-> IF fw.cur = 0 THEN m.cur ELSE fw.cur, new |-> IF fw.new = 0 THEN m.new ELSE fw.new]

(* parse_module_into: sw_ver and sw_new_ver of a get_version reply replace *)
(* when they are there; cur_ver and new_ver of a new_ver_list only fill in.*)
ParseModule(m) ==
    [cur |-> IF m.cur # 0 /\ (m.reply \/ fw.cur = 0) THEN m.cur ELSE fw.cur,
     new |-> IF m.new # 0 /\ (m.reply \/ fw.new = 0) THEN m.new ELSE fw.new]

(* update_fw_state.                                                        *)
NotifyFirmware ==
    /\ reports # <<>> /\ reports' = Tail(reports) /\ fw' = ParseModule(Head(reports))
    /\ UNCHANGED printer

(* version_compare: an unknown version is neither older nor newer.         *)
Newer(a, b) == a # 0 /\ b # 0 /\ a > b

(* render_firmware_json: the version offered for "ota".                    *)
Offered == IF Newer(fw.new, fw.cur) THEN {fw.new} ELSE {}

(***************************************************************************)
(* The printer (external).                                                 *)
(***************************************************************************)
Report(reply, new) ==
    /\ Len(reports) < MaxReports
    /\ reports' = Append(reports, [reply |-> reply, cur |-> printer.cur, new |-> new])
    /\ UNCHANGED <<printer, fw>>

(* The reply to get_version, which Studio asks for again and again, with   *)
(* sw_new_ver when there is an offer, or without it.                       *)
CompleteReply == Report(TRUE, printer.new)
SendReply == CompleteReply \/ Report(TRUE, 0)

(* A push with the new_ver_list, while there is an offer.                  *)
SendNewVersions == printer.new # 0 /\ Report(FALSE, printer.new)

FirmwareOffered ==
    /\ printer.cur < MaxVersion
    /\ \E v \in (Max({printer.cur, printer.new}) + 1)..MaxVersion : printer' = [printer EXCEPT !.new = v]
    /\ UNCHANGED <<reports, fw>>

FirmwareInstalled ==
    /\ printer.new # 0 /\ printer' = [cur |-> printer.new, new |-> 0]
    /\ UNCHANGED <<reports, fw>>

FirmwareNext ==
    \/ NotifyFirmware
    \/ SendReply \/ SendNewVersions \/ FirmwareOffered \/ FirmwareInstalled

FirmwareSpec == FirmwareInit /\ [][FirmwareNext]_fwVars

(* The MQTT thread runs, and the printer answers get_version, not always   *)
(* but again and again with sw_new_ver.  The code does not rely on that:   *)
(* "sw_new_ver (optional)", agent.cpp:451.                                 *)
FirmwareFairness == WF_fwVars(NotifyFirmware) /\ SF_fwVars(CompleteReply)

FirmwareFairSpec == FirmwareSpec /\ FirmwareFairness

(***************************************************************************)
(* Properties.                                                             *)
(***************************************************************************)

(* The record converges (agent.cpp:461-462): what render_firmware_json     *)
(* offers in the end is what the printer has on offer, and nothing once    *)
(* that is installed, in whatever order replies and pushes came.  It takes *)
(* replies with sw_new_ver: new_ver of a push only fills in (agent.cpp:480)*)
(* and nothing empties it, so what only pushes name is not offered once    *)
(* there was an offer before.                                              *)
OfferConverges ==
    <>[](/\ fw.cur = printer.cur
         /\ Offered = IF printer.new = 0 THEN {} ELSE {printer.new})
=============================================================================
