----------------------------- MODULE MCReports ------------------------------
(***************************************************************************)
(* TLC instance of the two modules that follow what the reports of a       *)
(* printer leave behind in the agent, SubtaskCovers and FirmwareRecord.    *)
(* They have no state in common, so a behaviour is one of either.          *)
(***************************************************************************)
EXTENDS SubtaskCovers, FirmwareRecord

VARIABLE subject  \* "covers" or "firmware"

reportVars == <<subject, allVars, fwVars>>

(* In a behaviour about covers the firmware is known, and stays as it is.  *)
ReportsInit ==
    /\ CoverInit
    /\ \/ subject = "firmware" /\ FirmwareInit
       \/ subject = "covers" /\ printer = [cur |-> 1, new |-> 0] /\ reports = <<>> /\ fw = printer

ReportsNext ==
    \/ subject = "covers" /\ CoverNext /\ UNCHANGED <<subject, fwVars>>
    \/ subject = "firmware" /\ FirmwareNext /\ UNCHANGED <<subject, allVars>>

ReportsSpec ==
    /\ ReportsInit /\ [][ReportsNext]_reportVars
    /\ \/ subject = "covers" /\ CoverFairness
       \/ subject = "firmware" /\ FirmwareFairness
=============================================================================
