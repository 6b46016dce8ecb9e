-------------------------- MODULE FileTransferApi ---------------------------
(***************************************************************************)
(* What the File-Transfer ABI promises the host application, with neither  *)
(* threads, locks nor reference counts: jobs are started, take turns on    *)
(* one session, and end with exactly one result.  Module FileTransfer is   *)
(* shown to implement this specification.                                  *)
(***************************************************************************)
CONSTANTS Jobs, None

VARIABLES
    kind,     \* what a job is for
    state,    \* "created", "running" or "done"
    asked,    \* its cancellation was asked for
    turn,     \* the job that is using the session
    open,     \* the session is open
    known,    \* the printer's abilities are known
    answer,   \* what a job got, before its result is published
    result    \* its result

vars == <<kind, state, asked, turn, open, known, answer, result>>

Init ==
    /\ kind \in [Jobs -> {"ability", "upload", "download", "unknown"}]
    /\ state = [j \in Jobs |-> "created"] /\ asked = [j \in Jobs |-> FALSE]
    /\ turn = None /\ open = FALSE /\ known = FALSE
    /\ answer = [j \in Jobs |-> "unset"] /\ result = [j \in Jobs |-> "unset"]

Start(j) ==
    /\ state[j] = "created" /\ state' = [state EXCEPT ![j] = "running"]
    /\ UNCHANGED <<kind, asked, turn, open, known, answer, result>>

AskCancel(j) ==
    /\ asked' = [asked EXCEPT ![j] = TRUE]
    /\ UNCHANGED <<kind, state, turn, open, known, answer, result>>

(* The session is opened and closed only between turns.                    *)
OpenOrClose ==
    /\ turn = None /\ open' = ~open
    /\ UNCHANGED <<kind, state, asked, turn, known, answer, result>>

(* One job at a time, on an open session.                                  *)
Begin(j) ==
    /\ state[j] = "running" /\ kind[j] # "unknown" /\ answer[j] = "unset"
    /\ turn = None /\ turn' = j /\ open' = TRUE
    /\ UNCHANGED <<kind, state, asked, known, answer, result>>

(* Only a transfer whose cancellation was asked for ends as cancelled.     *)
End(j, e) ==
    /\ turn = j /\ turn' = None
    /\ e = "ecancelled" => asked[j] /\ kind[j] # "ability"
    /\ answer' = [answer EXCEPT ![j] = e]
    /\ known' = (known \/ (kind[j] = "ability" /\ e = "ok"))
    /\ UNCHANGED <<kind, state, asked, open, result>>

(* Without a turn: an ability known from an earlier job, or a failure.     *)
Shortcut(j, e) ==
    /\ state[j] = "running" /\ answer[j] = "unset" /\ turn # j
    /\ e = "ok" => kind[j] = "ability" /\ known
    /\ answer' = [answer EXCEPT ![j] = e]
    /\ UNCHANGED <<kind, state, asked, turn, open, known, result>>

(* The result is what the job got; a job that got nothing has failed.      *)
Publish(j) ==
    /\ state[j] = "running" /\ turn # j
    /\ state' = [state EXCEPT ![j] = "done"]
    /\ result' = [result EXCEPT ![j] = IF answer[j] = "unset" THEN "eio" ELSE answer[j]]
    /\ UNCHANGED <<kind, asked, turn, open, known, answer>>

Next ==
    \/ OpenOrClose
    \/ \E j \in Jobs :
        \/ Start(j) \/ AskCancel(j) \/ Begin(j) \/ Publish(j)
        \/ \E e \in {"ok", "eio", "ecancelled"} : End(j, e)
        \/ \E e \in {"ok", "eio"} : Shortcut(j, e)

Spec == Init /\ [][Next]_vars
=============================================================================
