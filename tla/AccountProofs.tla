---------------------------- MODULE AccountProofs ----------------------------
(***************************************************************************)
(* Proofs about module Account, for any accounts and presets and any       *)
(* number of logins, crashes and synchronisations.                         *)
(***************************************************************************)
EXTENDS Account, TLAPS

(***************************************************************************)
(* The inductive invariant.                                                *)
(***************************************************************************)

(* A session with a token holds the token of an account.                   *)
Session == {s \in [acct : Accounts \cup {NoOne}, tok : Nat, uid : Accounts \cup {NoOne}] :
                s.tok # 0 => s.acct \in Accounts}
File == Session \cup {None, Torn}
StoreOp == [at : {"write", "remove", "rename", "clear"}, s : Session]
LoginCall == {l \in [at : {"set", "profile"}, inline : BOOLEAN, s : Session] : l.s.acct \in Accounts}
SyncCall == [at : {"item", "done"}, listed : SUBSET Names, todo : SUBSET Names,
             uid : Accounts \cup {NoOne}]

StoreType ==
    /\ windows \in BOOLEAN /\ up \in {"down", "loading", "up"} /\ out \in BOOLEAN
    /\ mem \in Session /\ disk \in File /\ saved \in File
    /\ store \in StoreOp \cup {Idle} /\ issued \in Nat /\ login \in LoginCall \cup {Idle}

(* An operation of the store has changed the session before it writes, and *)
(* does not outlive the process; what is renamed is what was written.      *)
StoreInStep ==
    /\ store # Idle => up # "down" /\ mem = store.s
    /\ store.at \in {"remove", "rename"} => tmp = store.s
    /\ store.at = "clear" => store.s = Empty
    /\ store.at = "remove" => windows

(* The session file is whole, and where rename replaces a file it is the   *)
(* one saved last.                                                         *)
SavedOnDisk == disk # Torn /\ (~windows => disk = saved)

(* After a logout there is no token: neither in memory nor in the file.    *)
NoToken == out => mem.tok = 0 /\ (disk = None \/ disk.tok = 0)

StoreInv == StoreType /\ StoreInStep /\ SavedOnDisk /\ NoToken

(* The presets that are dealt with are in the cache.                       *)
SyncInv ==
    /\ catalog \in [Accounts -> SUBSET Names] /\ sync \in SyncCall \cup {Idle}
    /\ sync.at = "item" => sync.listed \ sync.todo \subseteq DOMAIN cache
    /\ PresetsComplete

IInv == StoreInv /\ SyncInv

USE DEF Empty, Idle

(***************************************************************************)
(* Sessions, files and calls.                                              *)
(***************************************************************************)

(* What is known of a session; no session is taken for a missing or torn   *)
(* file.                                                                   *)
LEMMA SessionFacts ==
  /\ Empty \in Session /\ Empty.tok = 0
  /\ \A s \in Session : /\ s.tok \in Nat /\ s.uid \in Accounts \cup {NoOne}
                        /\ s.tok # 0 => s.acct \in Accounts
                        /\ s # None /\ s # Torn
  BY AccountParameters DEF Session

(* A login makes a session.                                                *)
LEMMA MakeSession ==
  ASSUME NEW a \in Accounts, NEW t \in Nat, NEW u \in Accounts \cup {NoOne}
  PROVE  [acct |-> a, tok |-> t, uid |-> u] \in Session
  BY DEF Session

(* update_tokens and update_profile make sessions of sessions.             *)
LEMMA UpdateSession ==
  ASSUME NEW s \in Session
  PROVE  /\ \A t \in Nat : s.acct \in Accounts => [s EXCEPT !.tok = t] \in Session
         /\ \A u \in Accounts : /\ [s EXCEPT !.uid = u] \in Session
                                /\ [s EXCEPT !.uid = u].tok = s.tok
  BY DEF Session

(* A step of a store operation is one.                                     *)
LEMMA StoreOps ==
  /\ Idle.at = "idle"
  /\ \A o \in StoreOp : /\ o.at \in {"write", "remove", "rename", "clear"} /\ o # Idle
                        /\ o.s \in Session
                        /\ \A l \in {"remove", "rename"} :
                             /\ [o EXCEPT !.at = l] \in StoreOp
                             /\ [o EXCEPT !.at = l].at = l /\ [o EXCEPT !.at = l].s = o.s
  /\ \A l \in {"write", "clear"}, s \in Session :
        /\ [at |-> l, s |-> s] \in StoreOp
        /\ [at |-> l, s |-> s].at = l /\ [at |-> l, s |-> s].s = s
  BY DEF StoreOp

(* A synchronisation, and its next step.                                   *)
LEMMA SyncCalls ==
  /\ Idle.at = "idle"
  /\ \A y \in SyncCall :
       /\ y.at \in {"item", "done"} /\ y # Idle /\ y.listed \subseteq Names
       /\ y.todo \subseteq Names
       /\ \A n : /\ [y EXCEPT !.todo = y.todo \ {n}] \in SyncCall
                 /\ [y EXCEPT !.todo = y.todo \ {n}].todo = y.todo \ {n}
                 /\ [y EXCEPT !.todo = y.todo \ {n}].at = y.at
                 /\ [y EXCEPT !.todo = y.todo \ {n}].listed = y.listed
       /\ [y EXCEPT !.at = "done"] \in SyncCall
       /\ [y EXCEPT !.at = "done"].at = "done" /\ [y EXCEPT !.at = "done"].listed = y.listed
  BY DEF SyncCall

(* A login call, and its next step.                                        *)
LEMMA LoginCalls ==
  /\ Idle.at = "idle"
  /\ \A l \in LoginCall : /\ l.at \in {"set", "profile"} /\ l # Idle
                          /\ l.s \in Session /\ l.s.acct \in Accounts
                          /\ [l EXCEPT !.at = "profile"] \in LoginCall
  /\ \A i \in BOOLEAN, s \in Session :
        s.acct \in Accounts => [at |-> "set", inline |-> i, s |-> s] \in LoginCall
  BY DEF LoginCall

(***************************************************************************)
(* The store.                                                              *)
(***************************************************************************)

(* A store operation that begins keeps the invariant, provided that it     *)
(* brings no token after a logout.                                         *)
LEMMA PersistInv ==
  ASSUME StoreInv, NEW s \in Session, Persist(s), up' \in {"loading", "up"}, windows' = windows,
         issued' \in Nat, login' \in LoginCall \cup {Idle}, out' \in BOOLEAN,
         out' => out /\ s.tok = 0
  PROVE  StoreInv'
<1>1. StoreType'
  BY StoreOps DEF StoreInv, StoreType, Persist
<1>2. StoreInStep'
  BY StoreOps DEF StoreInStep, Persist
<1>3. SavedOnDisk' /\ NoToken'
  BY DEF StoreInv, SavedOnDisk, NoToken, Persist
<1> QED
  BY <1>1, <1>2, <1>3 DEF StoreInv

(* persist_locked, step by step, and the removal of the file by a logout.  *)
LEMMA StoreStepInv ==
  ASSUME StoreInv,
         PersistFails \/ PersistWrite \/ PersistRemove \/ PersistRename \/ LogoutRemoves
  PROVE  StoreInv'
<1> USE DEF StoreInv
<1>0. store # Idle => store \in StoreOp /\ store.s \in Session
  BY StoreOps DEF StoreType
<1>1. CASE PersistFails
  <2>1. StoreType' /\ SavedOnDisk' /\ NoToken'
    BY <1>1 DEF PersistFails, StoreType, SavedOnDisk, NoToken, userVars
  <2>2. StoreInStep'
    BY <1>1, StoreOps DEF PersistFails, StoreInStep
  <2> QED
    BY <2>1, <2>2
<1>2. CASE PersistWrite
  <2>1. store \in StoreOp
    BY <1>0, <1>2, StoreOps DEF PersistWrite
  <2>2. StoreType'
    BY <1>2, <2>1, StoreOps DEF PersistWrite, StoreType, userVars
  <2>3. StoreInStep'
    BY <1>2, <2>1, StoreOps DEF PersistWrite, StoreInStep, StoreType
  <2>4. SavedOnDisk' /\ NoToken'
    BY <1>2 DEF PersistWrite, SavedOnDisk, NoToken, userVars
  <2> QED
    BY <2>2, <2>3, <2>4
<1>3. CASE PersistRemove
  <2>1. store \in StoreOp
    BY <1>0, <1>3, StoreOps DEF PersistRemove
  <2>2. StoreType'
    BY <1>3, <2>1, StoreOps DEF PersistRemove, StoreType, userVars, File
  <2>3. windows /\ mem = store.s /\ tmp = store.s
    BY <1>3, <2>1, StoreOps DEF PersistRemove, StoreInStep
  <2>4. StoreInStep'
    BY <1>3, <2>1, <2>3, StoreOps DEF PersistRemove, StoreInStep
  <2>5. SavedOnDisk' /\ NoToken'
    BY <1>3, <2>3, AccountParameters DEF PersistRemove, SavedOnDisk, NoToken, userVars
  <2> QED
    BY <2>2, <2>4, <2>5
<1>4. CASE PersistRename
  <2>1. store \in StoreOp /\ tmp = store.s /\ mem = store.s /\ tmp \in Session
    BY <1>0, <1>4, StoreOps DEF PersistRename, StoreInStep
  <2>2. StoreType'
    BY <1>4, <2>1 DEF PersistRename, StoreType, userVars, File
  <2>3. StoreInStep'
    BY <1>4, StoreOps DEF PersistRename, StoreInStep
  <2>4. SavedOnDisk' /\ NoToken'
    BY <1>4, <2>1, SessionFacts DEF PersistRename, SavedOnDisk, NoToken, userVars
  <2> QED
    BY <2>2, <2>3, <2>4
<1>5. CASE LogoutRemoves
  <2>1. mem = Empty
    BY <1>0, <1>5, StoreOps DEF LogoutRemoves, StoreInStep
  <2>2. StoreType'
    BY <1>5 DEF LogoutRemoves, StoreType, File
  <2>3. StoreInStep'
    BY <1>5, StoreOps DEF LogoutRemoves, StoreInStep
  <2>4. SavedOnDisk' /\ NoToken'
    BY <1>5, <2>1, SessionFacts, AccountParameters
       DEF LogoutRemoves, SavedOnDisk, NoToken
  <2> QED
    BY <2>2, <2>3, <2>4
<1> QED
  BY <1>1, <1>2, <1>3, <1>4, <1>5

(* Startup and the end of the process: the next start finds the file.      *)
LEMMA ProcessInv ==
  ASSUME StoreInv, SetConfigDir \/ HydrateKeeps \/ HydrateRefresh \/ Crash
  PROVE  StoreInv'
<1> USE DEF StoreInv
<1>1. CASE SetConfigDir
  <2>1. store = Idle
    BY <1>1 DEF SetConfigDir, StoreInStep
  <2>2. mem' \in Session /\ (out => mem'.tok = 0)
    BY <1>1, SessionFacts DEF SetConfigDir, Load, StoreType, File, NoToken
  <2>3. StoreType'
    BY <1>1, <2>2 DEF SetConfigDir, StoreType, userVars
  <2>4. StoreInStep'
    BY <1>1, <2>1, StoreOps DEF SetConfigDir, StoreInStep
  <2>5. SavedOnDisk' /\ NoToken'
    BY <1>1, <2>2 DEF SetConfigDir, SavedOnDisk, NoToken, userVars
  <2> QED
    BY <2>3, <2>4, <2>5
<1>2. CASE HydrateKeeps
  BY <1>2 DEF HydrateKeeps, storeVars, userVars, StoreType, StoreInStep, SavedOnDisk, NoToken
<1>3. CASE HydrateRefresh
  <2>1. mem \in Session /\ mem.tok # 0 /\ mem.acct \in Accounts /\ ~out
    BY <1>3, SessionFacts DEF HydrateRefresh, LoggedIn, StoreType, NoToken
  <2>2. issued' \in Nat
    BY <1>3 DEF HydrateRefresh, RefreshToken, StoreType
  <2>3. [mem EXCEPT !.tok = issued'] \in Session
    BY <2>1, <2>2, UpdateSession
  <2> QED
    BY <1>3, <2>1, <2>2, <2>3, PersistInv DEF HydrateRefresh, StoreType
<1>4. CASE Crash
  <2>1. StoreType' /\ SavedOnDisk' /\ NoToken'
    BY <1>4, SessionFacts DEF Crash, StoreType, SavedOnDisk, NoToken
  <2>2. StoreInStep'
    BY <1>4, StoreOps DEF Crash, StoreInStep
  <2> QED
    BY <2>1, <2>2
<1> QED
  BY <1>1, <1>2, <1>3, <1>4

(* Login and logout.  The profile of a login that arrives after a logout   *)
(* names a user, and brings no token.                                      *)
LEMMA UserInv ==
  ASSUME StoreInv, ChangeUser \/ LoginSet \/ LoginProfile \/ Logout
  PROVE  StoreInv'
<1> USE DEF StoreInv
<1>0. login # Idle => login \in LoginCall /\ login.s \in Session /\ login.s.acct \in Accounts
  BY LoginCalls DEF StoreType
<1>1. CASE ChangeUser
  <2>1. issued' \in Nat /\ mem.uid \in Accounts \cup {NoOne}
    BY <1>1, SessionFacts DEF ChangeUser, LoginWithTicket, StoreType
  <2>2. login' \in LoginCall
    <3>1. PICK a \in Accounts, inline \in BOOLEAN :
            login' = [at |-> "set", inline |-> inline,
                      s |-> [acct |-> a, tok |-> issued', uid |-> mem.uid]]
      BY <1>1 DEF ChangeUser
    <3> QED
      BY <2>1, <3>1, MakeSession, LoginCalls
  <2>3. StoreType'
    BY <1>1, <2>1, <2>2 DEF ChangeUser, StoreType, storeVars
  <2> QED
    BY <1>1, <2>3 DEF ChangeUser, storeVars, StoreInStep, SavedOnDisk, NoToken
<1>2. CASE LoginSet
  <2>1. login \in LoginCall /\ login.s \in Session
    BY <1>0, <1>2, LoginCalls DEF LoginSet
  <2> QED
    BY <1>2, <2>1, LoginCalls, PersistInv DEF LoginSet, Free, StoreType
<1>3. CASE LoginProfile
  <2>1. login.s.acct \in Accounts /\ mem \in Session
    BY <1>0, <1>3, LoginCalls DEF LoginProfile, StoreType
  <2>2. /\ [mem EXCEPT !.uid = login.s.acct] \in Session
        /\ [mem EXCEPT !.uid = login.s.acct].tok = mem.tok
    BY <2>1, UpdateSession
  <2>3. CASE UpdateProfile
    BY <1>3, <2>2, <2>3, PersistInv DEF LoginProfile, UpdateProfile, Free, StoreType, NoToken
  <2>4. CASE UNCHANGED storeVars
    BY <1>3, <2>4 DEF LoginProfile, storeVars, StoreType, StoreInStep, SavedOnDisk, NoToken
  <2> QED
    BY <1>3, <2>3, <2>4 DEF LoginProfile
<1>4. CASE Logout
  <2>1. StoreType'
    BY <1>4, SessionFacts, StoreOps DEF Logout, StoreType, userVars
  <2>2. StoreInStep'
    BY <1>4, SessionFacts, StoreOps DEF Logout, Free, StoreInStep
  <2>3. SavedOnDisk' /\ NoToken'
    BY <1>4, SessionFacts DEF Logout, SavedOnDisk, NoToken, userVars
  <2> QED
    BY <2>1, <2>2, <2>3
<1> QED
  BY <1>1, <1>2, <1>3, <1>4

(***************************************************************************)
(* Presets.                                                                *)
(***************************************************************************)

(* What is neither a synchronisation nor the end of the process leaves     *)
(* the presets alone.                                                      *)
StoreStep ==
    \/ PersistFails \/ PersistWrite \/ PersistRemove \/ PersistRename
    \/ SetConfigDir \/ HydrateKeeps \/ HydrateRefresh
    \/ ChangeUser \/ LoginSet \/ LoginProfile \/ Logout \/ LogoutRemoves

SyncStep == SyncList \/ SyncItem \/ SyncCancelled \/ SyncDone \/ GetUserPresets
            \/ PutSetting \/ DeleteSetting

(* A synchronisation loses none of the presets it has dealt with, whoever  *)
(* logs in or out between two of them.                                     *)
LEMMA SyncStepInv ==
  ASSUME StoreInv, SyncInv, SyncStep
  PROVE  SyncInv'
<1> USE DEF SyncInv, PresetsComplete
<1>0. mem.tok # 0 => mem.acct \in Accounts /\ mem.uid \in Accounts \cup {NoOne}
  BY SessionFacts DEF StoreInv, StoreType
<1>1. CASE SyncList
  <2>1. catalog[mem.acct] \in SUBSET Names
    BY <1>0, <1>1 DEF SyncList
  <2>2. sync' \in SyncCall /\ sync'.at = "item" /\ sync'.listed = sync'.todo
    BY <1>0, <1>1, <2>1 DEF SyncList, SyncCall
  <2> QED
    BY <1>1, <2>2 DEF SyncList
<1>2. CASE SyncItem
  <2>1. PICK n \in sync.todo : /\ sync' = [sync EXCEPT !.todo = sync.todo \ {n}]
                               /\ \E values \in GetFull(n) : Put(n, values)
    BY <1>2 DEF SyncItem
  <2>2. DOMAIN cache' = DOMAIN cache \cup {n}
    BY <2>1 DEF Put
  <2>3. sync \in SyncCall /\ sync.at = "item"
    BY <1>2, SyncCalls DEF SyncItem
  <2>4. /\ sync' \in SyncCall /\ sync'.at = "item"
        /\ sync'.listed = sync.listed /\ sync'.todo = sync.todo \ {n}
    BY <2>1, <2>3, SyncCalls
  <2> QED
    BY <1>2, <2>2, <2>3, <2>4 DEF SyncItem
<1>3. CASE SyncCancelled
  BY <1>3, SyncCalls DEF SyncCancelled
<1>4. CASE SyncDone
  <2>1. sync \in SyncCall /\ sync.at = "item"
    BY <1>4, SyncCalls DEF SyncDone
  <2>2. sync' \in SyncCall /\ sync'.at = "done" /\ sync'.listed = sync.listed
    BY <1>4, <2>1, SyncCalls DEF SyncDone
  <2> QED
    BY <1>4, <2>1, <2>2 DEF SyncDone
<1>5. CASE GetUserPresets
  BY <1>5, SyncCalls DEF GetUserPresets
<1>6. CASE PutSetting \/ DeleteSetting
  <2>1. catalog' \in [Accounts -> SUBSET Names]
    BY <1>0, <1>6 DEF PutSetting, DeleteSetting
  <2> QED
    BY <1>6, <2>1 DEF PutSetting, DeleteSetting
<1> QED
  BY <1>1, <1>2, <1>3, <1>4, <1>5, <1>6 DEF SyncStep

(***************************************************************************)
(* The invariant is inductive.                                             *)
(***************************************************************************)

(* It holds before the first start.                                        *)
LEMMA InitInv == Init => IInv
<1> SUFFICES ASSUME Init
             PROVE  IInv
  OBVIOUS
<1>1. StoreType
  BY SessionFacts DEF Init, StoreType, File
<1>2. StoreInStep /\ SavedOnDisk /\ NoToken
  BY StoreOps, AccountParameters DEF Init, StoreInStep, SavedOnDisk, NoToken
<1>3. SyncInv
  BY SyncCalls DEF Init, SyncInv, PresetsComplete
<1> QED
  BY <1>1, <1>2, <1>3 DEF IInv, StoreInv

(* No step breaks it.                                                      *)
LEMMA NextInv ==
  ASSUME IInv, [Next]_vars
  PROVE  IInv'
<1> USE DEF IInv
<1>1. CASE StoreStep
  <2>1. StoreInv'
    BY <1>1, StoreStepInv, ProcessInv, UserInv DEF StoreStep
  <2>2. UNCHANGED <<sync, cache, catalog>>
    BY <1>1 DEF StoreStep, PersistFails, PersistWrite, PersistRemove, PersistRename, SetConfigDir,
                HydrateKeeps, HydrateRefresh, ChangeUser, LoginSet, LoginProfile, Logout,
                LogoutRemoves, syncVars
  <2> QED
    BY <2>1, <2>2 DEF SyncInv, PresetsComplete
<1>2. CASE Crash
  <2>1. SyncInv'
    BY <1>2, SyncCalls DEF Crash, SyncInv, PresetsComplete
  <2> QED
    BY <1>2, <2>1, ProcessInv
<1>3. CASE SyncStep
  <2>1. UNCHANGED <<windows, up, storeVars, userVars>>
    BY <1>3 DEF SyncStep, SyncList, SyncItem, SyncCancelled, SyncDone, GetUserPresets,
                PutSetting, DeleteSetting
  <2>2. StoreInv'
    BY <2>1 DEF StoreInv, StoreType, StoreInStep, SavedOnDisk, NoToken, storeVars, userVars
  <2> QED
    BY <1>3, <2>2, SyncStepInv
<1>4. CASE UNCHANGED vars
  BY <1>4 DEF vars, storeVars, userVars, syncVars, StoreInv, StoreType, StoreInStep, SavedOnDisk,
              NoToken, SyncInv, PresetsComplete
<1> QED
  BY <1>1, <1>2, <1>3, <1>4 DEF Next, StoreStep, SyncStep

(* The store, its file, the login under way and the presets stay in step   *)
(* in every behaviour.                                                     *)
THEOREM AccountInvariant == Spec => []IInv
  BY InitInv, NextInv, PTL DEF Spec

(***************************************************************************)
(* The results.                                                            *)
(***************************************************************************)

(* LoggedOutStaysOut holds: after a logout that removed the session file   *)
(* nobody is logged in, in memory or after a restart, until the next       *)
(* login; the invariant behind it is that no token is left, while a late   *)
(* profile may still name a user.                                          *)
THEOREM LogoutLasts == Spec => []LoggedOutStaysOut
<1>1. IInv => LoggedOutStaysOut
  BY DEF IInv, StoreInv, NoToken, LoggedOutStaysOut, LoggedIn
<1> QED
  BY AccountInvariant, <1>1, PTL

(* PresetsComplete holds: a synchronisation that ended well has every      *)
(* preset the cloud listed in the cache.                                   *)
THEOREM AllPresetsListed == Spec => []PresetsComplete
<1>1. IInv => PresetsComplete
  BY DEF IInv, SyncInv
<1> QED
  BY AccountInvariant, <1>1, PTL

(* SessionSurvives holds: where rename replaces a file, a process that     *)
(* died at any point of a store operation is started with the session      *)
(* that was saved last.                                                    *)
THEOREM SavedSessionSurvives == Spec => SessionSurvives
<1>1. ASSUME IInv, [Next]_vars
      PROVE  [up = "down" /\ up' = "loading" /\ ~windows =>
                mem' = IF saved = None THEN Empty ELSE saved]_vars
  <2> SUFFICES ASSUME up = "down", up' = "loading", ~windows
               PROVE  mem' = IF saved = None THEN Empty ELSE saved
    OBVIOUS
  <2>1. SetConfigDir
    BY <1>1 DEF Next, PersistFails, PersistWrite, PersistRemove, PersistRename, HydrateKeeps,
                HydrateRefresh, Crash, ChangeUser, LoginSet, LoginProfile, Logout, LogoutRemoves,
                SyncList, SyncItem, SyncCancelled, SyncDone, GetUserPresets, PutSetting,
                DeleteSetting, Free, vars
  <2>2. disk = saved /\ disk # Torn
    BY <1>1 DEF IInv, StoreInv, SavedOnDisk
  <2> QED
    BY <2>1, <2>2 DEF SetConfigDir, Load
<1> QED
  BY AccountInvariant, <1>1, PTL DEF Spec, SessionSurvives
=============================================================================
