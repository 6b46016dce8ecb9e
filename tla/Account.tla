------------------------------- MODULE Account -------------------------------
(***************************************************************************)
(* The user of the cloud: the session store and its file                   *)
(* (src/src/auth.cpp), login, logout and the refresh at startup            *)
(* (src/src/agent.cpp, cloud_auth.cpp, abi_user.cpp), and what is done in  *)
(* the user's name, the synchronisation of presets (abi_presets.cpp,       *)
(* cloud_presets.cpp).                                                     *)
(*                                                                         *)
(* The process may die at any point and be started again.  A store         *)
(* operation holds Store::mu_ while its file is written: no other thread   *)
(* takes a step that matters to the store meanwhile.                       *)
(***************************************************************************)
EXTENDS Integers, FiniteSets, Functions

CONSTANTS
    Accounts,    \* user accounts
    Names,       \* names of presets
    NoOne,       \* no account
    None,        \* no file
    Torn,        \* a file that was not written to its end
    MaxTokens,   \* bound: tokens the cloud issues
    MaxCrashes,  \* bound: times the process dies
    MaxSyncs     \* bound: synchronisations of presets

ASSUME AccountParameters ==
    /\ NoOne \notin Accounts /\ None # Torn /\ Names # {}
    /\ \A f \in {None, Torn} :
         f \notin [acct : Accounts \cup {NoOne}, tok : Nat, uid : Accounts \cup {NoOne}]
    /\ {MaxTokens, MaxCrashes, MaxSyncs} \subseteq Nat

VARIABLES
    windows,  \* the build: rename does not replace a file there
    up,       \* the process: "up", "loading" or "down"
    crashes,
    mem,      \* Store::s_
    disk,     \* obn.auth.json: a session, None or Torn
    tmp,      \* obn.auth.json.tmp
    store,    \* the store operation that holds mu_: its next step, its session
    issued,   \* external: tokens issued by the cloud
    login,    \* the change_user call under way
    out,      \* history: a logout has returned, and no login since
    saved,    \* history: what the last store operation to succeed left
    sync,     \* the get_setting_list2 call under way
    syncs,
    cache,    \* preset_cache_: name -> what is known of it
    catalog   \* external: the presets in the cloud, by account

storeVars == <<mem, disk, tmp, store, saved>>
userVars == <<issued, login, out>>
syncVars == <<sync, syncs, cache, catalog>>
vars == <<windows, up, crashes, storeVars, userVars, syncVars>>

(* A session: whose access token it holds, which one, and user_id.         *)
Empty == [acct |-> NoOne, tok |-> 0, uid |-> NoOne]
Idle == [at |-> "idle"]

(* Session::logged_in.                                                     *)
LoggedIn(s) == s.tok # 0 /\ s.uid # NoOne

Init ==
    /\ windows \in BOOLEAN /\ up = "down" /\ crashes = 0
    /\ mem = Empty /\ disk = None /\ tmp = None /\ store = Idle
    /\ issued = 0 /\ login = Idle /\ out = FALSE /\ saved = None
    /\ sync = Idle /\ syncs = 0 /\ cache = <<>>
    /\ catalog \in [Accounts -> SUBSET Names]

Free == up = "up" /\ store = Idle

(***************************************************************************)
(* The store.                                                              *)
(***************************************************************************)

(* set, update_tokens, update_profile: s_ changes, then persist_locked.    *)
Persist(s) ==
    mem' = s /\ store' = [at |-> "write", s |-> s] /\ UNCHANGED <<disk, tmp, saved>>

(* persist_locked gives up.                                                *)
PersistFails ==
    /\ store.at \in {"write", "rename"} /\ up # "down"
    /\ store' = Idle /\ tmp' = None
    /\ UNCHANGED <<windows, up, crashes, mem, disk, saved, userVars, syncVars>>

(* Mutant: the file itself is truncated and written.                       *)
PersistWrite_InPlace ==
    /\ store.at = "write" /\ up # "down"
    /\ tmp' = store.s /\ disk' = Torn
    /\ store' = [store EXCEPT !.at = "rename"]
    /\ UNCHANGED <<windows, up, crashes, mem, saved, userVars, syncVars>>

(* The sibling file is written and closed.                                 *)
PersistWrite ==
    /\ store.at = "write" /\ up # "down"
    /\ tmp' = store.s
    /\ store' = [store EXCEPT !.at = IF windows THEN "remove" ELSE "rename"]
    /\ UNCHANGED <<windows, up, crashes, mem, disk, saved, userVars, syncVars>>

(* On Windows the old file goes first.                                     *)
PersistRemove ==
    /\ store.at = "remove" /\ up # "down"
    /\ disk' = None /\ store' = [store EXCEPT !.at = "rename"]
    /\ UNCHANGED <<windows, up, crashes, mem, tmp, saved, userVars, syncVars>>

PersistRename ==
    /\ store.at = "rename" /\ up # "down"
    /\ disk' = tmp /\ tmp' = None /\ saved' = tmp /\ store' = Idle
    /\ UNCHANGED <<windows, up, crashes, mem, userVars, syncVars>>

(***************************************************************************)
(* Startup: set_config_dir, which Studio calls before anything else.       *)
(***************************************************************************)

(* Store::load_locked: no file, or one that does not parse, is no session. *)
Load == mem' = IF disk \in {None, Torn} THEN Empty ELSE disk

SetConfigDir ==
    /\ up = "down" /\ up' = "loading" /\ Load
    /\ UNCHANGED <<windows, crashes, disk, tmp, store, saved, userVars, syncVars>>

(* hydrate_session: nothing to refresh, or the cloud refuses.              *)
HydrateKeeps ==
    /\ up = "loading" /\ store = Idle /\ up' = "up"
    /\ UNCHANGED <<windows, crashes, storeVars, userVars, syncVars>>

(* refresh_token: new tokens for the account.                              *)
RefreshToken == issued < MaxTokens /\ issued' = issued + 1

(* hydrate_session: the tokens are old, and refreshed; update_tokens.      *)
HydrateRefresh ==
    /\ up = "loading" /\ store = Idle /\ LoggedIn(mem)
    /\ RefreshToken /\ Persist([mem EXCEPT !.tok = issued'])
    /\ up' = "up"
    /\ UNCHANGED <<windows, crashes, login, out, syncVars>>

(* The process dies; a file being written is left torn.                    *)
Crash ==
    /\ up # "down" /\ crashes < MaxCrashes /\ up' = "down" /\ crashes' = crashes + 1
    /\ mem' = Empty /\ store' = Idle /\ login' = Idle
    /\ tmp' = IF store.at = "write" THEN Torn ELSE tmp
    /\ sync' = Idle /\ cache' = <<>>
    /\ UNCHANGED <<windows, disk, saved, issued, out, syncs, catalog>>

(***************************************************************************)
(* Login and logout.                                                       *)
(***************************************************************************)

(* login_with_ticket: the tokens Studio hands to change_user.              *)
LoginWithTicket == issued < MaxTokens /\ issued' = issued + 1

(* change_user with the answer of get_my_token, or with the envelope       *)
(* Studio made, which has the profile in it: apply_login_info up to the    *)
(* snapshot of the session, whose other fields it keeps.                   *)
ChangeUser ==
    /\ Free /\ login = Idle /\ LoginWithTicket
    /\ \E a \in Accounts, inline \in BOOLEAN :
        login' = [at |-> "set", inline |-> inline,
                  s |-> [acct |-> a, tok |-> issued', uid |-> mem.uid]]
    /\ UNCHANGED <<windows, up, crashes, storeVars, out, syncVars>>

LoginSet ==
    /\ Free /\ login.at = "set"
    /\ Persist(login.s) /\ out' = FALSE
    /\ login' = [login EXCEPT !.at = "profile"]
    /\ UNCHANGED <<windows, up, crashes, issued, syncVars>>

(* Mutant: the profile is saved with the session it was asked for.         *)
UpdateProfile_WritesSession == Persist([login.s EXCEPT !.uid = login.s.acct])

(* Store::update_profile: whatever session is there gets the user_id.      *)
UpdateProfile == Persist([mem EXCEPT !.uid = login.s.acct])

(* get_profile, unless the profile came with the login.                    *)
GetProfile == IF login.inline THEN {TRUE} ELSE BOOLEAN

(* Without a profile the session stays as it is.                           *)
LoginProfile ==
    /\ Free /\ login.at = "profile" /\ login' = Idle
    /\ \E ok \in GetProfile : IF ok THEN UpdateProfile ELSE UNCHANGED storeVars
    /\ UNCHANGED <<windows, up, crashes, issued, out, syncVars>>

(* clear_session: Store::clear ...                                         *)
Logout ==
    /\ Free /\ mem' = Empty /\ store' = [at |-> "clear", s |-> Empty]
    /\ UNCHANGED <<windows, up, crashes, disk, tmp, saved, userVars, syncVars>>

(* ... removes the file; an error is ignored.                              *)
LogoutRemoves ==
    /\ store.at = "clear" /\ up = "up" /\ store' = Idle
    /\ \/ disk' = None /\ saved' = None /\ out' = TRUE
       \/ disk # None /\ UNCHANGED <<disk, saved, out>>
    /\ UNCHANGED <<windows, up, crashes, mem, tmp, issued, login, syncVars>>

(***************************************************************************)
(* Presets.                                                                *)
(***************************************************************************)

(* cloud_presets::list, with the token of the session, then                *)
(* preset_cache_reset and the user_id for the entries.  A body that does   *)
(* not parse lists nothing, with success (parse_body).                     *)
SyncList ==
    /\ Free /\ sync = Idle /\ syncs < MaxSyncs /\ mem.tok # 0
    /\ \E l \in {catalog[mem.acct], {}} :
        sync' = [at |-> "item", listed |-> l, todo |-> l, uid |-> mem.uid]
    /\ syncs' = syncs + 1 /\ cache' = <<>>
    /\ UNCHANGED <<windows, up, crashes, storeVars, userVars, catalog>>

(* meta_to_minimal_values_map.                                             *)
Minimal == [full |-> FALSE, uid |-> sync.uid]

(* fill_values_from_full: the user_id is that of the session of now.       *)
Full == [full |-> TRUE, uid |-> mem.uid]

(* get_full needs a token of the account that has the preset.              *)
GetFull(n) == IF mem.tok # 0 /\ n \in catalog[mem.acct] THEN {Full, Minimal} ELSE {Minimal}

(* preset_cache_put.                                                       *)
Put(n, values) == cache' = [m \in DOMAIN cache \cup {n} |-> IF m = n THEN values ELSE cache[m]]

(* Mutant: a preset that cannot be had is left out.                        *)
SyncItem_SkipsFailed ==
    /\ Free /\ sync.at = "item"
    /\ \E n \in sync.todo :
        /\ sync' = [sync EXCEPT !.todo = @ \ {n}]
        /\ \/ \E values \in GetFull(n) : values.full /\ Put(n, values)
           \/ UNCHANGED cache
    /\ UNCHANGED <<windows, up, crashes, storeVars, userVars, syncs, catalog>>

(* One preset of the list: not wanted, had in full, or failed.             *)
SyncItem ==
    /\ Free /\ sync.at = "item"
    /\ \E n \in sync.todo :
        /\ sync' = [sync EXCEPT !.todo = @ \ {n}]
        /\ \E values \in GetFull(n) : Put(n, values)
    /\ UNCHANGED <<windows, up, crashes, storeVars, userVars, syncs, catalog>>

(* cancel_fn: the call returns an error, with the cache as it is.          *)
SyncCancelled ==
    /\ Free /\ sync.at = "item" /\ sync.todo # {} /\ sync' = Idle
    /\ UNCHANGED <<windows, up, crashes, storeVars, userVars, syncs, cache, catalog>>

SyncDone ==
    /\ Free /\ sync.at = "item" /\ sync.todo = {}
    /\ sync' = [sync EXCEPT !.at = "done"]
    /\ UNCHANGED <<windows, up, crashes, storeVars, userVars, syncs, cache, catalog>>

(* bambu_network_get_user_presets: preset_cache_drain.                     *)
GetUserPresets ==
    /\ Free /\ sync.at = "done" /\ sync' = Idle /\ cache' = <<>>
    /\ UNCHANGED <<windows, up, crashes, storeVars, userVars, syncs, catalog>>

(* create and update; another Studio of the user may do the same.          *)
PutSetting ==
    /\ Free /\ mem.tok # 0
    /\ \E n \in Names : catalog' = [catalog EXCEPT ![mem.acct] = @ \cup {n}]
    /\ UNCHANGED <<windows, up, crashes, storeVars, userVars, sync, syncs, cache>>

DeleteSetting ==
    /\ Free /\ mem.tok # 0
    /\ \E n \in Names : catalog' = [catalog EXCEPT ![mem.acct] = @ \ {n}]
    /\ UNCHANGED <<windows, up, crashes, storeVars, userVars, sync, syncs, cache>>

Next ==
    \/ PersistFails \/ PersistWrite \/ PersistRemove \/ PersistRename
    \/ SetConfigDir \/ HydrateKeeps \/ HydrateRefresh \/ Crash
    \/ ChangeUser \/ LoginSet \/ LoginProfile \/ Logout \/ LogoutRemoves
    \/ SyncList \/ SyncItem \/ SyncCancelled \/ SyncDone \/ GetUserPresets \/ PutSetting \/ DeleteSetting

Spec == Init /\ [][Next]_vars

(***************************************************************************)
(* Properties.                                                             *)
(***************************************************************************)

(* Once a logout has removed the file nobody is logged in, nor after a     *)
(* restart, until a login comes; though the profile of an earlier login    *)
(* may still arrive, and is saved.                                         *)
LoggedOutStaysOut ==
    out => /\ ~LoggedIn(mem)
           /\ disk \in {None, Torn} \/ ~LoggedIn(disk)

(* The process may die at any point of a store operation: where rename     *)
(* replaces a file, the next start finds the session that was saved last,  *)
(* with the tokens refreshed last.                                         *)
SessionSurvives ==
    [][up = "down" /\ up' = "loading" /\ ~windows =>
        mem' = IF saved = None THEN Empty ELSE saved]_vars

(* Studio erases the presets that get_user_presets leaves out.  After a    *)
(* synchronisation that succeeded none that the reply listed is left out,  *)
(* though single ones could not be had, or the user has changed meanwhile. *)
(* A reply that could not be parsed listed none, and protects none.        *)
PresetsComplete == sync.at = "done" => sync.listed \subseteq DOMAIN cache
=============================================================================
