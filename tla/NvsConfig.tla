----------------------------- MODULE NvsConfig -----------------------------
(***************************************************************************)
(* The configuration that a sensor node keeps in flash (wifi_manager.c,    *)
(* wifi_manager_save_sta_config and wifi_manager_fetch_wifi_sta_config,    *)
(* and the mutex of nvs_sync.c).                                           *)
(*                                                                         *)
(* The configuration is three blobs, "ssid", "password" and "settings".    *)
(* A save compares each blob with wifi_manager_config_sta and writes those *)
(* that differ, one after the other, then commits.  Meanwhile httpd may    *)
(* write a new configuration into wifi_manager_config_sta, which no lock   *)
(* protects; each access to flash may fail; and the power may be cut.      *)
(* A blob that is written and not committed may or may not survive a cut.  *)
(***************************************************************************)
EXTENDS Naturals

CONSTANTS
    Ssids, Passwords,   \* what a user can enter
    Blank,              \* an erased string
    NotFound            \* a key that flash does not hold

ASSUME BlankAssumption == Blank \notin Ssids \cup Passwords
ASSUME NotFoundAssumption ==
    NotFound \notin Ssids \cup Passwords \cup {Blank}
(* The settings of a node are neither all zero nor a missing key.          *)
ASSUME SettingsAssumption == "default" \notin {Blank, NotFound}

Order == <<"ssid", "password", "settings">>  \* of the accesses in save and fetch
Keys == {"ssid", "password", "settings"}
After == [ssid |-> "password", password |-> "settings", settings |-> "commit"]

Configs == [ssid : Ssids \cup {Blank}, password : Passwords \cup {Blank},
            settings : {"default"}]
Erased == [ssid |-> Blank, password |-> Blank, settings |-> "default"]

VARIABLES
    config,    \* wifi_manager_config_sta and wifi_settings
    flash,     \* the blobs as a read returns them
    durable,   \* the blobs as of the last commit
    held,      \* is nvs_sync_mutex taken?
    mpc,       \* manager: "boot", "idle", or its next step in a save
    change,    \* save: has a blob been written?
    readError, \* save: esp_err, is it the error of the last nvs_get_blob?
    decision,  \* what the fetch at boot led to: "none", "restore" or "ap"
    attempt,   \* is the station using a configuration that a user posted?
    hpc, hreq, \* http_server_post_handler: next step, and the request
    clean,     \* history: has nothing disturbed the save under way?
    saved,     \* history: the configuration of the last undisturbed save
    torn,      \* history: was a save disturbed since then?
    unread,    \* history: did the fetch at boot fail to read a blob?
    leaked     \* history: did a save return without giving the mutex?

httpVars == <<hpc, hreq>>
saveVars == <<mpc, change, readError, clean>>
flashVars == <<flash, durable>>
vars == <<config, flashVars, held, saveVars, decision, attempt, httpVars,
          saved, torn, unread, leaked>>

Saving == mpc \in Keys \cup {"commit"}

Init ==
    /\ config = Erased
    /\ flash = [k \in Keys |-> NotFound] /\ durable = flash
    /\ held = FALSE
    /\ mpc = "boot" /\ change = FALSE /\ readError = FALSE
    /\ decision = "none" /\ attempt = FALSE
    /\ hpc = "idle" /\ hreq = Erased
    /\ clean = TRUE /\ saved = Erased /\ torn = FALSE
    /\ unread = FALSE /\ leaked = FALSE

-----------------------------------------------------------------------------
(* nvs_sync.c.                                                             *)

(* nvs_sync_lock(portMAX_DELAY)                                            *)
SyncLock == ~held /\ held' = TRUE

SyncUnlock == held' = FALSE

-----------------------------------------------------------------------------
(* wifi_manager_fetch_wifi_sta_config, called once, before the access      *)
(* point or the station lets anybody in: nobody else uses the flash or the *)
(* configuration.  It reads the first n blobs, and fails at the next one,  *)
(* which is missing or cannot be read.                                     *)
Fetched(n) ==
    [k \in Keys |-> IF \E i \in 1..n : Order[i] = k THEN flash[k] ELSE Erased[k]]

(* Mutant: a blob that is not found is copied like one that is.            *)
FetchStaConfigUnchecked(n) ==
    /\ config' = Fetched(n)
    /\ unread' = (n < 3)
    /\ decision' = IF n = 3 /\ config'.ssid # Blank THEN "restore" ELSE "ap"

(* Mutant: the fetch succeeds whatever the ssid.                           *)
FetchStaConfigAnySsid(n) ==
    /\ \A i \in 1..n : flash[Order[i]] # NotFound
    /\ config' = Fetched(n)
    /\ unread' = (n < 3 /\ flash[Order[n + 1]] # NotFound)
    /\ decision' = IF n = 3 THEN "restore" ELSE "ap"

FetchStaConfig(n) ==
    /\ \A i \in 1..n : flash[Order[i]] # NotFound
    /\ config' = Fetched(n)
    /\ unread' = (n < 3 /\ flash[Order[n + 1]] # NotFound)
    /\ decision' = IF n = 3 /\ config'.ssid # Blank THEN "restore" ELSE "ap"

(* case WM_ORDER_LOAD_AND_RESTORE_STA of the manager.                      *)
LoadAndRestore ==
    /\ mpc = "boot"
    /\ \E n \in 0..3 : FetchStaConfig(n)
    /\ mpc' = "idle"
    /\ UNCHANGED <<flashVars, held, change, readError, clean, attempt,
                   httpVars, saved, torn, leaked>>

-----------------------------------------------------------------------------
(* What makes the manager save.                                            *)

(* case WM_EVENT_STA_GOT_IP, when the request bit is not that of a         *)
(* restored connection: a user's attempt, or a later address of a station. *)
GotIp ==
    /\ mpc = "idle" /\ (attempt \/ decision = "restore")
    /\ mpc' = "lock"
    /\ UNCHANGED <<config, flashVars, held, change, readError, clean, decision,
                   attempt, httpVars, saved, torn, unread, leaked>>

(* case WM_EVENT_STA_DISCONNECTED, when a user asked for it.               *)
UserDisconnected ==
    /\ mpc = "idle" /\ (attempt \/ decision = "restore")
    /\ config' = Erased
    /\ attempt' = FALSE /\ decision' = "ap"
    /\ mpc' = "lock"
    /\ UNCHANGED <<flashVars, held, change, readError, clean, httpVars, saved,
                   torn, unread, leaked>>

-----------------------------------------------------------------------------
(* wifi_manager_save_sta_config.                                           *)

(* A return; its local variables are gone.                                 *)
Return ==
    /\ mpc' = "idle"
    /\ change' = FALSE /\ readError' = FALSE /\ clean' = TRUE

Enter ==
    /\ mpc' = "ssid"
    /\ clean' = (hpc = "idle")
    /\ UNCHANGED <<change, readError>>

(* Mutant: the mutex is kept when the namespace cannot be opened.          *)
OpenNotUnlocking ==
    /\ mpc = "lock" /\ SyncLock
    /\ Enter \/ Return
    /\ UNCHANGED <<config, flashVars, decision, attempt, httpVars, saved,
                   torn, unread, leaked>>

(* nvs_sync_lock and nvs_open, which may fail.                             *)
Open ==
    /\ mpc = "lock"
    /\ \/ SyncLock /\ Enter
       \/ ~held /\ SyncUnlock /\ Return
    /\ UNCHANGED <<config, flashVars, decision, attempt, httpVars, saved,
                   torn, unread, leaked>>

(* A buffer that starts zeroed equals an erased string, found or not; the  *)
(* settings are never all zero.                                            *)
Differs(k) ==
    flash[k] # config[k] /\ ~(flash[k] = NotFound /\ config[k] = Blank)

Unchanged(k) ==
    /\ ~Differs(k)
    /\ mpc' = After[k]
    /\ UNCHANGED <<flash, held, change, readError, clean, torn>>

(* nvs_get_blob fails: the blob is skipped; only the error of the last     *)
(* blob is still in esp_err at the end.                                    *)
ReadFails(k) ==
    /\ readError' = (k = "settings")
    /\ clean' = FALSE
    /\ mpc' = After[k]
    /\ UNCHANGED <<flash, held, change, torn>>

WriteBlob(k) ==
    /\ Differs(k)
    /\ flash' = [flash EXCEPT ![k] = config[k]]
    /\ change' = TRUE
    /\ mpc' = After[k]
    /\ UNCHANGED <<held, readError, clean, torn>>

WriteFails(k) ==
    /\ Differs(k)
    /\ SyncUnlock
    /\ Return
    /\ torn' = (torn \/ change)
    /\ UNCHANGED flash

(* Mutant: the password is written with a new ssid only.                   *)
SaveBlobWithSsidOnly(k) ==
    /\ mpc = k
    /\ \/ Unchanged(k) \/ ReadFails(k) \/ WriteFails(k)
       \/ (k = "password" => change) /\ WriteBlob(k)
       \/ k = "password" /\ ~change /\ mpc' = After[k]
          /\ UNCHANGED <<flash, held, change, readError, clean, torn>>
    /\ UNCHANGED <<config, durable, decision, attempt, httpVars, saved, unread,
                   leaked>>

SaveBlob(k) ==
    /\ mpc = k
    /\ Unchanged(k) \/ ReadFails(k) \/ WriteBlob(k) \/ WriteFails(k)
    /\ UNCHANGED <<config, durable, decision, attempt, httpVars, saved, unread,
                   leaked>>

(* nvs_commit if a blob was written, nvs_close, nvs_sync_unlock.  A commit *)
(* that fails, or a read error that no commit overwrote, returns before    *)
(* the mutex is given back.                                                *)
CommitBlobs ==
    /\ mpc = "commit" /\ Return
    /\ \/ /\ change \/ ~readError
          /\ durable' = IF change THEN flash ELSE durable
          /\ SyncUnlock
          /\ saved' = IF clean THEN config ELSE saved
          /\ torn' = ~clean
          /\ UNCHANGED leaked
       \/ /\ change \/ readError
          /\ leaked' = TRUE
          /\ torn' = (torn \/ change)
          /\ UNCHANGED <<durable, held, saved>>
    /\ UNCHANGED <<config, flash, decision, attempt, httpVars, unread>>

-----------------------------------------------------------------------------
(* http_server_post_handler, POST /connect.json: the httpd task writes     *)
(* wifi_manager_config_sta in three steps and no lock.                     *)

Disturbs == clean' = (clean /\ ~Saving)

PostBegin ==
    /\ hpc = "idle" /\ decision # "none"
    /\ \E s \in Ssids, p \in Passwords :
         hreq' = [Erased EXCEPT !.ssid = s, !.password = p]
    /\ config' = Erased
    /\ hpc' = "ssid"
    /\ Disturbs
    /\ UNCHANGED <<flashVars, held, mpc, change, readError, decision, attempt,
                   saved, torn, unread, leaked>>

PostCopySsid ==
    /\ hpc = "ssid"
    /\ config' = [config EXCEPT !.ssid = hreq.ssid]
    /\ hpc' = "password"
    /\ Disturbs
    /\ UNCHANGED <<flashVars, held, mpc, change, readError, decision, attempt,
                   hreq, saved, torn, unread, leaked>>

(* ... and wifi_manager_connect_async, so that the station tries it.       *)
PostCopyPassword ==
    /\ hpc = "password"
    /\ config' = [config EXCEPT !.password = hreq.password]
    /\ attempt' = TRUE
    /\ hpc' = "idle" /\ hreq' = Erased
    /\ Disturbs
    /\ UNCHANGED <<flashVars, held, mpc, change, readError, decision, saved,
                   torn, unread, leaked>>

-----------------------------------------------------------------------------
(* The power is cut, or the chip resets.  Of a blob written since the last *)
(* commit, flash keeps the old value or the new one.                       *)
PowerCut ==
    /\ flash' \in [Keys -> {flash[k] : k \in Keys} \cup {durable[k] : k \in Keys}]
    /\ \A k \in Keys : flash'[k] \in {flash[k], durable[k]}
    /\ durable' = flash'
    /\ torn' = (torn \/ flash # durable \/ (Saving /\ change))
    /\ config' = Erased
    /\ held' = FALSE
    /\ mpc' = "boot" /\ change' = FALSE /\ readError' = FALSE /\ clean' = TRUE
    /\ decision' = "none" /\ attempt' = FALSE
    /\ hpc' = "idle" /\ hreq' = Erased
    /\ unread' = FALSE /\ leaked' = FALSE
    /\ UNCHANGED saved

SaveStaConfig == Open \/ (\E k \in Keys : SaveBlob(k)) \/ CommitBlobs

Manager == LoadAndRestore \/ SaveStaConfig

Next ==
    \/ Manager \/ GotIp \/ UserDisconnected
    \/ PostBegin \/ PostCopySsid \/ PostCopyPassword
    \/ PowerCut

Spec == Init /\ [][Next]_vars

(* The manager's task runs until it waits for the mutex.                   *)
FairSpec == Spec /\ WF_vars(Manager)

-----------------------------------------------------------------------------
Blobs == [ssid : Ssids \cup {Blank, NotFound},
          password : Passwords \cup {Blank, NotFound},
          settings : {"default", NotFound}]

TypeOK ==
    /\ config \in Configs /\ saved \in Configs /\ hreq \in Configs
    /\ flash \in Blobs /\ durable \in Blobs
    /\ mpc \in {"boot", "idle", "lock", "commit"} \cup Keys
    /\ decision \in {"none", "restore", "ap"}
    /\ hpc \in {"idle", "ssid", "password"}
    /\ \A b \in {held, change, readError, attempt, clean, torn, unread, leaked} :
         b \in BOOLEAN

(* A blob as the next boot takes it: a missing string is an empty one.     *)
Stored(k) == IF flash[k] = NotFound THEN Blank ELSE flash[k]

(* Whatever posts, failed accesses and power cuts came before: unless the  *)
(* last save was disturbed, flash holds ssid and password of one           *)
(* configuration, the one last saved (wifi_manager_save_sta_config writes  *)
(* them one by one and skips those it takes for equal).                    *)
FlashIsSaved ==
    mpc \in {"boot", "idle", "lock"} /\ ~torn =>
        Stored("ssid") = saved.ssid /\ Stored("password") = saved.password

(* A boot that can read its flash restores exactly the configuration last  *)
(* saved, and opens the access point if there is none, also when the power *)
(* was cut at any moment between two saves or early in one                 *)
(* (wifi_manager_fetch_wifi_sta_config).                                   *)
BootFollowsSaved ==
    [][mpc = "boot" /\ mpc' = "idle" /\ ~torn /\ ~unread' =>
         /\ decision' = "restore" <=> saved.ssid # Blank
         /\ decision' = "restore" => config' = saved]_vars

(* A save waits for nvs_sync_mutex only if an earlier one returned without *)
(* giving it back; no other return, failed write or power cut keeps it     *)
(* (nvs_sync_lock, nvs_sync_unlock).                                       *)
MutexFree == mpc = "lock" /\ held => leaked

(* A save ends, whatever access to flash fails in it, and the next one is  *)
(* not kept out by the mutex; the exceptions are the two returns that keep *)
(* it (nvs_sync_lock with portMAX_DELAY).                                  *)
SaveReturns == mpc = "lock" ~> (mpc \in {"idle", "boot"} \/ leaked)
=============================================================================
