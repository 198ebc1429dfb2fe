--------------------------- MODULE NvsConfig_proofs ---------------------------
(***************************************************************************)
(* Proofs about NvsConfig, for any ssids and passwords and any number of   *)
(* posts, failed accesses to flash and power cuts: type correctness, that  *)
(* flash holds the configuration saved last unless its save was disturbed, *)
(* and that a boot follows it.                                             *)
(***************************************************************************)
EXTENDS NvsConfig, TLAPS

USE BlankAssumption, NotFoundAssumption, SettingsAssumption

(***************************************************************************)
(* Type correctness                                                        *)
(***************************************************************************)

(* The types hold at the first boot.                                       *)
LEMMA TypeInit == Init => TypeOK
<1> SUFFICES ASSUME Init PROVE TypeOK
  OBVIOUS
<1>1. flash \in Blobs /\ durable \in Blobs
  BY DEF Init, Blobs, Keys
<1>2. config \in Configs /\ saved \in Configs /\ hreq \in Configs
  BY DEF Init, Erased, Configs
<1> QED
  BY <1>1, <1>2 DEF Init, TypeOK

(* What the fetch at boot copies is a configuration.                       *)
LEMMA FetchedType ==
    ASSUME TypeOK, NEW n \in 0..3, \A i \in 1..n : flash[Order[i]] # NotFound
    PROVE  Fetched(n) \in Configs
<1> DEFINE g == [k \in Keys |-> Fetched(n)[k]]
<1>1. Order[1] = "ssid" /\ Order[2] = "password" /\ Order[3] = "settings"
  BY DEF Order
<1>2. ASSUME NEW k \in Keys, \E i \in 1..n : Order[i] = k
      PROVE  flash[k] # NotFound
  BY <1>2
<1>3. /\ flash["ssid"] \in Ssids \cup {Blank, NotFound}
      /\ flash["password"] \in Passwords \cup {Blank, NotFound}
      /\ flash["settings"] \in {"default", NotFound}
  BY DEF TypeOK, Blobs
<1>4. /\ Fetched(n)["ssid"] \in Ssids \cup {Blank}
      /\ Fetched(n)["password"] \in Passwords \cup {Blank}
      /\ Fetched(n)["settings"] \in {"default"}
  BY <1>2, <1>3 DEF Fetched, Keys, Erased
<1>5. Fetched(n) = [k \in Keys |-> Fetched(n)[k]]
  BY DEF Fetched
<1> QED
  BY <1>4, <1>5 DEF Configs, Keys

(* The types are inductive.                                                *)
LEMMA TypeNext ==
    ASSUME TypeOK, [Next]_vars
    PROVE  TypeOK'
<1> USE DEF TypeOK, httpVars, saveVars, flashVars
<1>1. CASE UNCHANGED vars
  BY <1>1 DEF vars
<1>2. CASE LoadAndRestore
  <2>1. config' \in Configs /\ decision' \in {"restore", "ap"} /\ unread' \in BOOLEAN
    BY <1>2, FetchedType DEF LoadAndRestore, FetchStaConfig
  <2> QED
    BY <1>2, <2>1 DEF LoadAndRestore
<1>3. CASE GotIp
  BY <1>3 DEF GotIp
<1>4. CASE UserDisconnected
  BY <1>4 DEF UserDisconnected, Erased, Configs
<1>5. CASE Open
  BY <1>5 DEF Open, SyncLock, SyncUnlock, Enter, Return, Keys
<1>6. ASSUME NEW k \in Keys, SaveBlob(k)
      PROVE  TypeOK'
  <2>1. CASE Unchanged(k)
    BY <1>6, <2>1 DEF SaveBlob, Unchanged, After, Keys
  <2>2. CASE ReadFails(k)
    <3>1. readError' \in BOOLEAN
      BY <2>2 DEF ReadFails
    <3>2. mpc' \in {"boot", "idle", "lock", "commit"} \cup Keys
      BY <2>2 DEF ReadFails, After, Keys
    <3>3. clean' = FALSE /\ UNCHANGED <<flash, held, change, torn>>
      BY <2>2 DEF ReadFails
    <3> QED
      BY <1>6, <3>1, <3>2, <3>3 DEF SaveBlob
  <2>3. CASE WriteBlob(k)
    BY <1>6, <2>3 DEF SaveBlob, WriteBlob, After, Keys, Blobs, Configs
  <2>4. CASE WriteFails(k)
    BY <1>6, <2>4 DEF SaveBlob, WriteFails, Return, SyncUnlock
  <2> QED
    BY <1>6, <2>1, <2>2, <2>3, <2>4 DEF SaveBlob
<1>7. CASE CommitBlobs
  BY <1>7 DEF CommitBlobs, Return, SyncUnlock
<1>8. CASE PostBegin
  BY <1>8 DEF PostBegin, Disturbs, Erased, Configs
<1>9. CASE PostCopySsid
  BY <1>9 DEF PostCopySsid, Disturbs, Configs
<1>10. CASE PostCopyPassword
  BY <1>10 DEF PostCopyPassword, Disturbs, Configs, Erased
<1>11. CASE PowerCut
  BY <1>11 DEF PowerCut, Erased, Configs, Blobs, Keys
<1> QED
  BY <1>1, <1>2, <1>3, <1>4, <1>5, <1>6, <1>7, <1>8, <1>9, <1>10, <1>11
     DEF Next, Manager, SaveStaConfig

(* Configuration and flash have their shape in every state: the fetch      *)
(* never copies a blob that is not there, whatever the power cuts left.    *)
THEOREM TypeCorrect == Spec => []TypeOK
<1> QED
  BY TypeInit, TypeNext, PTL DEF Spec

(***************************************************************************)
(* The inductive invariant                                                 *)
(***************************************************************************)

(* Until the fetch, nobody lets a user in and nothing is configured.       *)
BootState ==
    /\ mpc = "boot" <=> decision = "none"
    /\ mpc = "boot" => hpc = "idle" /\ ~attempt /\ config.ssid = Blank

(* A request in the works has a password.                                  *)
RequestWhole == hpc # "idle" => hreq.password \in Passwords

(* An ssid without password that may get saved was fetched from flash.     *)
PasswordStored ==
    /\ hpc = "idle" /\ config.ssid # Blank /\ config.password = Blank
    /\ attempt \/ decision = "restore" \/ mpc # "idle"
    => flash["password"] # NotFound

(* Flash holds the configuration saved last, with all its blobs unless it  *)
(* is the erased one.                                                      *)
HoldsSaved ==
    /\ Stored("ssid") = saved.ssid /\ Stored("password") = saved.password
    /\ saved.ssid # Blank => \A k \in Keys : flash[k] # NotFound

(* ... as long as the save under way has not written anything.             *)
UntouchedHoldsSaved == ~torn /\ ~(Saving /\ change) => HoldsSaved

(* The blobs that a save has behind it.                                    *)
Passed(k) ==
    \/ k = "ssid" /\ mpc \in {"password", "settings", "commit"}
    \/ k = "password" /\ mpc \in {"settings", "commit"}
    \/ k = "settings" /\ mpc = "commit"

(* A save that nothing disturbed has them equal to the configuration.      *)
CleanIsWritten ==
    Saving /\ clean =>
        /\ hpc = "idle"
        /\ \A k \in Keys : Passed(k) => ~Differs(k)

FlashInv ==
    /\ TypeOK /\ BootState /\ RequestWhole /\ PasswordStored
    /\ UntouchedHoldsSaved /\ CleanIsWritten

(* Nothing has been saved at the first boot.                               *)
LEMMA FlashInit == Init => FlashInv
<1> SUFFICES ASSUME Init PROVE FlashInv
  OBVIOUS
<1>1. TypeOK
  BY TypeInit
<1>2. BootState /\ RequestWhole /\ PasswordStored /\ CleanIsWritten
  BY DEF Init, BootState, RequestWhole, PasswordStored, CleanIsWritten,
         Saving, Keys, Erased
<1>3. UntouchedHoldsSaved
  BY DEF Init, UntouchedHoldsSaved, HoldsSaved, Stored, Erased, Keys
<1> QED
  BY <1>1, <1>2, <1>3 DEF FlashInv

(* What the invariant says about a boot that could read its flash: it      *)
(* takes the configuration saved last, whole, or opens the access point.   *)
LEMMA BootFollows ==
    ASSUME FlashInv, LoadAndRestore, ~torn, ~unread'
    PROVE  /\ decision' = "restore" <=> saved.ssid # Blank
           /\ decision' = "restore" => config' = saved
<1>1. PICK n \in 0..3 : FetchStaConfig(n)
  BY DEF LoadAndRestore
<1>2. HoldsSaved
  BY DEF FlashInv, UntouchedHoldsSaved, LoadAndRestore, Saving, Keys
<1>3. Order[1] = "ssid" /\ Order[2] = "password" /\ Order[3] = "settings"
  BY DEF Order
<1>4. /\ flash["ssid"] \in Ssids \cup {Blank, NotFound}
      /\ flash["password"] \in Passwords \cup {Blank, NotFound}
      /\ flash["settings"] \in {"default", NotFound}
      /\ saved \in Configs
  BY DEF FlashInv, TypeOK, Blobs
<1>5. CASE n = 3
  <2>1. \A k \in Keys : flash[k] # NotFound
    BY <1>1, <1>3, <1>5 DEF FetchStaConfig, Keys
  <2>2. \A k \in Keys : config'[k] = flash[k]
    BY <1>1, <1>3, <1>5 DEF FetchStaConfig, Fetched, Keys
  <2>3. /\ flash["ssid"] = saved["ssid"] /\ flash["password"] = saved["password"]
        /\ flash["settings"] = saved["settings"]
    BY <1>2, <1>4, <2>1 DEF HoldsSaved, Stored, Keys, Configs
  <2>4. config' = [k \in Keys |-> config'[k]]
    BY <1>1 DEF FetchStaConfig, Fetched
  <2>5. saved = [k \in Keys |-> saved[k]]
    BY <1>4 DEF Configs, Keys
  <2>6. \A k \in Keys : config'[k] = saved[k]
    BY <2>2, <2>3 DEF Keys
  <2>7. config' = saved
    BY <2>4, <2>5, <2>6
  <2>8. decision' = IF n = 3 /\ config'.ssid # Blank THEN "restore" ELSE "ap"
    BY <1>1 DEF FetchStaConfig
  <2> QED
    BY <1>5, <2>7, <2>8
<1>6. CASE n # 3
  <2>1. flash[Order[n + 1]] = NotFound
    <3>1. n < 3
      BY <1>6
    <3>2. unread' = (n < 3 /\ flash[Order[n + 1]] # NotFound)
      BY <1>1 DEF FetchStaConfig
    <3> QED
      BY <3>1, <3>2, Zenon
  <2>2. Order[n + 1] \in Keys
    BY <1>3, <1>6 DEF Keys
  <2>3. saved.ssid = Blank
    BY <1>2, <2>1, <2>2 DEF HoldsSaved
  <2> QED
    BY <1>1, <1>6, <2>3 DEF FetchStaConfig
<1> QED
  BY <1>5, <1>6

(* What is in flash, and what the save under way has still to write, make  *)
(* the configuration to be saved.                                          *)
LEMMA FlashNext ==
    ASSUME FlashInv, [Next]_vars
    PROVE  FlashInv'
<1> USE DEF httpVars, saveVars, flashVars
<1>1. TypeOK /\ TypeOK'
  BY TypeNext DEF FlashInv
<1>2. /\ config \in Configs /\ saved \in Configs /\ hreq \in Configs
      /\ flash \in Blobs /\ durable \in Blobs
      /\ mpc \in {"boot", "idle", "lock", "commit"} \cup Keys
      /\ hpc \in {"idle", "ssid", "password"}
      /\ clean \in BOOLEAN /\ torn \in BOOLEAN /\ change \in BOOLEAN
  BY <1>1 DEF TypeOK
<1>3. /\ BootState /\ RequestWhole /\ PasswordStored
      /\ UntouchedHoldsSaved /\ CleanIsWritten
  BY DEF FlashInv
<1> USE DEF BootState, RequestWhole, PasswordStored, UntouchedHoldsSaved,
            CleanIsWritten, HoldsSaved, Saving, Passed, Differs, Stored, Keys
<1>4. SUFFICES /\ BootState' /\ RequestWhole' /\ PasswordStored'
               /\ UntouchedHoldsSaved' /\ CleanIsWritten'
  BY <1>1 DEF FlashInv
<1>5. CASE UNCHANGED vars
  BY <1>3, <1>5 DEF vars
<1>6. CASE LoadAndRestore
  <2>1. decision' = "restore" => flash["password"] # NotFound
    BY <1>6 DEF LoadAndRestore, FetchStaConfig, Order
  <2>2. decision' \in {"restore", "ap"}
    BY <1>6 DEF LoadAndRestore, FetchStaConfig
  <2> QED
    BY <1>2, <1>3, <1>6, <2>1, <2>2 DEF LoadAndRestore
<1>7. CASE GotIp
  BY <1>2, <1>3, <1>7 DEF GotIp
<1>8. CASE UserDisconnected
  BY <1>2, <1>3, <1>8 DEF UserDisconnected, Erased
<1>9. CASE Open
  BY <1>2, <1>3, <1>9 DEF Open, SyncLock, SyncUnlock, Enter, Return
<1>10. ASSUME NEW k \in Keys, SaveBlob(k)
       PROVE  /\ BootState' /\ RequestWhole' /\ PasswordStored'
              /\ UntouchedHoldsSaved' /\ CleanIsWritten'
  <2>1. CASE Unchanged(k)
    BY <1>2, <1>3, <1>10, <2>1 DEF SaveBlob, Unchanged, After
  <2>2. CASE ReadFails(k)
    BY <1>2, <1>3, <1>10, <2>2 DEF SaveBlob, ReadFails, After
  <2>3. CASE WriteBlob(k)
    BY <1>2, <1>3, <1>10, <2>3 DEF SaveBlob, WriteBlob, After, Blobs, Configs
  <2>4. CASE WriteFails(k)
    BY <1>2, <1>3, <1>10, <2>4 DEF SaveBlob, WriteFails, Return, SyncUnlock
  <2> QED
    BY <1>10, <2>1, <2>2, <2>3, <2>4 DEF SaveBlob
<1>11. CASE CommitBlobs
  <2>1. /\ mpc = "commit" /\ mpc' = "idle" /\ change' = FALSE
        /\ UNCHANGED <<config, flash, decision, attempt, hpc, hreq>>
    BY <1>11 DEF CommitBlobs, Return
  <2>2. CASE (~torn' => ~torn /\ ~change) /\ saved' = saved
    BY <1>2, <1>3, <2>1, <2>2
  <2>3. CASE (~torn' => clean) /\ saved' = IF clean THEN config ELSE saved
    <3>1. CASE clean
      <4>1. \A k \in Keys : ~Differs(k)
        BY <1>3, <2>1, <3>1
      <4>2. flash["settings"] = "default" /\ config["settings"] = "default"
        BY <1>2, <4>1, NotFoundAssumption DEF Configs, Blobs
      <4>3. Stored("ssid") = config.ssid /\ Stored("password") = config.password
        BY <1>2, <4>1 DEF Configs
      <4>4. config.ssid # Blank => flash["password"] # NotFound
        BY <1>2, <1>3, <2>1, <3>1, <4>1 DEF Configs
      <4> QED
        BY <1>2, <1>3, <2>1, <2>3, <3>1, <4>2, <4>3, <4>4
    <3>2. CASE ~clean
      BY <1>2, <1>3, <2>1, <2>3, <3>2
    <3> QED
      BY <3>1, <3>2
  <2>4. \/ torn' = ~clean /\ saved' = IF clean THEN config ELSE saved
        \/ torn' = (torn \/ change) /\ saved' = saved
    BY <1>11, Zenon DEF CommitBlobs
  <2> QED
    BY <2>2, <2>3, <2>4, Zenon
<1>12. CASE PostBegin
  BY <1>2, <1>3, <1>12 DEF PostBegin, Disturbs, Erased
<1>13. CASE PostCopySsid
  BY <1>2, <1>3, <1>13 DEF PostCopySsid, Disturbs
<1>14. CASE PostCopyPassword
  BY <1>2, <1>3, <1>14 DEF PostCopyPassword, Disturbs
<1>15. CASE PowerCut
  BY <1>2, <1>3, <1>15 DEF PowerCut, Erased
<1> QED
  BY <1>5, <1>6, <1>7, <1>8, <1>9, <1>10, <1>11, <1>12, <1>13, <1>14, <1>15
     DEF Next, Manager, SaveStaConfig

(* Unless the last save was disturbed, flash holds ssid and password of    *)
(* the configuration last saved, whichever blobs that save skipped, and    *)
(* whatever was posted, failed or cut off before                           *)
(* (wifi_manager_save_sta_config).                                         *)
THEOREM FlashCorrect == Spec => []FlashIsSaved
<1>1. FlashInv => FlashIsSaved
  BY DEF FlashInv, FlashIsSaved, UntouchedHoldsSaved, HoldsSaved, Saving, Keys
<1> QED
  BY FlashInit, FlashNext, <1>1, PTL DEF Spec

(* A boot that can read its flash restores exactly the configuration last  *)
(* saved, or opens the access point if there is none                       *)
(* (wifi_manager_fetch_wifi_sta_config).                                   *)
THEOREM BootCorrect == Spec => BootFollowsSaved
<1>1. ASSUME FlashInv, [Next]_vars
      PROVE  [mpc = "boot" /\ mpc' = "idle" /\ ~torn /\ ~unread' =>
                 /\ decision' = "restore" <=> saved.ssid # Blank
                 /\ decision' = "restore" => config' = saved]_vars
  <2>1. SUFFICES ASSUME mpc = "boot", mpc' = "idle", Next
                 PROVE  LoadAndRestore
    BY <1>1, <2>1, BootFollows
  <2>2. CASE PowerCut
    BY <2>1, <2>2 DEF PowerCut
  <2>3. CASE \E k \in Keys : SaveBlob(k)
    BY <2>1, <2>3 DEF SaveBlob, Keys
  <2> QED
    BY <2>1, <2>2, <2>3
       DEF Next, Manager, SaveStaConfig, GotIp, UserDisconnected, Open,
           CommitBlobs, PostBegin, PostCopySsid, PostCopyPassword
<1> QED
  BY FlashInit, FlashNext, <1>1, PTL DEF Spec, BootFollowsSaved

(***************************************************************************)
(* The mutex                                                               *)
(***************************************************************************)

(* The mutex is held by the save under way or leaked by an earlier one.    *)
MutexInv == (held <=> Saving \/ leaked) /\ ~(Saving /\ leaked)

(* A save waits for the mutex only if an earlier one returned with it.     *)
THEOREM MutexCorrect == Spec => []MutexFree
<1> USE DEF MutexInv, Saving, Keys
<1>1. Init => MutexInv
  BY DEF Init
<1>2. ASSUME TypeOK, MutexInv, [Next]_vars
      PROVE  MutexInv'
  <2> USE DEF httpVars, saveVars, flashVars
  <2>1. CASE UNCHANGED <<held, mpc, leaked>>
    BY <1>2, <2>1
  <2>2. CASE LoadAndRestore \/ GotIp \/ UserDisconnected \/ PowerCut
    BY <1>2, <2>2 DEF LoadAndRestore, GotIp, UserDisconnected, PowerCut
  <2>3. CASE Open
    BY <1>2, <2>3 DEF Open, SyncLock, SyncUnlock, Enter, Return
  <2>4. ASSUME NEW k \in Keys, SaveBlob(k)
        PROVE  MutexInv'
    <3>1. mpc = k /\ UNCHANGED leaked
      BY <2>4 DEF SaveBlob
    <3>2. CASE mpc' = After[k] /\ UNCHANGED held
      BY <1>2, <3>1, <3>2 DEF After
    <3>3. CASE WriteFails(k)
      BY <1>2, <3>1, <3>3 DEF WriteFails, Return, SyncUnlock
    <3> QED
      BY <2>4, <3>2, <3>3 DEF SaveBlob, Unchanged, ReadFails, WriteBlob
  <2>5. CASE CommitBlobs
    <3>1. /\ mpc = "commit" /\ mpc' = "idle"
          /\ \/ held' = FALSE /\ leaked' = leaked
             \/ leaked' = TRUE /\ held' = held
      BY <2>5, Zenon DEF CommitBlobs, Return, SyncUnlock
    <3>2. held = TRUE /\ leaked = FALSE
      BY <1>2, <3>1 DEF TypeOK
    <3>3. \/ held' = FALSE /\ leaked' = FALSE
          \/ held' = TRUE /\ leaked' = TRUE
      BY <3>1, <3>2
    <3> QED
      BY <3>1, <3>3
  <2>6. CASE PostBegin \/ PostCopySsid \/ PostCopyPassword \/ UNCHANGED vars
    BY <2>1, <2>6 DEF PostBegin, PostCopySsid, PostCopyPassword, vars
  <2> QED
    BY <1>2, <2>2, <2>3, <2>4, <2>5, <2>6 DEF Next, Manager, SaveStaConfig
<1>3. MutexInv => MutexFree
  BY DEF MutexFree
<1> QED
  BY TypeCorrect, <1>1, <1>2, <1>3, PTL DEF Spec
=============================================================================
