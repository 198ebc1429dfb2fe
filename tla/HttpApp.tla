------------------------------ MODULE HttpApp ------------------------------
(***************************************************************************)
(* The web pages of a sensor: the handlers of http_app.c, the start and    *)
(* stop of the server, and the two JSON texts that wifi_manager.c prepares *)
(* for the pages, with the mutex that protects them.                       *)
(*                                                                         *)
(* The httpd task runs one handler at a time.  The manager refreshes the   *)
(* list of access points and the status, and stops and starts the server   *)
(* with every change of the access point.  The URLs that the handlers      *)
(* compare a request with are on the heap and protected by nothing.        *)
(***************************************************************************)
EXTENDS ApFilter

CONSTANT QueueLength   \* of wifi_manager_queue

ASSUME QueueLengthAssumption == QueueLength \in Nat \ {0}

Kinds == {"ap", "status", "page", "connect", "delete"}
Texts == {"whole", "torn", "unclosed"}

VARIABLES
    server,     \* httpd_handle: "off", "running" or "stopping"
    root,       \* is http_root_url a pointer to a URL?
    others,     \* ... and the other URLs?
    hpc, hkind, \* httpd: next step of a handler, and the kind of its request
    mutex,      \* wifi_manager_json_mutex: "free", "httpd" or "manager"
    apJson,     \* accessp_json
    ipJson,     \* ip_info_json
    queue,      \* wifi_manager_queue
    mpc,        \* manager: its next step, or "idle"
    panicked    \* has httpd crashed on a URL that is freed?

serverVars == <<server, root, others>>
jsonVars == <<mutex, apJson, ipJson>>
httpdVars == <<hpc, hkind>>
managerVars == <<mpc, filterVars>>
vars == <<serverVars, httpdVars, jsonVars, queue, managerVars, panicked>>

(* "status" is a got-ip or a disconnection; "order" any message that the   *)
(* manager handles without the pages.                                      *)
Messages == {"scan_done", "status", "load", "start_ap", "stop_ap", "order"}

(* wifi_manager before its loop: http_app_start, which may fail but leaves *)
(* the URLs, and the order to load the configuration.                      *)
Init ==
    /\ server \in {"running", "off"} /\ root = TRUE /\ others = TRUE
    /\ hpc = "idle" /\ hkind = "page"
    /\ mutex = "free" /\ apJson = "whole" /\ ipJson = "whole"
    /\ queue = <<"load">>
    /\ mpc = "idle" /\ FilterInit
    /\ panicked = FALSE

-----------------------------------------------------------------------------
(* The manager.                                                            *)

(* The event loop and the timers put messages into the queue; the retry    *)
(* timer's is an order to connect.                                         *)
Event ==
    /\ Len(queue) < QueueLength
    /\ \E m \in {"scan_done", "status", "order", "stop_ap"} :
         queue' = Append(queue, m)
    /\ UNCHANGED <<serverVars, httpdVars, jsonVars, managerVars, panicked>>

(* Mutant: http_app_stop does not ask whether there is a server.           *)
ReceiveStoppingAlways ==
    /\ mpc = "idle" /\ queue # <<>>
    /\ queue' = Tail(queue)
    /\ CASE Head(queue) = "scan_done" -> mpc' \in {"list", "idle"}
         [] Head(queue) = "status" -> mpc' = "status"
         [] Head(queue) = "load" -> mpc' \in {"send_connect", "send_start_ap"}
         [] Head(queue) = "start_ap" -> mpc' = "free"
         [] Head(queue) = "stop_ap" -> mpc' \in {"free", "idle"}
         [] OTHER -> mpc' = "idle"
    /\ UNCHANGED <<serverVars, httpdVars, jsonVars, filterVars, panicked>>

(* http_app_stop, which does nothing without a server.                     *)
Stop == IF server = "off" THEN "start" ELSE "free"

(* xQueueReceive.  A scan may have failed; there is a saved configuration  *)
(* to connect with or not; STOP_AP asks whether the node is connected; it  *)
(* and START_AP stop and start the server.                                 *)
Receive ==
    /\ mpc = "idle" /\ queue # <<>>
    /\ queue' = Tail(queue)
    /\ CASE Head(queue) = "scan_done" -> mpc' \in {"list", "idle"}
         [] Head(queue) = "status" -> mpc' = "status"
         [] Head(queue) = "load" -> mpc' \in {"send_connect", "send_start_ap"}
         [] Head(queue) = "start_ap" -> mpc' = Stop
         [] Head(queue) = "stop_ap" -> mpc' \in {Stop, "idle"}
         [] OTHER -> mpc' = "idle"
    /\ UNCHANGED <<serverVars, httpdVars, jsonVars, filterVars, panicked>>

(* wifi_manager_lock_json_buffer for 1 s, after which the old list stays;  *)
(* the records that the driver has copied are read only with the mutex.    *)
LockList ==
    /\ mpc = "list"
    /\ \/ mutex = "free" /\ mutex' = "manager" /\ mpc' = "filter"
          /\ \E scan \in BoundedSeq(Records, MaxAps) : Begin(scan)
       \/ mutex = "httpd" /\ mpc' = "idle"
          /\ UNCHANGED <<mutex, filterVars>>
    /\ UNCHANGED <<serverVars, httpdVars, apJson, ipJson, queue, panicked>>

FilterList ==
    /\ mpc = "filter" /\ FilterUnique
    /\ mpc' = IF loop' = "none" THEN "generate" ELSE "filter"
    /\ UNCHANGED <<serverVars, httpdVars, jsonVars, queue, panicked>>

(* wifi_manager_generate_acess_points_json: the bracket is closed with the *)
(* last access point, so it stays open without one.                        *)
BeginList ==
    /\ mpc = "generate" /\ mpc' = "close"
    /\ apJson' = "torn"
    /\ UNCHANGED <<serverVars, httpdVars, mutex, ipJson, queue, filterVars,
                   panicked>>

(* ... and wifi_manager_unlock_json_buffer.                                *)
EndList ==
    /\ mpc = "close" /\ mpc' = "idle"
    /\ apJson' = IF records = <<>> THEN "unclosed" ELSE "whole"
    /\ records' = <<>> /\ scanned' = <<>>
    /\ UNCHANGED <<loop, ap, ap1, first_free, total_unique>>
    /\ mutex' = "free"
    /\ UNCHANGED <<serverVars, httpdVars, ipJson, queue, panicked>>

(* Mutant: the manager writes the status without the mutex.                *)
BeginStatusUnlocked ==
    /\ mpc = "status" /\ mpc' = "text"
    /\ ipJson' = "torn"
    /\ UNCHANGED <<serverVars, httpdVars, mutex, apJson, queue, filterVars, panicked>>

(* wifi_manager_lock_json_buffer without limit, and                        *)
(* wifi_manager_generate_ip_info_json.                                     *)
BeginStatus ==
    /\ mpc = "status" /\ mpc' = "text"
    /\ mutex = "free" /\ mutex' = "manager"
    /\ ipJson' = "torn"
    /\ UNCHANGED <<serverVars, httpdVars, apJson, queue, filterVars, panicked>>

(* After a disconnection the manager may order itself to start the access  *)
(* point.                                                                  *)
EndStatus ==
    /\ mpc = "text" /\ mpc' \in {"idle", "send_start_ap"}
    /\ ipJson' = "whole"
    /\ mutex' = "free"
    /\ UNCHANGED <<serverVars, httpdVars, apJson, queue, filterVars, panicked>>

(* wifi_manager_send_message, by the one task that receives: without room  *)
(* in its queue the manager waits for itself.                              *)
ManagerSends ==
    /\ mpc \in {"send_connect", "send_start_ap"} /\ mpc' = "idle"
    /\ Len(queue) < QueueLength
    /\ queue' = Append(queue, IF mpc = "send_connect" THEN "order" ELSE "start_ap")
    /\ UNCHANGED <<serverVars, httpdVars, jsonVars, filterVars, panicked>>

(* Mutant: http_root_url keeps its value.                                  *)
FreeUrlsRootKept ==
    /\ mpc = "free" /\ mpc' = "stop"
    /\ others' = FALSE
    /\ UNCHANGED <<server, root, httpdVars, jsonVars, queue, filterVars, panicked>>

(* http_app_stop frees the URLs first ...                                  *)
FreeUrls ==
    /\ mpc = "free" /\ mpc' = "stop"
    /\ root' = FALSE /\ others' = FALSE
    /\ UNCHANGED <<server, httpdVars, jsonVars, queue, filterVars, panicked>>

(* ... then httpd_stop lets no new request in ...                          *)
StopServer ==
    /\ mpc = "stop" /\ server = "running"
    /\ server' = "stopping"
    /\ UNCHANGED <<root, others, httpdVars, jsonVars, queue, managerVars,
                   panicked>>

(* ... and waits for the handler that is running.                          *)
ServerStopped ==
    /\ mpc = "stop" /\ server = "stopping" /\ hpc = "idle"
    /\ server' = "off"
    /\ mpc' = "start"
    /\ UNCHANGED <<root, others, httpdVars, jsonVars, queue, filterVars, panicked>>

(* http_app_start: the URLs are built if http_root_url is NULL; the server *)
(* may fail to start, which is only remembered by its handle.              *)
StartServer ==
    /\ mpc = "start" /\ mpc' = "idle"
    /\ others' = (others \/ ~root)
    /\ root' = TRUE
    /\ server' \in {"running", "off"}
    /\ UNCHANGED <<httpdVars, jsonVars, queue, filterVars, panicked>>

-----------------------------------------------------------------------------
(* httpd.                                                                  *)

Goto(p) == hpc' = p /\ UNCHANGED hkind
End == hpc' = "idle" /\ hkind' = "page"

(* A request arrives; a GET is first redirected if it is for another host. *)
Request ==
    /\ server = "running" /\ hpc = "idle"
    /\ hkind' \in Kinds
    /\ hpc' = "compare"
    /\ UNCHANGED <<serverVars, jsonVars, queue, managerVars, panicked>>

(* strcmp of the URI with the URLs, or the redirection to one of them.     *)
Compare ==
    /\ hpc = "compare" /\ root /\ others
    /\ \/ hkind \in {"ap", "status", "connect"} /\ Goto("lock")
       \/ hkind = "delete" /\ Goto("order")
       \/ End  \* another page, a redirection, or a request that is refused
    /\ UNCHANGED <<serverVars, jsonVars, queue, managerVars, panicked>>

(* A URL is NULL or freed: strcmp crashes, or finds that it differs.       *)
CompareFreed ==
    /\ hpc = "compare" /\ ~(root /\ others)
    /\ End
    /\ panicked' \in BOOLEAN
    /\ UNCHANGED <<serverVars, jsonVars, queue, managerVars>>

(* wifi_manager_lock_json_buffer: a GET waits 10 ticks and answers 503,    *)
(* wifi_manager_connect_async waits without limit, and clears the status.  *)
LockJson ==
    /\ hpc = "lock" /\ mutex = "free"
    /\ mutex' = "httpd"
    /\ Goto("send")
    /\ ipJson' = IF hkind = "connect" THEN "torn" ELSE ipJson
    /\ UNCHANGED <<serverVars, apJson, queue, managerVars, panicked>>

LockTimesOut ==
    /\ hpc = "lock" /\ hkind # "connect" /\ mutex = "manager"
    /\ IF hkind = "ap" THEN Goto("order") ELSE End
    /\ UNCHANGED <<serverVars, jsonVars, queue, managerVars, panicked>>

(* Mutant: the handler of /status.json does not give the mutex back.       *)
SendJsonKeepingMutex ==
    /\ hpc = "send"
    /\ mutex' = IF hkind = "status" THEN mutex ELSE "free"
    /\ ipJson' = IF hkind = "connect" THEN "whole" ELSE ipJson
    /\ IF hkind = "status" THEN End ELSE Goto("order")
    /\ UNCHANGED <<serverVars, apJson, queue, managerVars, panicked>>

(* httpd_resp_send, or the end of strcpy, and the mutex is given back.     *)
SendJson ==
    /\ hpc = "send"
    /\ mutex' = "free"
    /\ ipJson' = IF hkind = "connect" THEN "whole" ELSE ipJson
    /\ IF hkind = "status" THEN End ELSE Goto("order")
    /\ UNCHANGED <<serverVars, apJson, queue, managerVars, panicked>>

(* wifi_manager_scan_async, wifi_manager_connect_async or                  *)
(* wifi_manager_disconnect_async waits for room in the queue.              *)
SendOrder ==
    /\ hpc = "order" /\ Len(queue) < QueueLength
    /\ queue' = Append(queue, "order")
    /\ End
    /\ UNCHANGED <<serverVars, jsonVars, managerVars, panicked>>

-----------------------------------------------------------------------------
AccessPointList == LockList \/ FilterList \/ BeginList \/ EndList
Status == BeginStatus \/ EndStatus
Restart == FreeUrls \/ StopServer \/ ServerStopped \/ StartServer
Manager == Receive \/ AccessPointList \/ Status \/ ManagerSends \/ Restart
Handler == Compare \/ CompareFreed \/ LockJson \/ LockTimesOut \/ SendJson \/ SendOrder

Next == ~panicked /\ (Event \/ Request \/ Manager \/ Handler)

Spec == Init /\ [][Next]_vars

(* Both tasks run.  Each gives way to the other when it waits for the      *)
(* mutex, for they have the same priority; and a handler that waits for    *)
(* room gets it some time if there is room again and again, for the        *)
(* driver's events are few.                                                *)
FairSpec ==
    Spec /\ WF_vars(~panicked /\ Manager) /\ WF_vars(~panicked /\ Handler)
         /\ SF_vars(~panicked /\ (LockJson \/ SendOrder))

-----------------------------------------------------------------------------
TypeOK ==
    /\ server \in {"off", "running", "stopping"}
    /\ {root, others, panicked} \subseteq BOOLEAN
    /\ hpc \in {"idle", "compare", "lock", "send", "order"}
    /\ hkind \in Kinds
    /\ mutex \in {"free", "httpd", "manager"}
    /\ apJson \in Texts /\ ipJson \in Texts
    /\ queue \in Seq(Messages) /\ Len(queue) <= QueueLength
    /\ mpc \in {"idle", "list", "filter", "generate", "close", "status", "text",
                "send_connect", "send_start_ap", "free", "stop", "start"}
    /\ FilterTypeOK
    /\ server = "off" => mpc \notin {"free", "stop"}

(* A page is never sent a text that the manager is just writing, although  *)
(* both sides give up waiting for the mutex and go on without it.          *)
NoTornAnswer ==
    hpc = "send" =>
        /\ hkind = "ap" => apJson # "torn"
        /\ hkind = "status" => ipJson # "torn"

(* A handler meets URLs that are freed only while http_app_stop is at work *)
(* on the server that runs it: a server that has been started has them     *)
(* all, after any sequence of stops and failed starts.                     *)
UrlsWhole == server = "running" /\ mpc # "stop" => root /\ others

(* The text is made from a list that has every network that was scanned    *)
(* once, with the best rssi, in the order of first sight                   *)
(* (wifi_manager_filter_unique, whose two loops work in place).            *)
ListIsUnique ==
    mpc \in {"generate", "close"} => Represents(records, scanned)

(* A handler waits for room in the queue, and the manager, the one task    *)
(* that makes room, waits for that handler in httpd_stop, or for room too. *)
Blocked ==
    /\ hpc = "order" /\ Len(queue) = QueueLength
    /\ mpc \in {"stop", "send_connect", "send_start_ap"}

HandlerWaits ==
    \/ hpc = "lock" /\ hkind = "connect" /\ mutex # "free"
    \/ hpc = "order" /\ Len(queue) = QueueLength
ManagerWaits ==
    \/ mpc = "status" /\ mutex # "free"
    \/ mpc = "stop" /\ server = "stopping" /\ hpc # "idle"
    \/ mpc \in {"send_connect", "send_start_ap"} /\ Len(queue) = QueueLength

(* Handler and manager, which meet at the mutex, at the queue and in       *)
(* httpd_stop, both wait only when the queue is full and the handler waits *)
(* for room: a handler that waits without limit for the mutex finds the    *)
(* manager at work, also when that is about to send to its own queue       *)
(* (wifi_manager_lock_json_buffer, wifi_manager_send_message, httpd_stop). *)
DeadlockOnlyOnQueue == HandlerWaits /\ ManagerWaits => Blocked

(* A handler ends, whoever holds the mutex and whatever the manager is at, *)
(* unless it waits for room in a full queue while the manager, in          *)
(* httpd_stop or on its own queue, cannot receive                          *)
(* (wifi_manager_lock_json_buffer, wifi_manager_send_message).             *)
RequestEnds == hpc # "idle" ~> (hpc = "idle" \/ panicked \/ Blocked)
=============================================================================
