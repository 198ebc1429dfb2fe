---------------------------- MODULE WifiManager ----------------------------
(***************************************************************************)
(* The wifi manager of a sensor node (esp32-wifi-manager/src): the manager *)
(* task and its queue of messages, the default event loop that runs        *)
(* wifi_manager_event_handler, the timer task with the retry timer and the *)
(* timer that shuts the access point down, and the httpd task with the     *)
(* handlers for POST, DELETE and GET.                                      *)
(*                                                                         *)
(* Every task puts messages into wifi_manager_queue with portMAX_DELAY, so *)
(* it blocks while the queue is full; so does the manager itself, the only *)
(* reader.  A case of the manager's switch is one step up to the point     *)
(* where it blocks: on its own queue, or in httpd_stop, which waits for    *)
(* the httpd task to finish its request.                                   *)
(*                                                                         *)
(* External: the wifi driver.  It is down, connecting or up, posts events  *)
(* to the event loop in order, and can lose the link at any time.          *)
(***************************************************************************)
EXTENDS Naturals, Sequences

CONSTANTS
    Creds,        \* credentials a user can enter
    GoodCreds,    \* those with which the router lets the station in
    QueueLength,  \* length of wifi_manager_queue
    MaxRetry,     \* WIFI_MANAGER_MAX_RETRY_START_AP
    MaxEvents,    \* bound: driver events that wait for the event loop
    MaxReboots,   \* bound: times the chip restarts
    MaxImpolite,  \* bound: changes users make while something is under way
    NoCred        \* the erased configuration

ASSUME GoodCredsAssumption == GoodCreds \subseteq Creds
ASSUME NoCredAssumption == NoCred \notin Creds
ASSUME QueueLengthAssumption == QueueLength \in Nat \ {0}
ASSUME MaxRetryAssumption == MaxRetry \in Nat
ASSUME BoundsAssumption ==
    MaxEvents \in Nat \ {0} /\ MaxReboots \in Nat /\ MaxImpolite \in Nat

Configs == Creds \cup {NoCred}

Messages ==
    {"SCAN_DONE", "START_WIFI_SCAN", "LOAD_AND_RESTORE_STA",
     "CONNECT_STA_USER", "CONNECT_STA_AUTO_RECONNECT", "CONNECT_STA_RESTORE",
     "STA_DISCONNECTED", "START_AP", "STOP_AP", "STA_GOT_IP",
     "DISCONNECT_STA"}

Events == {"SCAN_DONE", "STA_DISCONNECTED", "AP_START", "AP_STOP", "GOT_IP"}

Bits == {"CONNECTED", "AP_STARTED", "REQUEST_CONNECT", "REQUEST_RESTORE",
         "REQUEST_DISCONNECT", "SCAN"}

none == "none"     \* no message
EmptyJson == "{}"  \* the text that wifi_manager_connect_async leaves

VARIABLES
    queue,        \* wifi_manager_queue
    mpc,          \* manager: "receive", "send" or "stop_httpd"
    msend,        \* manager: the message it is sending
    bits,         \* wifi_manager_event_group
    retries,      \* manager: failed reconnections in a row
    config,       \* wifi_manager_config_sta
    nvs,          \* the configuration in flash
    status,       \* ip_info_json: EmptyJson or its update reason code
    dns,          \* does the DNS task run?
    retryTimer,   \* is wifi_manager_retry_timer active?
    shutdownTimer,\* is wifi_manager_shutdown_ap_timer active?
    tsend,        \* timer task: the message its callback is sending
    events,       \* event loop: posted events
    esend,        \* event loop: the message the handler is sending
    hsend,        \* httpd: the message the handler is sending
    sta,          \* driver: "down", "connecting" or "up"
    link,         \* driver: the credentials of the attempt or connection
    scanning,     \* driver: is a scan running?
    ap,           \* driver: is the mode AP+STA?
    asked,        \* history: the last change the user asked for since the start
    impolite,     \* changes made while something was under way
    reboots       \* restarts so far

managerVars == <<mpc, msend, retries>>
driverVars == <<sta, link, scanning, ap>>
timerVars == <<retryTimer, shutdownTimer>>
askVars == <<asked, impolite>>
sendVars == <<tsend, esend, hsend>>
vars == <<queue, managerVars, bits, config, nvs, status, dns, timerVars,
          sendVars, events, driverVars, askVars, reboots>>

(* The state in which wifi_manager_start and the first part of the manager *)
(* task leave everything: station mode, and one order queued.  The flash   *)
(* is empty or holds the configuration of an earlier connection.           *)
Init ==
    /\ queue = <<"LOAD_AND_RESTORE_STA">>
    /\ mpc = "receive" /\ msend = none /\ retries = 0
    /\ bits = {} /\ config = NoCred /\ status = EmptyJson /\ dns = FALSE
    /\ retryTimer = FALSE /\ shutdownTimer = FALSE
    /\ tsend = none /\ esend = none /\ hsend = none
    /\ events = <<>>
    /\ sta = "down" /\ link = NoCred /\ scanning = FALSE /\ ap = FALSE
    /\ nvs \in {NoCred} \cup GoodCreds /\ asked = "nothing"
    /\ impolite = 0 /\ reboots = 0

(* The chip restarts; the flash stays as it is.                            *)
Restart ==
    /\ queue' = <<"LOAD_AND_RESTORE_STA">>
    /\ mpc' = "receive" /\ msend' = none /\ retries' = 0
    /\ bits' = {} /\ config' = NoCred /\ status' = EmptyJson /\ dns' = FALSE
    /\ retryTimer' = FALSE /\ shutdownTimer' = FALSE
    /\ tsend' = none /\ esend' = none /\ hsend' = none
    /\ events' = <<>>
    /\ sta' = "down" /\ link' = NoCred /\ scanning' = FALSE /\ ap' = FALSE
    /\ asked' = "nothing"
    /\ UNCHANGED <<nvs, impolite>>

(* A power cut, or an abort of one of the tasks.                           *)
Reboot ==
    /\ reboots < MaxReboots
    /\ reboots' = reboots + 1
    /\ Restart

(* wifi_manager_send_message: blocks while the queue is full.              *)
Send(m) ==
    /\ Len(queue) < QueueLength
    /\ queue' = Append(queue, m)

-----------------------------------------------------------------------------
(* The driver (external).                                                  *)

Post(e) == events' = Append(events, e)
Room == Len(events) < MaxEvents

(* The station associates and gets an address, if it was let in.           *)
ConnectSucceeds ==
    /\ sta = "connecting" /\ link \in GoodCreds /\ Room
    /\ sta' = "up"
    /\ Post("GOT_IP")
    /\ UNCHANGED <<queue, managerVars, bits, config, nvs, status, dns,
                   timerVars, sendVars, link, scanning, ap, askVars, reboots>>

(* An attempt fails, or the link is lost.  A running scan never ends       *)
(* (comment in the handler of WIFI_EVENT_STA_DISCONNECTED).                *)
Disconnected ==
    /\ sta # "down" /\ Room
    /\ sta' = "down" /\ scanning' = FALSE
    /\ Post("STA_DISCONNECTED")
    /\ UNCHANGED <<queue, managerVars, bits, config, nvs, status, dns,
                   timerVars, sendVars, link, ap, askVars, reboots>>

ScanEnds ==
    /\ scanning /\ Room
    /\ scanning' = FALSE
    /\ Post("SCAN_DONE")
    /\ UNCHANGED <<queue, managerVars, bits, config, nvs, status, dns,
                   timerVars, sendVars, sta, link, ap, askVars, reboots>>

(* esp_wifi_set_mode: events for a change of the access point.             *)
SetMode(on) ==
    /\ ap' = on
    /\ events' = IF ap = on THEN events
                 ELSE Append(events, IF on THEN "AP_START" ELSE "AP_STOP")

-----------------------------------------------------------------------------
(* The event loop: wifi_manager_event_handler.                             *)

(* Mutant: the loss of the link leaves the CONNECTED bit set.              *)
HandleEventConnectedKept ==
    /\ esend = none /\ events # <<>>
    /\ events' = Tail(events)
    /\ LET e == Head(events) IN
         /\ bits' = CASE e = "SCAN_DONE" -> bits \ {"SCAN"}
                      [] e = "STA_DISCONNECTED" -> bits \ {"SCAN"}
                      [] e = "AP_START" -> bits \cup {"AP_STARTED"}
                      [] e = "AP_STOP" -> bits \ {"AP_STARTED"}
                      [] e = "GOT_IP" -> bits \cup {"CONNECTED"}
         /\ esend' = CASE e = "GOT_IP" -> "STA_GOT_IP"
                       [] e \in {"AP_START", "AP_STOP"} -> none
                       [] OTHER -> e
    /\ UNCHANGED <<queue, managerVars, config, nvs, status, dns, timerVars,
                   tsend, hsend, driverVars, askVars, reboots>>

(* Mutant: the loss of the link leaves the SCAN bit set.                   *)
HandleEventScanKept ==
    /\ esend = none /\ events # <<>>
    /\ events' = Tail(events)
    /\ LET e == Head(events) IN
         /\ bits' = CASE e = "SCAN_DONE" -> bits \ {"SCAN"}
                      [] e = "STA_DISCONNECTED" -> bits \ {"CONNECTED"}
                      [] e = "AP_START" -> bits \cup {"AP_STARTED"}
                      [] e = "AP_STOP" -> bits \ {"AP_STARTED"}
                      [] e = "GOT_IP" -> bits \cup {"CONNECTED"}
         /\ esend' = CASE e = "GOT_IP" -> "STA_GOT_IP"
                       [] e \in {"AP_START", "AP_STOP"} -> none
                       [] OTHER -> e
    /\ UNCHANGED <<queue, managerVars, config, nvs, status, dns, timerVars,
                   tsend, hsend, driverVars, askVars, reboots>>

HandleEvent ==
    /\ esend = none /\ events # <<>>
    /\ events' = Tail(events)
    /\ LET e == Head(events) IN
         /\ bits' = CASE e = "SCAN_DONE" -> bits \ {"SCAN"}
                      [] e = "STA_DISCONNECTED" -> bits \ {"CONNECTED", "SCAN"}
                      [] e = "AP_START" -> bits \cup {"AP_STARTED"}
                      [] e = "AP_STOP" -> bits \ {"AP_STARTED"}
                      [] e = "GOT_IP" -> bits \cup {"CONNECTED"}
         /\ esend' = CASE e = "GOT_IP" -> "STA_GOT_IP"
                       [] e \in {"AP_START", "AP_STOP"} -> none
                       [] OTHER -> e
    /\ UNCHANGED <<queue, managerVars, config, nvs, status, dns, timerVars,
                   tsend, hsend, driverVars, askVars, reboots>>

EventSends ==
    /\ esend # none /\ Send(esend)
    /\ esend' = none
    /\ UNCHANGED <<managerVars, bits, config, nvs, status, dns, timerVars,
                   tsend, hsend, events, driverVars, askVars, reboots>>

-----------------------------------------------------------------------------
(* The timer task: one-shot timers whose callbacks send a message.         *)

(* wifi_manager_timer_retry_cb                                             *)
RetryExpires ==
    /\ retryTimer /\ tsend = none
    /\ retryTimer' = FALSE
    /\ tsend' = "CONNECT_STA_AUTO_RECONNECT"
    /\ UNCHANGED <<queue, managerVars, bits, config, nvs, status, dns,
                   shutdownTimer, esend, hsend, events, driverVars, askVars,
                   reboots>>

(* wifi_manager_timer_shutdown_ap_cb                                       *)
ShutdownExpires ==
    /\ shutdownTimer /\ tsend = none
    /\ shutdownTimer' = FALSE
    /\ tsend' = "STOP_AP"
    /\ UNCHANGED <<queue, managerVars, bits, config, nvs, status, dns,
                   retryTimer, esend, hsend, events, driverVars, askVars,
                   reboots>>

TimerSends ==
    /\ tsend # none /\ Send(tsend)
    /\ tsend' = none
    /\ UNCHANGED <<managerVars, bits, config, nvs, status, dns, timerVars,
                   esend, hsend, events, driverVars, askVars, reboots>>

-----------------------------------------------------------------------------
(* The httpd task.                                                         *)

(* A request gets in through the access point or the router, while the     *)
(* server is not being stopped.                                            *)
Reachable == (ap \/ sta = "up") /\ mpc # "stop_httpd" /\ hsend = none

Quiet ==
    /\ mpc = "receive" /\ queue = <<>> /\ events = <<>>
    /\ tsend = none /\ esend = none /\ hsend = none

(* A polite user changes the network when nothing is under way; the others *)
(* are counted.                                                            *)
Asks(request, polite) ==
    /\ Reachable
    /\ polite \/ impolite < MaxImpolite
    /\ impolite' = IF polite THEN impolite ELSE impolite + 1
    /\ asked' = request

(* Mutant: the configuration is saved before it is tried.                  *)
PostConnectSaving(c) ==
    /\ Asks("connect", Quiet /\ sta = "down" /\ ~retryTimer)
    /\ config' = c
    /\ status' = EmptyJson
    /\ hsend' = "CONNECT_STA_USER"
    /\ nvs' = c
    /\ UNCHANGED <<queue, managerVars, bits, dns, timerVars, tsend,
                   esend, events, driverVars, reboots>>

(* http_server_post_handler: the handler writes the shared configuration,  *)
(* then wifi_manager_connect_async clears the status and sends the order.  *)
PostConnect(c) ==
    /\ Asks("connect", Quiet /\ sta = "down" /\ ~retryTimer)
    /\ config' = c
    /\ status' = EmptyJson
    /\ hsend' = "CONNECT_STA_USER"
    /\ UNCHANGED <<queue, managerVars, bits, nvs, dns, timerVars, tsend,
                   esend, events, driverVars, reboots>>

(* http_server_delete_handler                                              *)
DeleteConnect ==
    /\ Asks("disconnect", Quiet /\ sta = "up")
    /\ hsend' = "DISCONNECT_STA"
    /\ UNCHANGED <<queue, managerVars, bits, config, nvs, status, dns,
                   timerVars, tsend, esend, events, driverVars, reboots>>

(* http_server_get_handler: ap.json answers with the last list and asks    *)
(* for a scan; the other pages change nothing.                             *)
GetAccessPoints ==
    /\ Reachable
    /\ hsend' = "START_WIFI_SCAN"
    /\ UNCHANGED <<queue, managerVars, bits, config, nvs, status, dns,
                   timerVars, tsend, esend, events, driverVars, askVars,
                   reboots>>

HttpSends ==
    /\ hsend # none /\ Send(hsend)
    /\ hsend' = none
    /\ UNCHANGED <<managerVars, bits, config, nvs, status, dns, timerVars,
                   tsend, esend, events, driverVars, askVars, reboots>>

-----------------------------------------------------------------------------
(* The manager task.  Each case starts with xQueueReceive and ends in the  *)
(* receiving state or where it blocks.                                     *)

Receive(m) ==
    /\ mpc = "receive" /\ queue # <<>> /\ Head(queue) = m
    /\ queue' = Tail(queue)

Done == mpc' = "receive" /\ msend' = none
ThenSend(m) == mpc' = "send" /\ msend' = m

(* case WM_EVENT_SCAN_DONE: the list of access points is not modelled.     *)
DoScanDone ==
    /\ Receive("SCAN_DONE") /\ Done
    /\ UNCHANGED <<retries, bits, config, nvs, status, dns, timerVars,
                   sendVars, events, driverVars, askVars, reboots>>

(* case WM_ORDER_START_WIFI_SCAN                                           *)
DoStartScan ==
    /\ Receive("START_WIFI_SCAN") /\ Done
    /\ bits' = bits \cup {"SCAN"}
    /\ scanning' = IF "SCAN" \in bits THEN scanning ELSE TRUE
    /\ UNCHANGED <<retries, config, nvs, status, dns, timerVars, sendVars,
                   events, sta, link, ap, askVars, reboots>>

(* case WM_ORDER_LOAD_AND_RESTORE_STA: the flash overwrites the            *)
(* configuration, whether there is one in it or not.                       *)
DoLoadAndRestore ==
    /\ Receive("LOAD_AND_RESTORE_STA")
    /\ config' = nvs
    /\ ThenSend(IF nvs = NoCred THEN "START_AP" ELSE "CONNECT_STA_RESTORE")
    /\ UNCHANGED <<retries, bits, nvs, status, dns, timerVars, sendVars,
                   events, driverVars, askVars, reboots>>

(* case WM_ORDER_CONNECT_STA: one attempt with the configuration of now,   *)
(* unless the station is connected; a running scan is stopped.             *)
RequestBit == [CONNECT_STA_USER |-> {"REQUEST_CONNECT"},
               CONNECT_STA_RESTORE |-> {"REQUEST_RESTORE"},
               CONNECT_STA_AUTO_RECONNECT |-> {}]

DoConnect ==
    \E m \in DOMAIN RequestBit :
        /\ Receive(m) /\ Done
        /\ bits' = bits \cup RequestBit[m]
        /\ IF "CONNECTED" \in bits \/ sta = "up"
           THEN UNCHANGED <<sta, link>>
           ELSE sta' = "connecting" /\ link' = config
        /\ IF "CONNECTED" \notin bits /\ "SCAN" \in bits /\ scanning
           THEN scanning' = FALSE /\ Post("SCAN_DONE")
           ELSE UNCHANGED <<scanning, events>>
        /\ UNCHANGED <<retries, config, nvs, status, dns, timerVars,
                       sendVars, ap, askVars, reboots>>

(* A station that is connecting may refuse the scan, or the configuration  *)
(* and the attempt: ESP_ERROR_CHECK then aborts.                           *)
DriverRefuses ==
    /\ mpc = "receive" /\ queue # <<>> /\ sta = "connecting"
    /\ \/ Head(queue) = "START_WIFI_SCAN" /\ "SCAN" \notin bits
       \/ Head(queue) \in DOMAIN RequestBit /\ "CONNECTED" \notin bits
    /\ Restart
    /\ UNCHANGED reboots

(* case WM_EVENT_STA_DISCONNECTED, the three reasons for the event.        *)

(* Mutant: the status is not regenerated.                                  *)
DoAttemptFailedSilent ==
    /\ Receive("STA_DISCONNECTED") /\ Done
    /\ "REQUEST_CONNECT" \in bits
    /\ bits' = bits \ {"REQUEST_CONNECT"}
    /\ shutdownTimer' = FALSE
    /\ UNCHANGED <<retries, config, nvs, status, dns, retryTimer, sendVars, events,
                   driverVars, askVars, reboots>>

(* A user asked for the connection: no retry.                              *)
DoAttemptFailed ==
    /\ Receive("STA_DISCONNECTED") /\ Done
    /\ "REQUEST_CONNECT" \in bits
    /\ bits' = bits \ {"REQUEST_CONNECT"}
    /\ status' = "UPDATE_FAILED_ATTEMPT"
    /\ shutdownTimer' = FALSE
    /\ UNCHANGED <<retries, config, nvs, dns, retryTimer, sendVars, events,
                   driverVars, askVars, reboots>>

(* A user asked to disconnect: forget the network and start the AP.        *)
DoUserDisconnected ==
    /\ Receive("STA_DISCONNECTED") /\ ThenSend("START_AP")
    /\ "REQUEST_CONNECT" \notin bits /\ "REQUEST_DISCONNECT" \in bits
    /\ bits' = bits \ {"REQUEST_DISCONNECT"}
    /\ config' = NoCred
    /\ nvs' = NoCred
    /\ status' = "UPDATE_USER_DISCONNECT"
    /\ shutdownTimer' = FALSE
    /\ UNCHANGED <<retries, dns, retryTimer, sendVars, events, driverVars,
                   askVars, reboots>>

(* Mutant: the retry timer is not started.                                 *)
DoConnectionLostNoTimer ==
    /\ Receive("STA_DISCONNECTED")
    /\ bits \cap {"REQUEST_CONNECT", "REQUEST_DISCONNECT"} = {}
    /\ bits' = bits \ {"REQUEST_RESTORE"}
    /\ status' = "UPDATE_LOST_CONNECTION"
    /\ shutdownTimer' = FALSE
    /\ UNCHANGED retryTimer
    /\ \/ "AP_STARTED" \in bits /\ Done /\ UNCHANGED retries
       \/ /\ "AP_STARTED" \notin bits /\ retries < MaxRetry
          /\ Done /\ retries' = retries + 1
       \/ /\ "AP_STARTED" \notin bits /\ retries >= MaxRetry
          /\ ThenSend("START_AP") /\ retries' = 0
    /\ UNCHANGED <<config, nvs, dns, sendVars, events, driverVars, askVars,
                   reboots>>

(* Mutant: one retry more than the maximum.                                *)
DoConnectionLostOffByOne ==
    /\ Receive("STA_DISCONNECTED")
    /\ bits \cap {"REQUEST_CONNECT", "REQUEST_DISCONNECT"} = {}
    /\ bits' = bits \ {"REQUEST_RESTORE"}
    /\ status' = "UPDATE_LOST_CONNECTION"
    /\ shutdownTimer' = FALSE
    /\ retryTimer' = TRUE
    /\ \/ "AP_STARTED" \in bits /\ Done /\ UNCHANGED retries
       \/ /\ "AP_STARTED" \notin bits /\ retries <= MaxRetry
          /\ Done /\ retries' = retries + 1
       \/ /\ "AP_STARTED" \notin bits /\ retries > MaxRetry
          /\ ThenSend("START_AP") /\ retries' = 0
    /\ UNCHANGED <<config, nvs, dns, sendVars, events, driverVars, askVars,
                   reboots>>

(* A lost connection: try again, and start the AP after MaxRetry retries.  *)
DoConnectionLost ==
    /\ Receive("STA_DISCONNECTED")
    /\ bits \cap {"REQUEST_CONNECT", "REQUEST_DISCONNECT"} = {}
    /\ bits' = bits \ {"REQUEST_RESTORE"}
    /\ status' = "UPDATE_LOST_CONNECTION"
    /\ shutdownTimer' = FALSE
    /\ retryTimer' = TRUE
    /\ \/ "AP_STARTED" \in bits /\ Done /\ UNCHANGED retries
       \/ /\ "AP_STARTED" \notin bits /\ retries < MaxRetry
          /\ Done /\ retries' = retries + 1
       \/ /\ "AP_STARTED" \notin bits /\ retries >= MaxRetry
          /\ ThenSend("START_AP") /\ retries' = 0
    /\ UNCHANGED <<config, nvs, dns, sendVars, events, driverVars, askVars,
                   reboots>>

(* case WM_ORDER_START_AP, up to httpd_stop.                               *)
DoStartAP ==
    /\ Receive("START_AP")
    /\ SetMode(TRUE)
    /\ mpc' = "stop_httpd" /\ msend' = "START_AP"
    /\ UNCHANGED <<retries, bits, config, nvs, status, dns, timerVars,
                   sendVars, sta, link, scanning, askVars, reboots>>

(* Mutant: the mode is left as it is.                                      *)
DoStopAPModeKept ==
    /\ Receive("STOP_AP")
    /\ IF "CONNECTED" \in bits
       THEN /\ UNCHANGED <<ap, events>>
            /\ dns' = FALSE
            /\ mpc' = "stop_httpd" /\ msend' = "STOP_AP"
       ELSE Done /\ UNCHANGED <<ap, events, dns>>
    /\ UNCHANGED <<retries, bits, config, nvs, status, timerVars, sendVars,
                   sta, link, scanning, askVars, reboots>>

(* case WM_ORDER_STOP_AP, up to httpd_stop, if still connected.            *)
DoStopAP ==
    /\ Receive("STOP_AP")
    /\ IF "CONNECTED" \in bits
       THEN /\ SetMode(FALSE)
            /\ dns' = FALSE
            /\ mpc' = "stop_httpd" /\ msend' = "STOP_AP"
       ELSE Done /\ UNCHANGED <<ap, events, dns>>
    /\ UNCHANGED <<retries, bits, config, nvs, status, timerVars, sendVars,
                   sta, link, scanning, askVars, reboots>>

(* httpd_stop returns once the httpd task is not in a handler; then        *)
(* http_app_start, and for WM_ORDER_START_AP dns_server_start.             *)
RestartHttpd ==
    /\ mpc = "stop_httpd" /\ hsend = none
    /\ dns' = (msend = "START_AP" \/ dns)
    /\ Done
    /\ UNCHANGED <<queue, retries, bits, config, nvs, status, timerVars,
                   sendVars, events, driverVars, askVars, reboots>>

(* Mutant: the DNS task goes on.                                           *)
DoGotIpDnsKept ==
    /\ Receive("STA_GOT_IP") /\ Done
    /\ bits' = bits \ {"REQUEST_CONNECT", "REQUEST_RESTORE"}
    /\ nvs' = IF "REQUEST_RESTORE" \in bits THEN nvs ELSE config
    /\ retries' = 0
    /\ status' = "UPDATE_CONNECTION_OK"
    /\ UNCHANGED dns
    /\ shutdownTimer' = (shutdownTimer \/ "AP_STARTED" \in bits)
    /\ UNCHANGED <<config, retryTimer, sendVars, events, driverVars, askVars,
                   reboots>>

(* Mutant: the request bit is not cleared.                                 *)
DoGotIpRequestKept ==
    /\ Receive("STA_GOT_IP") /\ Done
    /\ bits' = bits \ {"REQUEST_RESTORE"}
    /\ nvs' = IF "REQUEST_RESTORE" \in bits THEN nvs ELSE config
    /\ retries' = 0
    /\ status' = "UPDATE_CONNECTION_OK"
    /\ dns' = FALSE
    /\ shutdownTimer' = (shutdownTimer \/ "AP_STARTED" \in bits)
    /\ UNCHANGED <<config, retryTimer, sendVars, events, driverVars, askVars,
                   reboots>>

(* Mutant: the restore bit is not cleared.                                 *)
DoGotIpRestoreKept ==
    /\ Receive("STA_GOT_IP") /\ Done
    /\ bits' = bits \ {"REQUEST_CONNECT"}
    /\ nvs' = IF "REQUEST_RESTORE" \in bits THEN nvs ELSE config
    /\ retries' = 0
    /\ status' = "UPDATE_CONNECTION_OK"
    /\ dns' = FALSE
    /\ shutdownTimer' = (shutdownTimer \/ "AP_STARTED" \in bits)
    /\ UNCHANGED <<config, retryTimer, sendVars, events, driverVars, askVars,
                   reboots>>

(* case WM_EVENT_STA_GOT_IP: the configuration of now is saved unless the  *)
(* connection was a restored one.                                          *)
DoGotIp ==
    /\ Receive("STA_GOT_IP") /\ Done
    /\ bits' = bits \ {"REQUEST_CONNECT", "REQUEST_RESTORE"}
    /\ nvs' = IF "REQUEST_RESTORE" \in bits THEN nvs ELSE config
    /\ retries' = 0
    /\ status' = "UPDATE_CONNECTION_OK"
    /\ dns' = FALSE
    /\ shutdownTimer' = (shutdownTimer \/ "AP_STARTED" \in bits)
    /\ UNCHANGED <<config, retryTimer, sendVars, events, driverVars, askVars,
                   reboots>>

(* case WM_ORDER_DISCONNECT_STA: esp_wifi_disconnect posts an event only   *)
(* if there is something to disconnect.                                    *)
DoDisconnect ==
    /\ Receive("DISCONNECT_STA") /\ Done
    /\ bits' = bits \cup {"REQUEST_DISCONNECT"}
    /\ sta' = "down"
    /\ IF sta = "down" THEN UNCHANGED <<events, scanning>>
       ELSE Post("STA_DISCONNECTED") /\ scanning' = FALSE
    /\ UNCHANGED <<retries, config, nvs, status, dns, timerVars, sendVars,
                   link, ap, askVars, reboots>>

(* The manager's own wifi_manager_send_message.                            *)
ManagerSends ==
    /\ mpc = "send" /\ Send(msend) /\ Done
    /\ UNCHANGED <<retries, bits, config, nvs, status, dns, timerVars,
                   sendVars, events, driverVars, askVars, reboots>>

-----------------------------------------------------------------------------
Manager ==
    \/ DoScanDone \/ DoStartScan \/ DoLoadAndRestore \/ DoConnect
    \/ DriverRefuses \/ DoAttemptFailed \/ DoUserDisconnected
    \/ DoConnectionLost \/ DoStartAP \/ DoStopAP \/ RestartHttpd \/ DoGotIp
    \/ DoDisconnect \/ ManagerSends

EventLoop == HandleEvent \/ EventSends
TimerTask == RetryExpires \/ ShutdownExpires \/ TimerSends
User == (\E c \in Creds : PostConnect(c)) \/ DeleteConnect \/ GetAccessPoints
Driver == ConnectSucceeds \/ Disconnected \/ ScanEnds

Next == Manager \/ EventLoop \/ TimerTask \/ User \/ HttpSends \/ Driver
        \/ Reboot

Spec == Init /\ [][Next]_vars

(* The tasks run when they are ready, timers expire, an attempt and a scan *)
(* end.  A sender that waits for room is woken when a message is taken, so *)
(* it is not passed over forever.  Users, the loss of a link and restarts  *)
(* are up to the environment.                                              *)
Fairness ==
    /\ WF_vars(Manager) /\ WF_vars(HandleEvent)
    /\ WF_vars(RetryExpires) /\ WF_vars(ShutdownExpires)
    /\ SF_vars(EventSends) /\ SF_vars(HttpSends) /\ SF_vars(TimerSends)
    /\ SF_vars(sta = "connecting" /\ (ConnectSucceeds \/ Disconnected))
    /\ SF_vars(ScanEnds)

FairSpec == Spec /\ Fairness

-----------------------------------------------------------------------------
TypeOK ==
    /\ queue \in Seq(Messages) /\ Len(queue) <= QueueLength
    /\ mpc \in {"receive", "send", "stop_httpd"}
    /\ msend \in {none} \cup Messages /\ (msend = none <=> mpc = "receive")
    /\ bits \subseteq Bits /\ retries \in 0..MaxRetry
    /\ config \in Configs /\ nvs \in Configs
    /\ status \in {EmptyJson, "UPDATE_CONNECTION_OK", "UPDATE_FAILED_ATTEMPT",
                   "UPDATE_USER_DISCONNECT", "UPDATE_LOST_CONNECTION"}
    /\ dns \in BOOLEAN /\ retryTimer \in BOOLEAN /\ shutdownTimer \in BOOLEAN
    /\ tsend \in {none, "CONNECT_STA_AUTO_RECONNECT", "STOP_AP"}
    /\ esend \in {none, "SCAN_DONE", "STA_DISCONNECTED", "STA_GOT_IP"}
    /\ hsend \in {none, "CONNECT_STA_USER", "DISCONNECT_STA", "START_WIFI_SCAN"}
    /\ events \in Seq(Events)
    /\ sta \in {"down", "connecting", "up"} /\ link \in Configs
    /\ scanning \in BOOLEAN /\ ap \in BOOLEAN
    /\ asked \in {"nothing", "connect", "disconnect"}
    /\ impolite \in 0..MaxImpolite /\ reboots \in 0..MaxReboots

(* The bits of the event group follow the driver: once the event loop has  *)
(* handled what the driver posted, CONNECTED says whether the station is   *)
(* up and AP_STARTED whether the access point is (HandleEvent against the  *)
(* calls of the manager).                                                  *)
BitsFollowDriver ==
    events = <<>> =>
        /\ "CONNECTED" \in bits <=> sta = "up"
        /\ "AP_STARTED" \in bits <=> ap

(* A set SCAN bit never outlives its scan, else no order to scan would ever*)
(* be obeyed again: also when a connection, a disconnection or the loss of *)
(* the link stops the scan.                                                *)
ScanBitClears == Quiet /\ "SCAN" \in bits => scanning

(* The next properties are about users that change the network only when   *)
(* nothing is under way (PostConnect while down, DeleteConnect while up).  *)
Polite == impolite = 0

(* Nothing is lost for good: a station that is down and has no work left   *)
(* waits for its retry timer or offers its access point                    *)
(* (WM_EVENT_STA_DISCONNECTED, its three reasons).                         *)
Recoverable == Quiet /\ sta = "down" => retryTimer \/ ap
PoliteRecoverable == Polite => Recoverable

(* The flash only ever holds credentials that once got the station an      *)
(* address, whatever else users typed in, failed with and retried          *)
(* (WM_EVENT_STA_GOT_IP saves the shared configuration).                   *)
SavedIsVerified == Polite => nvs \in GoodCreds \cup {NoCred}

(* ... and once the manager is idle and connected, those of the connection *)
(* that is up, so that a restart comes back to the same network.           *)
SavedIsCurrent == Polite /\ Quiet /\ sta = "up" => nvs = link

(* A connected station that is idle hijacks no DNS query.                  *)
DnsOffWhenConnected == Polite /\ Quiet /\ sta = "up" => ~dns

(* A request for a connection is forgotten once it has been answered: no   *)
(* later loss of the link is mistaken for a wrong password.                *)
NoStaleRequest ==
    Polite /\ Quiet /\ sta # "connecting" => "REQUEST_CONNECT" \notin bits

(* When nothing is under way any more, the user who asked for a connection *)
(* has got an answer: the status that wifi_manager_connect_async cleared is*)
(* set again, whatever the outcome (code.js polls it until then).          *)
NoSilentEnd ==
    Polite /\ Quiet /\ sta # "connecting" /\ asked = "connect" => status # EmptyJson

(* The manager can block for ever: on its own full queue, and in httpd_stop*)
(* while the httpd task waits for room in the queue.                       *)
Stuck ==
    /\ Len(queue) = QueueLength
    /\ mpc = "send" \/ (mpc = "stop_httpd" /\ hsend # none)

(* Unless the manager is stuck, a node is reachable again and again, over  *)
(* the router or its own access point (retries, MaxRetry and START_AP).    *)
ReachableAgain == []<>(sta = "up" \/ ap \/ Stuck)

(* Unless the manager is stuck or the node restarts, the status that       *)
(* wifi_manager_connect_async cleared is set again: the user's page stops  *)
(* waiting.                                                                *)
UserIsAnswered ==
    status = EmptyJson /\ asked = "connect" ~>
        status # EmptyJson \/ asked # "connect" \/ Stuck

(* Unless the manager is stuck, the access point of a connected station is *)
(* shut down in the end, or the station lost its connection.               *)
ApShutsDown == shutdownTimer /\ sta = "up" ~> ~ap \/ sta # "up" \/ Stuck

(* wifi_manager.h: wifi_manager_connect_async "requests a connection to an *)
(* access point that will be process in the main task thread".             *)
RequestIsProcessed == hsend # none ~> hsend = none
=============================================================================
