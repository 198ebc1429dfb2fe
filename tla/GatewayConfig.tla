--------------------------- MODULE GatewayConfig ---------------------------
(***************************************************************************)
(* How a user gives the gateway the credentials of a router: the handlers  *)
(* of the web page (web_server.c), the timer that watches the attempt, the *)
(* event handlers of web_server.c and gateway_wifi.c, and the start of the *)
(* gateway (app_main.c), over the interfaces of GatewayNetif.              *)
(*                                                                         *)
(* Four tasks interleave: app_main, httpd, which runs one handler at a     *)
(* time, the timer task, and the event task; and the wifi driver, which is *)
(* external.  s_sta_got_ip_flag, s_wifi_sta_connection_info and            *)
(* s_wifi_sta_connect_timer_handler are shared without a lock.             *)
(***************************************************************************)
EXTENDS GatewayNetif

CONSTANTS
    Creds,      \* pairs of ssid and password that users enter
    Good,       \* those that some router accepts
    NoSsid,     \* a form without ssid
    MaxCount,   \* polls of an attempt: timeout * 1000 / polling period
    MaxPosts,   \* bound: forms that users send
    MaxEvents   \* bound: driver events that wait in the event loop

ASSUME CredsAssumption == Good \subseteq Creds /\ NoSsid \notin Creds
ASSUME BoundsAssumption == /\ MaxCount \in Nat \ {0, 1} /\ MaxPosts \in Nat
                           /\ MaxEvents \in Nat

NULL == 0  \* no timer
Timers == 1..MaxPosts
Statuses == {"NOT_START", "CONNECTING", "CONNECT_FAIL", "CONNECT_OK"}

VARIABLES
    mpc,       \* app_main: its next step
    stored,    \* the station's configuration, in the driver and in flash
    link,      \* driver: "off", "connecting", "associated" or "up"
    target,    \* driver: the credentials of the link
    dhcp,      \* is the DHCP client of the station running?
    events,    \* the event loop, oldest first
    epc,       \* event task: its next step with the oldest event
    flag,      \* s_sta_got_ip_flag
    count,     \* connect_count of the timer's callback
    status,    \* s_wifi_sta_connection_info.config_status
    conf,      \* s_wifi_sta_connect_config
    handle,    \* s_wifi_sta_connect_timer_handler
    armed,     \* the timers that are running
    hpc,       \* httpd: next step of a handler, or "idle"
    hret,      \* httpd: ret of esp_web_try_connect
    hstate,    \* httpd: the state already printed into an answer
    tpc,       \* timer task: next step of a callback, or "idle"
    tself,     \* timer task: the timer whose callback runs
    tresult,   \* timer task: connection_info.config_status
    posts,     \* forms accepted so far; each creates the timer of that number
    heard,     \* history: did a got-ip set the flag since an attempt began?
    heardOf    \* history: the credentials of the link that got that address

driverVars == <<stored, link, target, dhcp>>
eventVars == <<events, epc>>
pollVars == <<count, tpc, tself, tresult>>
timerVars == <<handle, armed>>
httpVars == <<hpc, hret, hstate, conf, posts>>
heardVars == <<flag, heard, heardOf>>
vars == <<netifVars, mpc, driverVars, eventVars, pollVars, timerVars,
          httpVars, heardVars, status>>

Init ==
    /\ NetifInit
    /\ mpc = "softap"
    /\ stored = NoSsid /\ link = "off" /\ target = NoSsid /\ dhcp = FALSE
    /\ events = <<>> /\ epc = "idle"
    /\ flag = FALSE /\ heard = FALSE /\ heardOf = NoSsid
    /\ count = 1 /\ tpc = "idle" /\ tself = NULL /\ tresult = "NOT_START"
    /\ handle = NULL /\ armed = {}
    /\ status = "NOT_START" /\ conf = NoSsid
    /\ hpc = "idle" /\ hret = TRUE /\ hstate = "0" /\ posts = 0

-----------------------------------------------------------------------------
(* The driver.                                                             *)

Post(e) == events' = Append(events, e)
Event(t) == [type |-> t, cred |-> target]

(* esp_wifi_connect, which fails unless the link is down and configured.   *)
WifiConnect ==
    IF link = "off" /\ stored # NoSsid
    THEN link' = "connecting" /\ target' = stored
    ELSE UNCHANGED <<link, target>>

(* esp_wifi_disconnect                                                     *)
WifiDisconnect ==
    /\ link' = "off"
    /\ IF link = "off" THEN UNCHANGED events ELSE Post(Event("DISCONNECTED"))
    /\ UNCHANGED target

Driver(a) ==
    /\ Len(events) < MaxEvents /\ a
    /\ UNCHANGED <<gateway_link, mpc, stored, epc, pollVars, timerVars,
                   httpVars, heardVars, status>>

Associate ==
    /\ link = "connecting" /\ target \in Good
    /\ Driver(link' = "associated" /\ Post(Event("CONNECTED"))
              /\ UNCHANGED <<target, dhcp, ip>>)

(* DHCP ends; IP_EVENT_STA_GOT_IP is posted.                               *)
Acquire ==
    /\ link = "associated" /\ dhcp
    /\ \E n \in Networks :
         Driver(/\ link' = "up" /\ ip' = [ip EXCEPT !["station"] = n]
                /\ Post(Event("GOT_IP")) /\ UNCHANGED <<target, dhcp>>)

(* An attempt fails, or the link is lost.                                  *)
LinkDown ==
    /\ link # "off"
    /\ Driver(WifiDisconnect /\ UNCHANGED <<dhcp, ip>>)

-----------------------------------------------------------------------------
(* The event task.                                                         *)

Event0 == Head(events)
Handled == events' = Tail(events)

(* The default handlers of esp_netif start and stop the DHCP client; then  *)
(* wifi_event_sta_disconnected_handler connects again.                     *)
StaConnected ==
    /\ epc = "idle" /\ events # <<>> /\ Event0.type = "CONNECTED"
    /\ dhcp' = TRUE
    /\ Handled
    /\ UNCHANGED <<netifVars, mpc, stored, link, target, epc, pollVars,
                   timerVars, httpVars, heardVars, status>>

StaDisconnected ==
    /\ epc = "idle" /\ events # <<>> /\ Event0.type = "DISCONNECTED"
    /\ dhcp' = FALSE /\ ip' = [ip EXCEPT !["station"] = NoAddress]
    /\ Handled
    /\ WifiConnect
    /\ UNCHANGED <<gateway_link, mpc, stored, epc, pollVars, timerVars,
                   httpVars, heardVars, status>>

(* ip_event_sta_got_ip_handler                                             *)
GotIpConflict ==
    /\ epc = "idle" /\ events # <<>> /\ Event0.type = "GOT_IP"
    /\ ConflictUpdate("station")
    /\ epc' = "web"
    /\ UNCHANGED <<gateway_link, mpc, driverVars, events, pollVars, timerVars,
                   httpVars, heardVars, status>>

(* esp_web_got_ip_cb, once StartWebServer has registered it; it goes on to *)
(* init_handlers of GatewayBuffer.                                         *)
GotIpFlag ==
    /\ epc = "web"
    /\ IF mpc = "run"
       THEN flag' = TRUE /\ heard' = TRUE /\ heardOf' = Event0.cred
       ELSE UNCHANGED heardVars
    /\ epc' = "idle"
    /\ Handled
    /\ UNCHANGED <<netifVars, mpc, driverVars, pollVars, timerVars, httpVars,
                   status>>

-----------------------------------------------------------------------------
(* app_main.                                                               *)

(* esp_gateway_create_softap_netif: it requests a segment before it is in  *)
(* the list.                                                               *)
CreateSoftap ==
    /\ mpc = "softap"
    /\ ip' = [ip EXCEPT !["softap"] = RequestIp]
    /\ ListAdd("softap")
    /\ mpc' = "station"
    /\ UNCHANGED <<driverVars, eventVars, pollVars, timerVars, httpVars,
                   heardVars, status>>

(* esp_gateway_create_station_netif, which connects if flash holds a       *)
(* configuration, and registers the handlers of gateway_wifi.c.            *)
CreateStation ==
    /\ mpc = "station"
    /\ ListAdd("station")
    /\ WifiConnect
    /\ mpc' = "web"
    /\ UNCHANGED <<ip, stored, dhcp, eventVars, pollVars, timerVars, httpVars,
                   heardVars, status>>

(* esp_web_start and the rest of StartWebServer, which sets the timeout of  *)
(* the connection to 10 s after the server has started: one step here, so  *)
(* a form without ssid that comes in between is not covered.               *)
StartWebServer ==
    /\ mpc = "web"
    /\ mpc' = "run"
    /\ UNCHANGED <<netifVars, driverVars, eventVars, pollVars, timerVars,
                   httpVars, heardVars, status>>

(* The power is cut, or the chip resets.                                   *)
Reboot ==
    /\ gateway_link' = <<>> /\ ip' = [n \in Netifs |-> NoAddress]
    /\ mpc' = "softap"
    /\ link' = "off" /\ target' = NoSsid /\ dhcp' = FALSE
    /\ events' = <<>> /\ epc' = "idle"
    /\ flag' = FALSE /\ heard' = FALSE /\ heardOf' = NoSsid
    /\ count' = 1 /\ tpc' = "idle" /\ tself' = NULL /\ tresult' = "NOT_START"
    /\ handle' = NULL /\ armed' = {}
    /\ status' = "NOT_START" /\ conf' = NoSsid
    /\ hpc' = "idle" /\ hret' = TRUE /\ hstate' = "0"
    /\ UNCHANGED <<stored, posts>>

-----------------------------------------------------------------------------
(* httpd: config_wifi_post_handler and esp_web_apply_wifi_connect_info.    *)

Step(from, to) == hpc = from /\ hpc' = to

(* A form that parses, with a status that allows an attempt.  It is        *)
(* answered with 200 before anything is tried.  A form without ssid leads  *)
(* to the scan filter if WeChat sent it.                                   *)
ConfigPost ==
    /\ mpc = "run" /\ posts < MaxPosts
    /\ status \in {"NOT_START", "CONNECT_FAIL", "CONNECT_OK"}
    /\ conf' \in Creds \cup {NoSsid}
    /\ hpc = "idle"
    /\ \/ hpc' = "delay"
       \/ conf' = NoSsid /\ hpc' = "scan"
    /\ posts' = posts + 1
    /\ UNCHANGED <<netifVars, mpc, driverVars, eventVars, pollVars, timerVars,
                   hret, hstate, heardVars, status>>

(* Mutant: the flag keeps what an earlier connection left in it.           *)
ClearFlagForgotten ==
    /\ Step("delay", "config") /\ tpc = "idle"
    /\ heard' = FALSE
    /\ UNCHANGED <<netifVars, mpc, driverVars, eventVars, pollVars, timerVars,
                   conf, hret, hstate, posts, flag, heardOf, status>>

(* Mutant: the attempt begins at once, without the delay.                  *)
ClearFlagAtOnce ==
    /\ Step("delay", "config")
    /\ flag' = FALSE /\ heard' = FALSE
    /\ UNCHANGED <<netifVars, mpc, driverVars, eventVars, pollVars, timerVars,
                   conf, hret, hstate, posts, heardOf, status>>

(* vTaskDelay(300 ms), which is longer than a callback of the timer takes; *)
(* then esp_web_update_sta_got_ip_flag(false).                             *)
ClearFlag ==
    /\ Step("delay", "config") /\ tpc = "idle"
    /\ flag' = FALSE /\ heard' = FALSE
    /\ UNCHANGED <<netifVars, mpc, driverVars, eventVars, pollVars, timerVars,
                   conf, hret, hstate, posts, heardOf, status>>

(* esp_web_try_connect without an event group: esp_wifi_set_config, which  *)
(* the driver may refuse ...                                               *)
TrySetConfig ==
    /\ Step("config", "disconnect")
    /\ hret' \in BOOLEAN
    /\ stored' = IF hret' THEN conf ELSE stored
    /\ UNCHANGED <<netifVars, mpc, link, target, dhcp, eventVars, pollVars,
                   timerVars, conf, hstate, posts, heardVars, status>>

(* ... then esp_wifi_disconnect and esp_wifi_connect all the same.         *)
TryDisconnect ==
    /\ Step("disconnect", "connect")
    /\ Len(events) < MaxEvents
    /\ WifiDisconnect
    /\ UNCHANGED <<netifVars, mpc, stored, dhcp, epc, pollVars, timerVars,
                   conf, hret, hstate, posts, heardVars, status>>

(* Mutant: connecting is left to the handler of the disconnection.         *)
TryConnectLeftToHandler ==
    /\ Step("connect", "status")
    /\ UNCHANGED <<netifVars, mpc, driverVars, eventVars, pollVars, timerVars,
                   conf, hret, hstate, posts, heardVars, status>>

TryConnect ==
    /\ Step("connect", "status")
    /\ WifiConnect
    /\ UNCHANGED <<netifVars, mpc, stored, dhcp, eventVars, pollVars, timerVars,
                   conf, hret, hstate, posts, heardVars, status>>

ApplyStatus ==
    /\ hpc = "status"
    /\ status' = IF hret THEN "CONNECTING" ELSE "NOT_START"
    /\ hpc' = IF hret THEN "create" ELSE "idle"
    /\ UNCHANGED <<netifVars, mpc, driverVars, eventVars, pollVars, timerVars,
                   conf, hret, hstate, posts, heardVars>>

(* xTimerCreate                                                            *)
CreateTimer ==
    /\ Step("create", "start")
    /\ handle' = posts
    /\ UNCHANGED <<netifVars, mpc, driverVars, eventVars, pollVars, armed,
                   conf, hret, hstate, posts, heardVars, status>>

(* xTimerStart, whose result the code ignores.  It fails only if the queue *)
(* of the timer task stays full for 5 ticks: assumed not to happen.        *)
StartTimer ==
    /\ Step("start", "idle")
    /\ armed' = armed \cup {handle}
    /\ UNCHANGED <<netifVars, mpc, driverVars, eventVars, pollVars, handle,
                   conf, hret, hstate, posts, heardVars, status>>

(* The branch without ssid: StartWebServer has set the timeout to 10 s, of *)
(* which the broadcasts take 10, so esp_web_start_scan_filter refuses with *)
(* ESP_ERR_INVALID_ARG, before its timer has fired once; status CONNECTING *)
(* is seen by nobody.                                                      *)
ApplyWithoutSsid ==
    /\ Step("scan", "idle") /\ tpc = "idle"
    /\ Len(events) < MaxEvents
    /\ WifiDisconnect
    /\ flag' = FALSE /\ heard' = FALSE
    /\ handle' = NULL
    /\ conf' = NoSsid
    /\ status' = "CONNECT_FAIL"
    /\ UNCHANGED <<netifVars, mpc, stored, dhcp, epc, pollVars, armed, hret,
                   hstate, posts, heardOf>>

(* accept_wifi_result_post_handler                                         *)
AcceptResult ==
    /\ hpc = "idle" /\ status \in {"CONNECT_FAIL", "CONNECT_OK"}
    /\ conf' = NoSsid
    /\ status' = "NOT_START"
    /\ UNCHANGED <<netifVars, mpc, driverVars, eventVars, pollVars, timerVars,
                   hpc, hret, hstate, posts, heardVars>>

(* config_wifi_get_handler reads the status for "state" ...                *)
ConfigGet ==
    /\ mpc = "run" /\ Step("idle", "get")
    /\ hstate' = CASE status = "CONNECT_OK" -> "1"
                   [] status = "CONNECT_FAIL" -> "2"
                   [] OTHER -> "0"
    /\ UNCHANGED <<netifVars, mpc, driverVars, eventVars, pollVars, timerVars,
                   conf, hret, posts, heardVars, status>>

(* ... and again for "message".                                            *)
ConfigGetMessage ==
    /\ Step("get", "idle")
    /\ hstate' = "0"
    /\ UNCHANGED <<netifVars, mpc, driverVars, eventVars, pollVars, timerVars,
                   conf, hret, posts, heardVars, status>>

-----------------------------------------------------------------------------
(* The timer task: listen_sta_connect_status_timer_cb.                     *)

(* Mutant: a poll that hears nothing is not counted.                       *)
PollNotCounting(t) ==
    /\ tpc = "idle" /\ t \in armed
    /\ IF count < MaxCount /\ ~flag
       THEN UNCHANGED pollVars
       ELSE /\ tpc' = "clear" /\ tself' = t
            /\ tresult' = IF count < MaxCount THEN "CONNECT_OK" ELSE "CONNECT_FAIL"
            /\ UNCHANGED count
    /\ UNCHANGED <<netifVars, mpc, driverVars, eventVars, timerVars, httpVars,
                   heardVars, status>>

Poll(t) ==
    /\ tpc = "idle" /\ t \in armed
    /\ IF count < MaxCount /\ ~flag
       THEN count' = count + 1 /\ UNCHANGED <<tpc, tself, tresult>>
       ELSE /\ tpc' = "clear" /\ tself' = t
            /\ tresult' = IF count < MaxCount THEN "CONNECT_OK" ELSE "CONNECT_FAIL"
            /\ UNCHANGED count
    /\ UNCHANGED <<netifVars, mpc, driverVars, eventVars, timerVars, httpVars,
                   heardVars, status>>

(* Mutant: the counter is not set back.                                    *)
FinishKeepingCount ==
    /\ tpc = "clear" /\ tpc' = "publish"
    /\ count' = count + 1 /\ flag' = FALSE
    /\ UNCHANGED <<netifVars, mpc, driverVars, eventVars, tself, tresult,
                   timerVars, httpVars, heard, heardOf, status>>

FinishPoll ==
    /\ tpc = "clear" /\ tpc' = "publish"
    /\ count' = 1 /\ flag' = FALSE
    /\ UNCHANGED <<netifVars, mpc, driverVars, eventVars, tself, tresult,
                   timerVars, httpVars, heard, heardOf, status>>

PublishStatus ==
    /\ tpc = "publish" /\ tpc' = "stop"
    /\ status' = tresult
    /\ UNCHANGED <<netifVars, mpc, driverVars, eventVars, count, tself, tresult,
                   timerVars, httpVars, heardVars>>

(* xTimerStop of the timer that the handle names by now                    *)
StopTimer ==
    /\ tpc = "stop" /\ tpc' = "delete"
    /\ armed' = armed \ {handle}
    /\ UNCHANGED <<netifVars, mpc, driverVars, eventVars, count, tself, tresult,
                   handle, httpVars, heardVars, status>>

(* Mutant: the status is set back with the timer.                          *)
DeleteTimerResetting ==
    /\ tpc = "delete" /\ tpc' = "idle"
    /\ armed' = armed \ {handle}
    /\ tself' = NULL /\ tresult' = "NOT_START"
    /\ status' = "NOT_START"
    /\ UNCHANGED <<netifVars, mpc, driverVars, eventVars, count, handle,
                   httpVars, heardVars>>

(* xTimerDelete                                                            *)
DeleteTimer ==
    /\ tpc = "delete" /\ tpc' = "idle"
    /\ armed' = armed \ {handle}
    /\ tself' = NULL /\ tresult' = "NOT_START"
    /\ UNCHANGED <<netifVars, mpc, driverVars, eventVars, count, handle,
                   httpVars, heardVars, status>>

-----------------------------------------------------------------------------
WifiDriver == Associate \/ Acquire \/ LinkDown

EventTask == StaConnected \/ StaDisconnected \/ GotIpConflict \/ GotIpFlag

AppMain == CreateSoftap \/ CreateStation \/ StartWebServer

HttpdStep ==
    \/ ClearFlag \/ TrySetConfig \/ TryDisconnect \/ TryConnect \/ ApplyStatus
    \/ CreateTimer \/ StartTimer \/ ApplyWithoutSsid \/ ConfigGetMessage

TimerTask ==
    \/ \E t \in Timers : Poll(t)
    \/ FinishPoll \/ PublishStatus \/ StopTimer \/ DeleteTimer

Next ==
    \/ AppMain \/ Reboot
    \/ ConfigPost \/ ConfigGet \/ AcceptResult \/ HttpdStep
    \/ TimerTask \/ EventTask \/ WifiDriver

Spec == Init /\ [][Next]_vars

(* Tasks that are ready run, and a running timer fires every 500 ms.       *)
(* Nothing makes a router accept the station or a user send a form.        *)
FairSpec ==
    Spec /\ WF_vars(HttpdStep) /\ WF_vars(TimerTask) /\ WF_vars(EventTask)

-----------------------------------------------------------------------------
TypeOK ==
    /\ ToSet(gateway_link) \subseteq Netifs
    /\ ip["softap"] \in Own \cup {NoAddress}
    /\ ip["station"] \in Networks \cup {NoAddress}
    /\ mpc \in {"softap", "station", "web", "run"}
    /\ {stored, target, conf, heardOf} \subseteq Creds \cup {NoSsid}
    /\ link \in {"off", "connecting", "associated", "up"}
    /\ events \in Seq([type : {"CONNECTED", "DISCONNECTED", "GOT_IP"},
                       cred : Creds])
    /\ Len(events) <= MaxEvents
    /\ epc \in {"idle", "web"}
    /\ {dhcp, flag, hret, heard} \subseteq BOOLEAN
    /\ count \in 1..MaxCount
    /\ status \in Statuses /\ tresult \in Statuses
    /\ handle \in Timers \cup {NULL} /\ armed \subseteq Timers
    /\ hpc \in {"idle", "delay", "config", "disconnect", "connect", "status",
                "create", "start", "scan", "get"}
    /\ hstate \in {"0", "1", "2"}
    /\ tpc \in {"idle", "clear", "publish", "stop", "delete"}
    /\ tself \in Timers \cup {NULL}
    /\ posts \in 0..MaxPosts

(* The callback stops and deletes the timer it runs for, although it names *)
(* it by a shared handle and has published the result before, so that the  *)
(* next form is accepted meanwhile (listen_sta_connect_status_timer_cb     *)
(* against esp_web_apply_wifi_connect_info).                               *)
OwnTimerOnly == tpc \in {"stop", "delete"} => handle = tself

(* A result OK rests on a got-IP that was handled after the attempt had    *)
(* cleared s_sta_got_ip_flag, not on a flag that an earlier connection     *)
(* left set, whatever reconnects and earlier attempts came before.  The    *)
(* event may be one of the old link that still waited: OkMeansAppointed    *)
(* asks whose address it was.                                              *)
OkHasAddress == status = "CONNECT_OK" /\ hpc = "idle" => heard

(* A configured station that is down is not left so: a disconnection that  *)
(* waits in the event loop, or the attempt under way, connects it again    *)
(* (wifi_event_sta_disconnected_handler and esp_web_try_connect, which     *)
(* both connect and of which neither knows of the other).                  *)
StationComesBack ==
    mpc \in {"web", "run"} /\ link = "off" /\ stored # NoSsid =>
        \/ \E i \in DOMAIN events : events[i].type = "DISCONNECTED"
        \/ hpc \in {"disconnect", "connect"}

(* Once the event task has caught up, the softAP is not in the network of  *)
(* the router: the gateway can route between them                          *)
(* (esp_gateway_netif_network_segment_conflict_update).                    *)
SoftapApart ==
    events = <<>> /\ epc = "idle" /\ ip["softap"] # NoAddress =>
        ip["softap"] # ip["station"]

(* Between two restarts the softAP leaves a network only when the router   *)
(* uses the same one: the sensors send to the fixed address 192.168.4.1.   *)
SoftapStays ==
    [][ip["softap"] # NoAddress /\ ip'["softap"] \notin {ip["softap"], NoAddress}
         => ip["softap"] = ip["station"]]_vars

(* An answer that says "state" 1 or 2 has the message of the same result,  *)
(* although the status is read twice (config_wifi_get_handler against the  *)
(* callback of the timer).                                                 *)
AnswerAgrees ==
    [][hpc = "get" /\ hpc' = "idle" /\ mpc' = "run" =>
         /\ hstate = "1" => status = "CONNECT_OK"
         /\ hstate = "2" => status = "CONNECT_FAIL"]_vars

(* An attempt that is CONNECTING always has what will end it: the timer    *)
(* that the handle names runs, or is about to, or its callback is about to *)
(* publish the result, although the callback of the attempt before stops   *)
(* and deletes its timer by the same handle.                               *)
ConnectingIsPolled ==
    status = "CONNECTING" =>
        hpc \in {"create", "start"} \/ handle \in armed \/ tpc \in {"clear", "publish"}

(* An attempt does not stay CONNECTING for ever, which would keep every    *)
(* other form out: the polls run out.                                      *)
StatusSettles == status = "CONNECTING" ~> status # "CONNECTING"

(* The comment in the callback: it checks "whether sta has connnected to   *)
(* appointed ap".  A result OK is about the credentials just applied.      *)
OkMeansAppointed ==
    status = "CONNECT_OK" /\ hpc = "idle" => heardOf = conf
=============================================================================
