------------------------- MODULE WifiManager_proofs -------------------------
(***************************************************************************)
(* Proofs about WifiManager, for any credentials, any length of the queue, *)
(* any number of retries, waiting events and restarts: type correctness,   *)
(* that the event bits follow the driver, and, while users are polite,     *)
(* what the flash holds and that no node is lost.                          *)
(***************************************************************************)
EXTENDS WifiManager, SequenceFacts

USE GoodCredsAssumption, NoCredAssumption, QueueLengthAssumption,
    MaxRetryAssumption, BoundsAssumption
USE DEF none

(***************************************************************************)
(* The bits and the driver.  An event posted is an element of the event    *)
(* loop's queue until the handler has changed the bits for it.             *)
(***************************************************************************)

Posted(e) == e \in ToSet(events)

(* The last event posted says what the driver did last, and a bit that no  *)
(* event is about to change says so already.                               *)
LinkFollowed ==
    /\ sta # "up" => Covered("GOT_IP", "STA_DISCONNECTED", events)
    /\ sta = "up" => Covered("STA_DISCONNECTED", "GOT_IP", events)
    /\ ~Posted("GOT_IP") /\ ~Posted("STA_DISCONNECTED") =>
         ("CONNECTED" \in bits <=> sta = "up")

ApFollowed ==
    /\ ~ap => Covered("AP_START", "AP_STOP", events)
    /\ ap => Covered("AP_STOP", "AP_START", events)
    /\ ~Posted("AP_START") /\ ~Posted("AP_STOP") => ("AP_STARTED" \in bits <=> ap)

(* The end of a scan that is marked is still to come or to be handled.     *)
ScanFollowed ==
    "SCAN" \in bits => scanning \/ Posted("SCAN_DONE") \/ Posted("STA_DISCONNECTED")

DriverInv == LinkFollowed /\ ApFollowed /\ ScanFollowed

(***************************************************************************)
(* The work that is under way.  The manager's cycle of connecting, losing  *)
(* the connection and retrying is one piece of work that is passed from    *)
(* the driver to the event loop, the queue, a timer and back.              *)
(***************************************************************************)

Work == {"LOAD_AND_RESTORE_STA", "CONNECT_STA_RESTORE", "CONNECT_STA_USER",
         "CONNECT_STA_AUTO_RECONNECT", "STA_DISCONNECTED"}

Queued(m) == m \in ToSet(queue)

LossPosted == Posted("STA_DISCONNECTED") \/ esend = "STA_DISCONNECTED"
LossPending == LossPosted \/ Queued("STA_DISCONNECTED")
AddressPending == Posted("GOT_IP") \/ esend = "STA_GOT_IP" \/ Queued("STA_GOT_IP")
Retrying == retryTimer \/ tsend = "CONNECT_STA_AUTO_RECONNECT"
Ordered ==
    \/ hsend = "CONNECT_STA_USER" \/ msend = "CONNECT_STA_RESTORE"
    \/ ToSet(queue) \cap Work # {}

Idle == sta = "down" /\ ~LossPosted /\ ~Retrying /\ ~Ordered

(* There is never more than one of it.                                     *)
OneWork ==
    /\ sta # "down" => ~LossPosted /\ ~Retrying /\ ~Ordered
    /\ LossPosted => ~Retrying /\ ~Ordered
    /\ Retrying => ~Ordered
    /\ ~(Posted("STA_DISCONNECTED") /\ esend = "STA_DISCONNECTED")
    /\ ~(retryTimer /\ tsend = "CONNECT_STA_AUTO_RECONNECT")
    /\ ~(hsend = "CONNECT_STA_USER" /\ msend = "CONNECT_STA_RESTORE")
    /\ hsend = "CONNECT_STA_USER" \/ msend = "CONNECT_STA_RESTORE" =>
         ToSet(queue) \cap Work = {}
    /\ AtMostOne(Work, queue)
    /\ AtMostOne({"STA_DISCONNECTED"}, events)

(* The manager orders something for itself only while the station is down. *)
OwnOrders ==
    /\ mpc = "send" => sta = "down" /\ msend \in {"START_AP", "CONNECT_STA_RESTORE"}
    /\ mpc = "stop_httpd" => msend \in {"START_AP", "STOP_AP"}

(* The news of an address overtakes no news of its loss.                   *)
AddressFirst ==
    /\ sta # "up" /\ ~LossPosted => Covered("STA_GOT_IP", "STA_DISCONNECTED", queue)
    /\ esend = "STA_GOT_IP" => sta = "up" \/ Posted("STA_DISCONNECTED")

(* The access point is started, or about to be, when nothing else goes on. *)
StartQueued == Queued("START_AP") \/ (mpc = "send" /\ msend = "START_AP")
Offered == ap \/ StartQueued
IdleIsOffered == Idle => Offered

(* The timer that shuts the access point down does so for a connection ... *)
ShutdownJustified == shutdownTimer => sta = "up" \/ LossPending

(* ... and never while a user's order to connect is carried out.           *)
UserConnects ==
    hsend = "CONNECT_STA_USER" \/ Queued("CONNECT_STA_USER") \/ "REQUEST_CONNECT" \in bits
UserKeepsAp ==
    UserConnects =>
        ~shutdownTimer /\ tsend # "STOP_AP" /\ ~Queued("STOP_AP") /\ Offered

(* A mark on an attempt is there no longer than its outcome is open.       *)
Undecided == sta = "connecting" \/ AddressPending \/ LossPending
MarksUndecided ==
    "REQUEST_CONNECT" \in bits \/ "REQUEST_RESTORE" \in bits => Undecided

(* The first attempt after the start is over before a user orders anything.*)
UserOrders ==
    \/ UserConnects \/ hsend = "DISCONNECT_STA" \/ Queued("DISCONNECT_STA")
    \/ "REQUEST_DISCONNECT" \in bits
StartOver ==
    UserOrders =>
        /\ ~Queued("LOAD_AND_RESTORE_STA") /\ ~Queued("CONNECT_STA_RESTORE")
        /\ msend # "CONNECT_STA_RESTORE" /\ "REQUEST_RESTORE" \notin bits

Restoring ==
    \/ "REQUEST_RESTORE" \in bits \/ Queued("CONNECT_STA_RESTORE")
    \/ msend = "CONNECT_STA_RESTORE"

(* The shared configuration is the one of the attempt, and the one in      *)
(* flash if it was restored.                                               *)
ConfigFollowed ==
    /\ sta # "down" => link = config
    /\ sta = "up" \/ AddressPending => config \in GoodCreds
    /\ Restoring => config = nvs
    /\ nvs \in GoodCreds \cup {NoCred}
    /\ sta = "up" => AddressPending \/ nvs = link

(* The DNS server is stopped with the news of the address, behind which no *)
(* start of the access point is queued.                                    *)
DnsFollowed ==
    sta = "up" =>
        \/ Posted("GOT_IP") \/ esend = "STA_GOT_IP"
        \/ Queued("STA_GOT_IP") /\ Covered("START_AP", "STA_GOT_IP", queue)
        \/ ~dns /\ ~Queued("START_AP") /\ msend # "START_AP"

WorkInv ==
    /\ OneWork /\ OwnOrders /\ AddressFirst /\ IdleIsOffered /\ ShutdownJustified
    /\ UserKeepsAp /\ MarksUndecided /\ StartOver /\ ConfigFollowed /\ DnsFollowed

PoliteInv == Polite => WorkInv

(***************************************************************************)
(* The queue of messages and the event loop                                *)
(***************************************************************************)

(* What the manager takes was first in its queue; orders that are single   *)
(* stay so, and what was covered by a later message still is.              *)
LEMMA Taking ==
    ASSUME TypeOK, NEW m, Receive(m)
    PROVE  /\ mpc = "receive" /\ msend = none /\ m \in Messages
           /\ queue' \in Seq(Messages) /\ Len(queue') <= QueueLength
           /\ ToSet(queue) = {m} \cup ToSet(queue')
           /\ AtMostOne(Work, queue) =>
                AtMostOne(Work, queue') /\ (m \in Work => ToSet(queue') \cap Work = {})
           /\ \A x, y : Covered(x, y, queue) =>
                Covered(x, y, queue') /\ (m = x /\ x # y => y \in ToSet(queue'))
<1>1. /\ queue \in Seq(Messages) /\ queue # <<>> /\ Len(queue) <= QueueLength
      /\ Head(queue) = m /\ queue' = Tail(queue) /\ mpc = "receive" /\ msend = none
  BY DEF TypeOK, Receive
<1>2. /\ Head(queue) \in Messages /\ Tail(queue) \in Seq(Messages)
      /\ Len(Tail(queue)) = Len(queue) - 1 /\ Len(queue) \in Nat
      /\ ToSet(queue) = {Head(queue)} \cup ToSet(Tail(queue))
  BY <1>1, TailElements
<1>3. /\ \A W : AtMostOne(W, queue) =>
           AtMostOne(W, Tail(queue)) /\ (Head(queue) \in W => ToSet(Tail(queue)) \cap W = {})
      /\ \A x, y : Covered(x, y, queue) =>
           /\ Covered(x, y, Tail(queue))
           /\ Head(queue) = x /\ x # y => y \in ToSet(Tail(queue))
  BY <1>1, TailOrder
<1> QED
  BY <1>1, <1>2, <1>3

(* What is sent is last in the queue and covers what is before it.         *)
LEMMA Sending ==
    ASSUME TypeOK, NEW m \in Messages, Send(m)
    PROVE  /\ queue' \in Seq(Messages) /\ Len(queue') <= QueueLength
           /\ ToSet(queue') = {m} \cup ToSet(queue)
           /\ AtMostOne(Work, queue) /\ (m \in Work => ToSet(queue) \cap Work = {}) =>
                AtMostOne(Work, queue')
           /\ \A x : \A y \in Messages \ {x} : m = y => Covered(x, y, queue')
           /\ \A x, y : Covered(x, y, queue) /\ m # x => Covered(x, y, queue')
<1>1. /\ queue \in Seq(Messages) /\ Len(queue) \in Nat /\ Len(queue) < QueueLength
      /\ queue' = Append(queue, m)
  BY DEF TypeOK, Send
<1>2. /\ queue' \in Seq(Messages) /\ Len(queue') = Len(queue) + 1
      /\ ToSet(queue') = {m} \cup ToSet(queue)
  BY <1>1, AppendElements
<1> QED
  BY <1>1, <1>2, AppendOrder

(* What the driver posts is last in the event loop's queue and covers what *)
(* is before it.                                                           *)
LEMMA Posting ==
    ASSUME events \in Seq(Events), NEW e \in Events, Post(e)
    PROVE  /\ events' \in Seq(Events)
           /\ ToSet(events') = {e} \cup ToSet(events)
           /\ \A W : AtMostOne(W, events) /\ (e \in W => ToSet(events) \cap W = {}) =>
                AtMostOne(W, events')
           /\ \A x : \A y \in Events \ {x} : e = y => Covered(x, y, events')
           /\ \A x, y : Covered(x, y, events) /\ e # x => Covered(x, y, events')
BY AppendElements, AppendOrder DEF Post

(* What the event loop handles was first in its queue; what was covered by *)
(* a later event still is.                                                 *)
LEMMA Handling ==
    ASSUME events \in Seq(Events), events # <<>>, events' = Tail(events)
    PROVE  /\ events' \in Seq(Events) /\ Head(events) \in Events
           /\ ToSet(events) = {Head(events)} \cup ToSet(events')
           /\ \A W : AtMostOne(W, events) =>
                /\ AtMostOne(W, events')
                /\ Head(events) \in W => ToSet(events') \cap W = {}
           /\ \A x, y : Covered(x, y, events) =>
                /\ Covered(x, y, events')
                /\ Head(events) = x /\ x # y => y \in ToSet(events')
BY TailElements, TailOrder

(* Timers, events and requests send messages that the manager knows.       *)
LEMMA EventsAreMessages ==
    /\ {"CONNECT_STA_AUTO_RECONNECT", "STOP_AP", "SCAN_DONE", "STA_DISCONNECTED",
        "STA_GOT_IP", "CONNECT_STA_USER", "DISCONNECT_STA", "START_WIFI_SCAN"}
         \subseteq Messages
    /\ none \notin Messages
BY DEF Messages

(***************************************************************************)
(* Type correctness                                                        *)
(***************************************************************************)

(* The types hold when a node starts.                                      *)
LEMMA TypeInit == Init => TypeOK
<1> SUFFICES ASSUME Init PROVE TypeOK
  OBVIOUS
<1>1. queue \in Seq(Messages) /\ Len(queue) = 1 /\ events \in Seq(Events)
  BY DEF Init, Messages
<1>2. {dns, retryTimer, shutdownTimer, scanning, ap} \subseteq BOOLEAN
  BY DEF Init
<1> QED
  BY <1>1, <1>2 DEF Init, TypeOK, Configs

(* The types are inductive.                                                *)
LEMMA TypeNext ==
    ASSUME TypeOK, [Next]_vars
    PROVE  TypeOK'
<1> USE DEF managerVars, driverVars, timerVars, askVars, sendVars, Done, ThenSend
<1>0. events \in Seq(Events) /\ queue \in Seq(Messages) /\ Len(queue) <= QueueLength
  BY DEF TypeOK
<1>1. CASE UNCHANGED vars
  BY <1>1 DEF TypeOK, vars
<1>2. CASE Manager /\ ~DriverRefuses
  <2>1. CASE DoScanDone
    BY <2>1, Taking DEF DoScanDone, TypeOK
  <2>2. CASE DoStartScan
    <3>1. {dns', retryTimer', shutdownTimer', scanning', ap'} \subseteq BOOLEAN
      BY <2>2 DEF DoStartScan, TypeOK
    <3>2. /\ \E m : Receive(m)
          /\ Done /\ bits' \subseteq Bits
          /\ UNCHANGED <<retries, config, nvs, status, sendVars, events, sta, link, askVars,
                         reboots>>
      BY <2>2 DEF DoStartScan, TypeOK, Bits
    <3> QED
      BY <3>1, <3>2, Taking DEF TypeOK
  <2>3. CASE DoLoadAndRestore
    BY <2>3, Taking DEF DoLoadAndRestore, TypeOK, Messages
  <2>4. CASE DoConnect
    <3>1. PICK m \in DOMAIN RequestBit :
            /\ Receive(m) /\ Done
            /\ bits' = bits \cup RequestBit[m]
            /\ sta' \in {sta, "connecting"} /\ link' \in {link, config}
            /\ scanning' \in {scanning, FALSE} /\ (events' = events \/ Post("SCAN_DONE"))
            /\ UNCHANGED <<retries, config, nvs, status, dns, timerVars, sendVars, ap,
                           askVars, reboots>>
      BY <2>4 DEF DoConnect
    <3>2. RequestBit[m] \subseteq Bits
      BY DEF RequestBit, Bits
    <3>3. events' \in Seq(Events)
      BY <1>0, <3>1, Posting DEF Events
    <3>4. {dns', retryTimer', shutdownTimer', scanning', ap'} \subseteq BOOLEAN
      BY <3>1 DEF TypeOK
    <3>5. /\ mpc' = "receive" /\ msend' = none /\ bits' \subseteq Bits
          /\ sta' \in {"down", "connecting", "up"} /\ link' \in Configs
          /\ queue' \in Seq(Messages) /\ Len(queue') <= QueueLength
      BY <3>1, <3>2, Taking DEF TypeOK
    <3> QED
      BY <3>1, <3>3, <3>4, <3>5 DEF TypeOK
  <2>5. CASE DoAttemptFailed
    <3>1. {dns', retryTimer', shutdownTimer', scanning', ap'} \subseteq BOOLEAN
      BY <2>5 DEF DoAttemptFailed, TypeOK
    <3> QED
      BY <2>5, <3>1, Taking DEF DoAttemptFailed, TypeOK
  <2>6. CASE DoUserDisconnected
    <3>1. {dns', retryTimer', shutdownTimer', scanning', ap'} \subseteq BOOLEAN
      BY <2>6 DEF DoUserDisconnected, TypeOK
    <3> QED
      BY <2>6, <3>1, Taking DEF DoUserDisconnected, TypeOK, Messages, Configs
  <2>7. CASE DoConnectionLost
    <3>1. retries' \in 0..MaxRetry
      BY <2>7 DEF DoConnectionLost, TypeOK
    <3>2. /\ mpc' \in {"receive", "send"} /\ msend' \in {none} \cup Messages
          /\ msend' = none <=> mpc' = "receive"
      BY <2>7 DEF DoConnectionLost, Messages
    <3>3. {dns', retryTimer', shutdownTimer', scanning', ap'} \subseteq BOOLEAN
      BY <2>7 DEF DoConnectionLost, TypeOK
    <3> QED
      BY <2>7, <3>1, <3>2, <3>3, Taking DEF DoConnectionLost, TypeOK
  <2>8. CASE DoStartAP
    <3>1. events' \in Seq(Events)
      BY <1>0, <2>8, Posting DEF DoStartAP, SetMode, Post, Events
    <3> QED
      BY <2>8, <3>1, Taking DEF DoStartAP, SetMode, TypeOK, Messages
  <2>9. CASE DoStopAP
    <3>1. events' \in Seq(Events) /\ ap' \in BOOLEAN /\ dns' \in BOOLEAN
      BY <1>0, <2>9, Posting DEF DoStopAP, SetMode, Post, Events, TypeOK
    <3>2. /\ mpc' \in {"receive", "stop_httpd"} /\ msend' \in {none} \cup Messages
          /\ msend' = none <=> mpc' = "receive"
      BY <2>9 DEF DoStopAP, Messages
    <3> QED
      BY <2>9, <3>1, <3>2, Taking DEF DoStopAP, TypeOK
  <2>10. CASE RestartHttpd
    BY <2>10 DEF RestartHttpd, TypeOK
  <2>11. CASE DoGotIp
    <3>1. nvs' \in Configs /\ bits' \subseteq Bits
      BY <2>11 DEF DoGotIp, TypeOK
    <3>2. {dns', retryTimer', shutdownTimer', scanning', ap'} \subseteq BOOLEAN
      BY <2>11 DEF DoGotIp, TypeOK
    <3> QED
      BY <2>11, <3>1, <3>2, Taking DEF DoGotIp, TypeOK
  <2>12. CASE DoDisconnect
    <3>1. events' \in Seq(Events)
      BY <1>0, <2>12, Posting DEF DoDisconnect, Events
    <3>2. {dns', retryTimer', shutdownTimer', scanning', ap'} \subseteq BOOLEAN
      BY <2>12 DEF DoDisconnect, TypeOK
    <3> QED
      BY <2>12, <3>1, <3>2, Taking DEF DoDisconnect, TypeOK, Bits
  <2>13. CASE ManagerSends
    <3>1. msend \in Messages
      BY <2>13 DEF ManagerSends, TypeOK
    <3> QED
      BY <2>13, <3>1, Sending DEF ManagerSends, TypeOK
  <2> QED
    BY <1>2, <2>1, <2>2, <2>3, <2>4, <2>5, <2>6, <2>7, <2>8, <2>9, <2>10, <2>11,
       <2>12, <2>13 DEF Manager
<1>3. CASE HandleEvent
  <2>1. events' \in Seq(Events) /\ Head(events) \in Events
    BY <1>0, <1>3, Handling DEF HandleEvent
  <2>2. bits' \subseteq Bits
    BY <1>3, <2>1 DEF HandleEvent, TypeOK, Events, Bits
  <2>3. esend' \in {none, "SCAN_DONE", "STA_DISCONNECTED", "STA_GOT_IP"}
    BY <1>3, <2>1 DEF HandleEvent, Events
  <2>4. UNCHANGED <<queue, managerVars, config, nvs, status, dns, timerVars, tsend, hsend,
                    driverVars, askVars, reboots>>
    BY <1>3 DEF HandleEvent
  <2> QED
    BY <2>1, <2>2, <2>3, <2>4 DEF TypeOK
<1>4. CASE EventSends
  BY <1>4, Sending, EventsAreMessages DEF EventSends, TypeOK
<1>5. CASE TimerSends
  BY <1>5, Sending, EventsAreMessages DEF TimerSends, TypeOK
<1>6. CASE HttpSends
  BY <1>6, Sending, EventsAreMessages DEF HttpSends, TypeOK
<1>7. CASE RetryExpires \/ ShutdownExpires
  <2>1. {dns', retryTimer', shutdownTimer', scanning', ap'} \subseteq BOOLEAN
    BY <1>7 DEF RetryExpires, ShutdownExpires, TypeOK
  <2> QED
    BY <1>7, <2>1 DEF RetryExpires, ShutdownExpires, TypeOK
<1>8. CASE User
  <2>1. ASSUME NEW r \in {"connect", "disconnect"}, NEW p, Asks(r, p)
        PROVE  asked' \in {"nothing", "connect", "disconnect"} /\ impolite' \in 0..MaxImpolite
    BY <2>1 DEF Asks, TypeOK
  <2>2. ASSUME NEW c \in Creds, PostConnect(c) PROVE TypeOK'
    BY <2>1, <2>2 DEF PostConnect, TypeOK, Configs
  <2>3. CASE DeleteConnect
    BY <2>1, <2>3 DEF DeleteConnect, TypeOK
  <2>4. CASE GetAccessPoints
    BY <2>4 DEF GetAccessPoints, TypeOK
  <2> QED
    BY <1>8, <2>2, <2>3, <2>4 DEF User
<1>9. CASE Driver
  <2>1. events' \in Seq(Events)
    BY <1>0, <1>9, Posting DEF Driver, ConnectSucceeds, Disconnected, ScanEnds, Events
  <2>2. {dns', retryTimer', shutdownTimer', scanning', ap'} \subseteq BOOLEAN
    BY <1>9 DEF Driver, ConnectSucceeds, Disconnected, ScanEnds, TypeOK
  <2> QED
    BY <1>9, <2>1, <2>2 DEF Driver, ConnectSucceeds, Disconnected, ScanEnds, TypeOK
<1>10. CASE Reboot \/ DriverRefuses
  <2>1. queue' \in Seq(Messages) /\ Len(queue') = 1 /\ events' \in Seq(Events)
    <3>1. queue' = <<"LOAD_AND_RESTORE_STA">> /\ events' = <<>>
      BY <1>10 DEF Reboot, DriverRefuses, Restart
    <3> QED
      BY <3>1 DEF Messages
  <2>2. {dns', retryTimer', shutdownTimer', scanning', ap'} \subseteq BOOLEAN
    BY <1>10 DEF Reboot, DriverRefuses, Restart
  <2>3. reboots' \in 0..MaxReboots
    BY <1>10 DEF Reboot, DriverRefuses, TypeOK
  <2>4. Restart
    BY <1>10 DEF Reboot, DriverRefuses
  <2> QED
    BY <2>1, <2>2, <2>3, <2>4 DEF Restart, TypeOK, Configs
<1> QED
  BY <1>1, <1>2, <1>3, <1>4, <1>5, <1>6, <1>7, <1>8, <1>9, <1>10
     DEF Next, EventLoop, TimerTask

(* The manager, its queue, the event loop and the driver always have their *)
(* shape: in particular no more messages wait than the queue holds, and no *)
(* more than MaxRetry retries are counted.                                 *)
THEOREM TypeCorrect == Spec => []TypeOK
BY TypeInit, TypeNext, PTL DEF Spec

(***************************************************************************)
(* The bits of the event group                                             *)
(***************************************************************************)

KeepsBits(B) == \A b \in B : b \in bits' <=> b \in bits

(* An event that is posted when the station changes keeps CONNECTED in     *)
(* step.                                                                   *)
LEMMA LinkPosted ==
    ASSUME TypeOK, LinkFollowed, KeepsBits({"CONNECTED"}), NEW e \in Events, Post(e),
           sta' = "up" <=> e = "GOT_IP" \/ (sta = "up" /\ e # "STA_DISCONNECTED")
    PROVE  LinkFollowed'
<1>0. /\ events \in Seq(Events) /\ {"GOT_IP", "STA_DISCONNECTED"} \subseteq Events
      /\ "CONNECTED" \in bits' <=> "CONNECTED" \in bits
  BY DEF TypeOK, Events, KeepsBits
<1>1. CASE e = "GOT_IP"
  <2>1. Covered("STA_DISCONNECTED", "GOT_IP", events') /\ "GOT_IP" \in ToSet(events')
    BY <1>0, <1>1, Posting
  <2> QED
    BY <1>1, <2>1 DEF LinkFollowed, Posted
<1>2. CASE e = "STA_DISCONNECTED"
  <2>1. /\ Covered("GOT_IP", "STA_DISCONNECTED", events')
        /\ "STA_DISCONNECTED" \in ToSet(events')
    BY <1>0, <1>2, Posting
  <2> QED
    BY <1>2, <2>1 DEF LinkFollowed, Posted
<1>3. CASE e \notin {"GOT_IP", "STA_DISCONNECTED"}
  <2>1. ToSet(events') = {e} \cup ToSet(events)
    BY <1>0, Posting
  <2>2. \A x, y : Covered(x, y, events) /\ e # x => Covered(x, y, events')
    BY <1>0, Posting
  <2> QED
    BY <1>0, <1>3, <2>1, <2>2 DEF LinkFollowed, Posted
<1> QED
  BY <1>1, <1>2, <1>3

(* An event that is posted when the access point changes keeps AP_STARTED  *)
(* in step.                                                                *)
LEMMA ApPosted ==
    ASSUME TypeOK, ApFollowed, KeepsBits({"AP_STARTED"}), NEW e \in Events, Post(e),
           ap' \in BOOLEAN, ap' <=> e = "AP_START" \/ (ap /\ e # "AP_STOP")
    PROVE  ApFollowed'
<1>0. /\ events \in Seq(Events) /\ {"AP_START", "AP_STOP"} \subseteq Events
      /\ "AP_STARTED" \in bits' <=> "AP_STARTED" \in bits
  BY DEF TypeOK, Events, KeepsBits
<1>1. CASE e = "AP_START"
  <2>1. Covered("AP_STOP", "AP_START", events') /\ "AP_START" \in ToSet(events')
    BY <1>0, <1>1, Posting
  <2> QED
    BY <1>1, <2>1 DEF ApFollowed, Posted
<1>2. CASE e = "AP_STOP"
  <2>1. Covered("AP_START", "AP_STOP", events') /\ "AP_STOP" \in ToSet(events')
    BY <1>0, <1>2, Posting
  <2> QED
    BY <1>2, <2>1 DEF ApFollowed, Posted
<1>3. CASE e \notin {"AP_START", "AP_STOP"}
  <2>1. ToSet(events') = {e} \cup ToSet(events)
    BY <1>0, Posting
  <2>2. \A x, y : Covered(x, y, events) /\ e # x => Covered(x, y, events')
    BY <1>0, Posting
  <2> QED
    BY <1>0, <1>3, <2>1, <2>2 DEF ApFollowed, Posted
<1> QED
  BY <1>1, <1>2, <1>3

(* A scan that ends posts its end, or the loss that cuts it off.           *)
LEMMA ScanPosted ==
    ASSUME TypeOK, ScanFollowed, KeepsBits({"SCAN"}), NEW e \in Events, Post(e),
           scanning => scanning' \/ e \in {"SCAN_DONE", "STA_DISCONNECTED"}
    PROVE  ScanFollowed'
BY Posting DEF TypeOK, ScanFollowed, Posted, KeepsBits

(* wifi_manager_event_handler                                              *)
LEMMA BitsHandled ==
    ASSUME TypeOK, DriverInv, HandleEvent
    PROVE  DriverInv'
<1> DEFINE e == Head(events)
<1>0. /\ events \in Seq(Events) /\ events # <<>> /\ events' = Tail(events)
      /\ UNCHANGED <<sta, scanning, ap>>
  BY DEF TypeOK, HandleEvent, driverVars
<1>1. /\ e \in Events /\ ToSet(events) = {e} \cup ToSet(events')
      /\ \A x, y : Covered(x, y, events) =>
           Covered(x, y, events') /\ (e = x /\ x # y => y \in ToSet(events'))
  BY <1>0, Handling
<1>2. bits' = CASE e = "SCAN_DONE" -> bits \ {"SCAN"}
                [] e = "STA_DISCONNECTED" -> bits \ {"CONNECTED", "SCAN"}
                [] e = "AP_START" -> bits \cup {"AP_STARTED"}
                [] e = "AP_STOP" -> bits \ {"AP_STARTED"}
                [] e = "GOT_IP" -> bits \cup {"CONNECTED"}
  BY DEF HandleEvent
<1> HIDE DEF e
<1>3. /\ "CONNECTED" \in bits' <=>
           e = "GOT_IP" \/ ("CONNECTED" \in bits /\ e # "STA_DISCONNECTED")
      /\ "AP_STARTED" \in bits' <=>
           e = "AP_START" \/ ("AP_STARTED" \in bits /\ e # "AP_STOP")
      /\ "SCAN" \in bits' <=> "SCAN" \in bits /\ e \notin {"SCAN_DONE", "STA_DISCONNECTED"}
  BY <1>1, <1>2 DEF Events
<1>4. LinkFollowed'
  BY <1>0, <1>1, <1>3 DEF DriverInv, LinkFollowed, Posted
<1>5. ApFollowed'
  BY <1>0, <1>1, <1>3 DEF DriverInv, ApFollowed, Posted
<1>6. ScanFollowed'
  BY <1>0, <1>1, <1>3 DEF DriverInv, ScanFollowed, Posted
<1> QED
  BY <1>4, <1>5, <1>6 DEF DriverInv

(* The bits agree with the driver when a node starts.                      *)
LEMMA DriverInit == Init => DriverInv
<1> SUFFICES ASSUME Init PROVE DriverInv
  OBVIOUS
<1>1. ToSet(events) = {}
  BY ToSetEmpty DEF Init
<1> QED
  BY <1>1, NothingToCover
     DEF Init, DriverInv, LinkFollowed, ApFollowed, ScanFollowed, Posted

(* Every step keeps the bits, the events under way and the driver in       *)
(* agreement.                                                              *)
LEMMA DriverNext ==
    ASSUME TypeOK, DriverInv, [Next]_vars
    PROVE  DriverInv'
<1> USE DEF managerVars, driverVars, timerVars, askVars, sendVars
<1>0. /\ LinkFollowed /\ ApFollowed /\ ScanFollowed /\ ap \in BOOLEAN
      /\ Events = {"SCAN_DONE", "STA_DISCONNECTED", "AP_START", "AP_STOP", "GOT_IP"}
  BY DEF DriverInv, TypeOK, Events
<1>1. ASSUME KeepsBits({"CONNECTED", "AP_STARTED", "SCAN"}),
             UNCHANGED <<events, ap>>, sta' = "up" <=> sta = "up", scanning => scanning'
      PROVE  DriverInv'
  <2>1. LinkFollowed'
    BY <1>0, <1>1 DEF LinkFollowed, Posted, KeepsBits
  <2>2. ApFollowed'
    BY <1>0, <1>1 DEF ApFollowed, Posted, KeepsBits
  <2>3. ScanFollowed'
    BY <1>0, <1>1 DEF ScanFollowed, Posted, KeepsBits
  <2> QED
    BY <2>1, <2>2, <2>3 DEF DriverInv
<1>2. ASSUME KeepsBits({"CONNECTED", "AP_STARTED", "SCAN"}),
             NEW e \in Events, Post(e),
             sta' = "up" <=> e = "GOT_IP" \/ (sta = "up" /\ e # "STA_DISCONNECTED"),
             ap' \in BOOLEAN, ap' <=> e = "AP_START" \/ (ap /\ e # "AP_STOP"),
             scanning => scanning' \/ e \in {"SCAN_DONE", "STA_DISCONNECTED"}
      PROVE  DriverInv'
  <2>1. /\ KeepsBits({"CONNECTED"}) /\ KeepsBits({"AP_STARTED"})
        /\ KeepsBits({"SCAN"})
    BY <1>2 DEF KeepsBits
  <2> QED
    BY <1>0, <1>2, <2>1, LinkPosted, ApPosted, ScanPosted DEF DriverInv
<1>3. CASE DoStartScan
  <2>1. /\ UNCHANGED <<events, sta, ap>> /\ KeepsBits({"CONNECTED", "AP_STARTED"})
        /\ "SCAN" \in bits \/ scanning'
        /\ scanning => scanning'
    BY <1>3 DEF DoStartScan, KeepsBits
  <2>2. LinkFollowed' /\ ApFollowed'
    BY <1>0, <2>1 DEF LinkFollowed, ApFollowed, Posted, KeepsBits
  <2>3. ScanFollowed'
    BY <1>0, <2>1 DEF ScanFollowed, Posted
  <2> QED
    BY <2>2, <2>3 DEF DriverInv
<1>4. CASE DoConnect
  <2>1. /\ KeepsBits({"CONNECTED", "AP_STARTED", "SCAN"}) /\ ap' = ap
        /\ sta' = "up" <=> sta = "up"
    BY <1>4 DEF DoConnect, RequestBit, KeepsBits
  <2>2. \/ UNCHANGED <<scanning, events>>
        \/ Post("SCAN_DONE")
    BY <1>4 DEF DoConnect
  <2>3. CASE UNCHANGED <<scanning, events>>
    BY <1>1, <2>1, <2>3
  <2>4. CASE Post("SCAN_DONE")
    BY <1>0, <1>2, <2>1, <2>4
  <2> QED
    BY <2>2, <2>3, <2>4
<1>5. CASE DoStartAP
  <2>1. UNCHANGED <<sta, scanning, bits>> /\ SetMode(TRUE)
    BY <1>5 DEF DoStartAP
  <2>2. CASE ap
    BY <1>0, <1>1, <2>1, <2>2 DEF SetMode, KeepsBits
  <2>3. CASE ~ap
    BY <1>0, <1>2, <2>1, <2>3 DEF SetMode, KeepsBits, Post
  <2> QED
    BY <2>2, <2>3
<1>6. CASE DoStopAP
  <2>1. UNCHANGED <<sta, scanning, bits>> /\ (SetMode(FALSE) \/ UNCHANGED <<ap, events>>)
    BY <1>6 DEF DoStopAP
  <2>2. CASE UNCHANGED <<ap, events>> \/ (~ap /\ SetMode(FALSE))
    BY <1>0, <1>1, <2>1, <2>2 DEF SetMode, KeepsBits
  <2>3. CASE ap /\ SetMode(FALSE)
    BY <1>0, <1>2, <2>1, <2>3 DEF SetMode, KeepsBits, Post
  <2> QED
    BY <2>1, <2>2, <2>3
<1>7. CASE DoDisconnect
  <2>1. /\ KeepsBits({"CONNECTED", "AP_STARTED", "SCAN"}) /\ ap' = ap /\ sta' = "down"
        /\ IF sta = "down" THEN UNCHANGED <<events, scanning>> ELSE Post("STA_DISCONNECTED")
    BY <1>7 DEF DoDisconnect, KeepsBits
  <2>2. CASE sta = "down"
    BY <1>1, <2>1, <2>2
  <2>3. CASE sta # "down"
    BY <1>0, <1>2, <2>1, <2>3
  <2> QED
    BY <2>2, <2>3
<1>8. CASE ConnectSucceeds
  BY <1>0, <1>2, <1>8 DEF ConnectSucceeds, KeepsBits
<1>9. CASE Disconnected
  BY <1>0, <1>2, <1>9 DEF Disconnected, KeepsBits
<1>10. CASE ScanEnds
  BY <1>0, <1>2, <1>10 DEF ScanEnds, KeepsBits
<1>11. CASE HandleEvent
  BY <1>11, BitsHandled
<1>12. CASE Reboot \/ DriverRefuses
  <2>1. /\ ToSet(events') = {} /\ bits' = {} /\ ap' = FALSE /\ sta' = "down"
    BY <1>12, ToSetEmpty DEF Reboot, DriverRefuses, Restart
  <2> QED
    BY <2>1, NothingToCover DEF DriverInv, LinkFollowed, ApFollowed, ScanFollowed, Posted
<1>13. CASE UNCHANGED vars \/ DoScanDone \/ DoLoadAndRestore \/ RestartHttpd \/ ManagerSends
            \/ EventSends \/ TimerTask \/ User \/ HttpSends
  BY <1>1, <1>13
     DEF vars, DoScanDone, DoLoadAndRestore, RestartHttpd, ManagerSends, EventSends,
         TimerTask, RetryExpires, ShutdownExpires, TimerSends, User, PostConnect,
         DeleteConnect, GetAccessPoints, HttpSends, KeepsBits
<1>14. CASE DoAttemptFailed \/ DoUserDisconnected \/ DoConnectionLost \/ DoGotIp
  BY <1>1, <1>14
     DEF DoAttemptFailed, DoUserDisconnected, DoConnectionLost, DoGotIp, KeepsBits
<1> QED
  BY <1>3, <1>4, <1>5, <1>6, <1>7, <1>8, <1>9, <1>10, <1>11, <1>12, <1>13, <1>14
     DEF Next, Manager, EventLoop, Driver

(* Types and bits agree in every state.                                    *)
LEMMA DriverAlways == Spec => [](TypeOK /\ DriverInv)
<1>1. TypeOK /\ DriverInv /\ [Next]_vars => (TypeOK /\ DriverInv)'
  BY TypeNext, DriverNext
<1> QED
  BY TypeInit, DriverInit, <1>1, PTL DEF Spec

(* Once every event is handled, CONNECTED and AP_STARTED are what the      *)
(* station and the access point really are.                                *)
THEOREM BitsCorrect == Spec => []BitsFollowDriver
<1>1. DriverInv => BitsFollowDriver
  <2> SUFFICES ASSUME DriverInv, events = <<>>
               PROVE  /\ "CONNECTED" \in bits <=> sta = "up"
                      /\ "AP_STARTED" \in bits <=> ap
    BY DEF BitsFollowDriver
  <2> QED
    BY ToSetEmpty DEF DriverInv, LinkFollowed, ApFollowed, Posted
<1> QED
  BY DriverAlways, <1>1, PTL

(* When nothing is under way a set SCAN bit has its scan: orders to scan   *)
(* are never refused for ever.                                             *)
THEOREM ScanCorrect == Spec => []ScanBitClears
<1>1. DriverInv => ScanBitClears
  BY ToSetEmpty DEF DriverInv, ScanFollowed, Posted, ScanBitClears, Quiet
<1> QED
  BY DriverAlways, <1>1, PTL

(***************************************************************************)
(* The work under way: where it starts and what the tasks pass on          *)
(***************************************************************************)

USE DEF OneWork, OwnOrders, AddressFirst, IdleIsOffered, ShutdownJustified,
        UserKeepsAp, MarksUndecided, StartOver, ConfigFollowed, DnsFollowed,
        Idle, Offered, StartQueued, LossPosted, LossPending, AddressPending,
        Retrying, Ordered, Restoring, UserConnects, UserOrders, Undecided, Posted, Queued,
        Work, Done, ThenSend

(* How wifi_manager_start leaves everything.                               *)
Started ==
    /\ queue = <<"LOAD_AND_RESTORE_STA">> /\ events = <<>>
    /\ sta = "down" /\ mpc = "receive" /\ msend = none /\ ~retryTimer /\ tsend = none
    /\ esend = none /\ hsend = none /\ bits = {} /\ ~shutdownTimer
    /\ nvs \in GoodCreds \cup {NoCred}

(* After a start there is one piece of work, the load of the               *)
(* configuration.                                                          *)
LEMMA WorkStarted == Started => WorkInv
<1> SUFFICES ASSUME Started PROVE WorkInv
  OBVIOUS
<1> USE DEF Started
<1>1. /\ ToSet(events) = {} /\ ToSet(queue) = {"LOAD_AND_RESTORE_STA"}
      /\ AtMostOne(Work, queue) /\ AtMostOne({"STA_DISCONNECTED"}, events)
  <2>1. DOMAIN queue = {1} /\ DOMAIN events = {}
    OBVIOUS
  <2> QED
    BY <2>1, ToSetEmpty DEF ToSet, AtMostOne
<1>2. AddressFirst
  BY <1>1, NothingToCover
<1> QED
  BY <1>1, <1>2 DEF WorkInv

(* A node that has credentials that worked, or none, starts well.          *)
LEMMA WorkInit == Init => WorkInv
<1>1. Init => Started
  BY DEF Init, Started
<1> QED
  BY <1>1, WorkStarted

(* A restart at any time leaves the node in such a start.                  *)
LEMMA WorkRestarts == WorkInv /\ Restart => WorkInv'
<1>1. WorkInv /\ Restart => Started'
  BY DEF WorkInv, Restart, Started
<1>2. Started' => WorkInv'
  BY WorkStarted, PTL
<1> QED
  BY <1>1, <1>2

(* The news of an address is behind no other news of the link: it is that  *)
(* of the connection, or the loss of the connection follows it.            *)
LEMMA AddressOpen ==
    ASSUME DriverInv, WorkInv
    PROVE  AddressPending => sta = "up" \/ LossPending
BY NothingToCover DEF DriverInv, LinkFollowed, WorkInv

(* A step that changes none of this keeps the work as it is.               *)
LEMMA WorkKept ==
    ASSUME WorkInv,
           UNCHANGED <<queue, mpc, msend, config, nvs, dns, retryTimer, shutdownTimer,
                       tsend, esend, hsend, events, sta, link, ap>>,
           KeepsBits({"REQUEST_CONNECT", "REQUEST_RESTORE", "REQUEST_DISCONNECT"})
    PROVE  WorkInv'
BY DEF WorkInv, KeepsBits

(* The event handler passes the work on to the manager's queue.            *)
LEMMA EventSendsKeeps ==
    ASSUME TypeOK, DriverInv, WorkInv, EventSends
    PROVE  WorkInv'
<1>1. esend \in {"SCAN_DONE", "STA_DISCONNECTED", "STA_GOT_IP"}
  BY DEF TypeOK, EventSends
<1>2. /\ ToSet(queue') = {esend} \cup ToSet(queue)
      /\ AtMostOne(Work, queue) /\ (esend \in Work => ToSet(queue) \cap Work = {}) =>
           AtMostOne(Work, queue')
      /\ \A x : \A y \in Messages \ {x} : esend = y => Covered(x, y, queue')
      /\ \A x, y : Covered(x, y, queue) /\ esend # x => Covered(x, y, queue')
  BY <1>1, Sending, EventsAreMessages DEF EventSends
<1>3. /\ esend' = none
      /\ UNCHANGED <<mpc, msend, retries, bits, config, nvs, status, dns, retryTimer,
                     shutdownTimer, tsend, hsend, events, sta, link, ap>>
  BY DEF EventSends, managerVars, timerVars, driverVars
<1>4. {"STA_DISCONNECTED", "STA_GOT_IP"} \subseteq Messages
  BY EventsAreMessages
<1>5. OneWork' /\ OwnOrders'
  BY <1>1, <1>2, <1>3 DEF WorkInv
<1>6. AddressFirst' /\ DnsFollowed'
  BY <1>1, <1>2, <1>3, <1>4 DEF WorkInv
<1>7. IdleIsOffered' /\ ShutdownJustified' /\ UserKeepsAp'
  BY <1>1, <1>2, <1>3 DEF WorkInv
<1>8. MarksUndecided' /\ StartOver' /\ ConfigFollowed'
  BY <1>1, <1>2, <1>3 DEF WorkInv
<1> QED
  BY <1>5, <1>6, <1>7, <1>8 DEF WorkInv

(* wifi_manager_event_handler                                              *)
LEMMA HandleEventKeeps ==
    ASSUME TypeOK, DriverInv, WorkInv, HandleEvent
    PROVE  WorkInv'
<1> DEFINE e == Head(events)
<1>1. /\ events \in Seq(Events) /\ events # <<>> /\ events' = Tail(events)
      /\ esend = none
      /\ UNCHANGED <<queue, mpc, msend, config, nvs, dns, retryTimer, shutdownTimer,
                     tsend, hsend, sta, link, ap>>
  BY DEF TypeOK, HandleEvent, managerVars, timerVars, driverVars
<1>2. /\ e \in Events /\ ToSet(events) = {e} \cup ToSet(events')
      /\ \A W : AtMostOne(W, events) =>
           AtMostOne(W, events') /\ (e \in W => ToSet(events') \cap W = {})
      /\ \A x, y : Covered(x, y, events) =>
           Covered(x, y, events') /\ (e = x /\ x # y => y \in ToSet(events'))
  BY <1>1, Handling
<1>3. /\ esend' = CASE e = "GOT_IP" -> "STA_GOT_IP"
                    [] e \in {"AP_START", "AP_STOP"} -> none
                    [] OTHER -> e
      /\ KeepsBits({"REQUEST_CONNECT", "REQUEST_RESTORE", "REQUEST_DISCONNECT"})
  BY <1>2 DEF HandleEvent, KeepsBits, Events
<1> HIDE DEF e
<1>4. /\ e = "GOT_IP" => esend' = "STA_GOT_IP"
      /\ e = "STA_DISCONNECTED" => esend' = "STA_DISCONNECTED"
      /\ e \notin {"GOT_IP", "STA_DISCONNECTED"} => esend' \in {none, "SCAN_DONE"}
  BY <1>2, <1>3 DEF Events
<1>5. OneWork' /\ OwnOrders'
  BY <1>1, <1>2, <1>4 DEF WorkInv
<1>6. AddressFirst'
  BY <1>1, <1>2, <1>4 DEF WorkInv, DriverInv, LinkFollowed
<1>7. IdleIsOffered' /\ ShutdownJustified' /\ UserKeepsAp'
  BY <1>1, <1>2, <1>3, <1>4 DEF WorkInv, KeepsBits
<1>8. MarksUndecided' /\ StartOver' /\ ConfigFollowed'
  BY <1>1, <1>2, <1>3, <1>4 DEF WorkInv, KeepsBits
<1>9. DnsFollowed'
  BY <1>1, <1>2, <1>4 DEF WorkInv
<1> QED
  BY <1>5, <1>6, <1>7, <1>8, <1>9 DEF WorkInv

(* The timer task and its callbacks.                                       *)
LEMMA TimerTaskKeeps ==
    ASSUME TypeOK, WorkInv, TimerTask
    PROVE  WorkInv'
<1>0. /\ tsend \in {none, "CONNECT_STA_AUTO_RECONNECT", "STOP_AP"}
      /\ {"CONNECT_STA_AUTO_RECONNECT", "STOP_AP"} \subseteq Messages
  BY EventsAreMessages DEF TypeOK
<1>1. CASE RetryExpires
  BY <1>1 DEF RetryExpires, managerVars, driverVars, WorkInv
<1>2. CASE ShutdownExpires
  BY <1>2 DEF ShutdownExpires, managerVars, driverVars, WorkInv
<1>3. CASE TimerSends
  <2>1. /\ tsend \in {"CONNECT_STA_AUTO_RECONNECT", "STOP_AP"} /\ tsend' = none
        /\ UNCHANGED <<mpc, msend, bits, config, nvs, dns, retryTimer, shutdownTimer, esend,
                       hsend, events, sta, link, ap>>
    BY <1>0, <1>3 DEF TimerSends, managerVars, timerVars, driverVars
  <2>2. /\ ToSet(queue') = {tsend} \cup ToSet(queue)
        /\ AtMostOne(Work, queue) /\ (tsend \in Work => ToSet(queue) \cap Work = {}) =>
             AtMostOne(Work, queue')
        /\ \A x, y : Covered(x, y, queue) /\ tsend # x => Covered(x, y, queue')
    BY <1>0, <1>3, <2>1, Sending DEF TimerSends
  <2>3. OneWork' /\ OwnOrders' /\ AddressFirst'
    BY <2>1, <2>2 DEF WorkInv
  <2>4. IdleIsOffered' /\ ShutdownJustified' /\ UserKeepsAp' /\ MarksUndecided'
    BY <2>1, <2>2 DEF WorkInv
  <2>5. StartOver' /\ ConfigFollowed' /\ DnsFollowed'
    BY <2>1, <2>2 DEF WorkInv
  <2> QED
    BY <2>3, <2>4, <2>5 DEF WorkInv
<1> QED
  BY <1>1, <1>2, <1>3 DEF TimerTask

(* The handlers of httpd; users are polite.                                *)
LEMMA QuietIsEmpty ==
    ASSUME TypeOK, Quiet
    PROVE  /\ ToSet(queue) = {} /\ ToSet(events) = {} /\ msend = none /\ tsend = none
           /\ esend = none /\ hsend = none /\ mpc = "receive"
BY ToSetEmpty DEF TypeOK, Quiet

(* A polite user adds work only when there is none.                        *)
LEMMA UserKeeps ==
    ASSUME TypeOK, WorkInv, User, impolite' = 0
    PROVE  WorkInv'
<1>0. impolite \in Nat
  BY DEF TypeOK
<1>1. ASSUME NEW c \in Creds, PostConnect(c)
      PROVE  WorkInv'
  <2>1. Quiet /\ sta = "down" /\ ~retryTimer
    BY <1>0, <1>1 DEF PostConnect, Asks
  <2>2. /\ hsend' = "CONNECT_STA_USER" /\ config' = c
        /\ UNCHANGED <<queue, mpc, msend, bits, nvs, dns, retryTimer, shutdownTimer, tsend,
                       esend, events, sta, link, ap>>
    BY <1>1 DEF PostConnect, managerVars, timerVars, driverVars
  <2>3. /\ ToSet(queue) = {} /\ ToSet(events) = {} /\ msend = none /\ tsend = none
        /\ esend = none /\ hsend = none /\ mpc = "receive"
    BY <2>1, QuietIsEmpty
  <2>4. OneWork' /\ OwnOrders' /\ AddressFirst' /\ IdleIsOffered' /\ ShutdownJustified'
    BY <2>1, <2>2, <2>3 DEF WorkInv
  <2>5. UserKeepsAp' /\ MarksUndecided' /\ StartOver' /\ ConfigFollowed' /\ DnsFollowed'
    BY <2>1, <2>2, <2>3 DEF WorkInv
  <2> QED
    BY <2>4, <2>5 DEF WorkInv
<1>2. CASE DeleteConnect
  <2>1. Quiet /\ sta = "up"
    BY <1>0, <1>2 DEF DeleteConnect, Asks
  <2>2. /\ hsend' = "DISCONNECT_STA"
        /\ UNCHANGED <<queue, mpc, msend, bits, config, nvs, dns, retryTimer, shutdownTimer,
                       tsend, esend, events, sta, link, ap>>
    BY <1>2 DEF DeleteConnect, managerVars, timerVars, driverVars
  <2>3. /\ ToSet(queue) = {} /\ ToSet(events) = {} /\ msend = none /\ tsend = none
        /\ esend = none /\ hsend = none /\ mpc = "receive"
    BY <2>1, QuietIsEmpty
  <2> QED
    BY <2>1, <2>2, <2>3 DEF WorkInv
<1>3. CASE GetAccessPoints
  <2>1. /\ hsend = none /\ hsend' = "START_WIFI_SCAN"
        /\ UNCHANGED <<queue, mpc, msend, bits, config, nvs, dns, retryTimer, shutdownTimer,
                       tsend, esend, events, sta, link, ap>>
    BY <1>3 DEF GetAccessPoints, Reachable, managerVars, timerVars, driverVars
  <2> QED
    BY <2>1 DEF WorkInv
<1> QED
  BY <1>1, <1>2, <1>3 DEF User

(* The web server passes the user's order on to the manager's queue.       *)
LEMMA HttpSendsKeeps ==
    ASSUME TypeOK, WorkInv, HttpSends
    PROVE  WorkInv'
<1>1. /\ hsend \in {"CONNECT_STA_USER", "DISCONNECT_STA", "START_WIFI_SCAN"}
      /\ hsend' = none
      /\ UNCHANGED <<mpc, msend, bits, config, nvs, dns, retryTimer, shutdownTimer, tsend,
                     esend, events, sta, link, ap>>
  BY DEF TypeOK, HttpSends, managerVars, timerVars, driverVars
<1>2. /\ ToSet(queue') = {hsend} \cup ToSet(queue)
      /\ AtMostOne(Work, queue) /\ (hsend \in Work => ToSet(queue) \cap Work = {}) =>
           AtMostOne(Work, queue')
      /\ \A x, y : Covered(x, y, queue) /\ hsend # x => Covered(x, y, queue')
  BY <1>1, Sending, EventsAreMessages DEF HttpSends
<1>3. OneWork' /\ OwnOrders' /\ AddressFirst'
  BY <1>1, <1>2 DEF WorkInv
<1>4. IdleIsOffered' /\ ShutdownJustified' /\ UserKeepsAp' /\ MarksUndecided'
  BY <1>1, <1>2 DEF WorkInv
<1>5. StartOver' /\ ConfigFollowed' /\ DnsFollowed'
  BY <1>1, <1>2 DEF WorkInv
<1> QED
  BY <1>3, <1>4, <1>5 DEF WorkInv

(* The driver.                                                             *)
LEMMA DriverKeeps ==
    ASSUME TypeOK, DriverInv, WorkInv, Driver
    PROVE  WorkInv'
<1>0. /\ events \in Seq(Events) /\ {"GOT_IP", "STA_DISCONNECTED", "SCAN_DONE"} \subseteq Events
  BY DEF TypeOK, Events
<1>1. CASE ConnectSucceeds
  <2>1. /\ sta = "connecting" /\ link \in GoodCreds /\ sta' = "up" /\ Post("GOT_IP")
        /\ UNCHANGED <<queue, mpc, msend, bits, config, nvs, dns, retryTimer, shutdownTimer,
                       tsend, esend, hsend, link, ap>>
    BY <1>1 DEF ConnectSucceeds, managerVars, timerVars, sendVars
  <2>2. /\ ToSet(events') = {"GOT_IP"} \cup ToSet(events)
        /\ AtMostOne({"STA_DISCONNECTED"}, events) => AtMostOne({"STA_DISCONNECTED"}, events')
    BY <1>0, <2>1, Posting
  <2>3. OneWork' /\ OwnOrders' /\ AddressFirst' /\ IdleIsOffered' /\ ShutdownJustified'
    BY <2>1, <2>2 DEF WorkInv
  <2>4. UserKeepsAp' /\ MarksUndecided' /\ StartOver' /\ ConfigFollowed' /\ DnsFollowed'
    BY <2>1, <2>2 DEF WorkInv
  <2> QED
    BY <2>3, <2>4 DEF WorkInv
<1>2. CASE Disconnected
  <2>1. /\ sta # "down" /\ sta' = "down" /\ Post("STA_DISCONNECTED")
        /\ UNCHANGED <<queue, mpc, msend, bits, config, nvs, dns, retryTimer, shutdownTimer,
                       tsend, esend, hsend, link, ap>>
    BY <1>2 DEF Disconnected, managerVars, timerVars, sendVars
  <2>2. /\ ToSet(events') = {"STA_DISCONNECTED"} \cup ToSet(events)
        /\ AtMostOne({"STA_DISCONNECTED"}, events) /\ ~Posted("STA_DISCONNECTED") =>
             AtMostOne({"STA_DISCONNECTED"}, events')
    BY <1>0, <2>1, Posting
  <2>3. OneWork' /\ OwnOrders' /\ AddressFirst' /\ IdleIsOffered' /\ ShutdownJustified'
    BY <2>1, <2>2 DEF WorkInv
  <2>4. UserKeepsAp' /\ MarksUndecided' /\ StartOver' /\ DnsFollowed'
    BY <2>1, <2>2 DEF WorkInv
  <2>5. ConfigFollowed'
    BY <2>1, <2>2 DEF WorkInv
  <2> QED
    BY <2>3, <2>4, <2>5 DEF WorkInv
<1>3. CASE ScanEnds
  <2>1. /\ Post("SCAN_DONE")
        /\ UNCHANGED <<queue, mpc, msend, bits, config, nvs, dns, retryTimer, shutdownTimer,
                       tsend, esend, hsend, sta, link, ap>>
    BY <1>3 DEF ScanEnds, managerVars, timerVars, sendVars
  <2>2. /\ ToSet(events') = {"SCAN_DONE"} \cup ToSet(events)
        /\ AtMostOne({"STA_DISCONNECTED"}, events) => AtMostOne({"STA_DISCONNECTED"}, events')
    BY <1>0, <2>1, Posting
  <2> QED
    BY <2>1, <2>2 DEF WorkInv
<1> QED
  BY <1>1, <1>2, <1>3 DEF Driver

(* The cases of the manager's switch.  A message that is taken was the     *)
(* work under way, if it is work at all.                                   *)
LEMMA Taken ==
    ASSUME TypeOK, DriverInv, WorkInv, NEW m, Receive(m)
    PROVE  /\ mpc = "receive" /\ msend = none /\ m \in Messages
           /\ ToSet(queue) = {m} \cup ToSet(queue')
           /\ AtMostOne(Work, queue')
           /\ m \in Work => /\ ToSet(queue') \cap Work = {} /\ sta = "down"
                            /\ ~LossPosted /\ ~Retrying /\ hsend # "CONNECT_STA_USER"
                            /\ ~Posted("GOT_IP") /\ esend # "STA_GOT_IP"
                            /\ "STA_GOT_IP" \notin ToSet(queue')
           /\ \A x, y : Covered(x, y, queue) =>
                Covered(x, y, queue') /\ (m = x /\ x # y => y \in ToSet(queue'))
<1>1. /\ mpc = "receive" /\ msend = none /\ m \in Messages
      /\ ToSet(queue) = {m} \cup ToSet(queue')
      /\ AtMostOne(Work, queue) =>
           AtMostOne(Work, queue') /\ (m \in Work => ToSet(queue') \cap Work = {})
      /\ \A x, y : Covered(x, y, queue) =>
           Covered(x, y, queue') /\ (m = x /\ x # y => y \in ToSet(queue'))
  BY Taking
<1>2. ASSUME m \in Work
      PROVE  /\ ToSet(queue') \cap Work = {} /\ sta = "down" /\ ~LossPosted /\ ~Retrying
             /\ hsend # "CONNECT_STA_USER"
  BY <1>1, <1>2 DEF WorkInv
<1>3. ASSUME m \in Work
      PROVE  /\ ~Posted("GOT_IP") /\ esend # "STA_GOT_IP"
             /\ "STA_GOT_IP" \notin ToSet(queue')
  <2>1. Covered("GOT_IP", "STA_DISCONNECTED", events) /\ ~Posted("STA_DISCONNECTED")
    BY <1>2, <1>3 DEF DriverInv, LinkFollowed
  <2>2. Covered("STA_GOT_IP", "STA_DISCONNECTED", queue')
    BY <1>1, <1>2, <1>3 DEF WorkInv
  <2>3. "STA_DISCONNECTED" \notin ToSet(queue')
    BY <1>2, <1>3
  <2> QED
    BY <1>2, <1>3, <2>1, <2>2, <2>3, NothingToCover DEF WorkInv
<1> QED
  BY <1>1, <1>2, <1>3 DEF WorkInv

(* WM_EVENT_SCAN_DONE and WM_ORDER_START_WIFI_SCAN change nothing else.    *)
LEMMA ScanKeeps ==
    ASSUME TypeOK, DriverInv, WorkInv, DoScanDone \/ DoStartScan
    PROVE  WorkInv'
<1>1. PICK m \in {"SCAN_DONE", "START_WIFI_SCAN"} : Receive(m)
  BY DEF DoScanDone, DoStartScan
<1>2. /\ ToSet(queue) = {m} \cup ToSet(queue') /\ AtMostOne(Work, queue')
      /\ mpc = "receive" /\ msend = none
      /\ \A x, y : Covered(x, y, queue) => Covered(x, y, queue')
  BY <1>1, Taken
<1>3. /\ mpc' = "receive" /\ msend' = none
      /\ KeepsBits({"REQUEST_CONNECT", "REQUEST_RESTORE", "REQUEST_DISCONNECT"})
      /\ UNCHANGED <<config, nvs, dns, retryTimer, shutdownTimer, tsend, esend, hsend, events,
                     sta, link, ap>>
  BY DEF DoScanDone, DoStartScan, timerVars, sendVars, driverVars, KeepsBits
<1>4. OneWork' /\ OwnOrders' /\ AddressFirst' /\ IdleIsOffered' /\ ShutdownJustified'
  BY <1>2, <1>3 DEF WorkInv
<1>5. UserKeepsAp' /\ MarksUndecided' /\ StartOver'
  BY <1>2, <1>3 DEF WorkInv, KeepsBits
<1>6. ConfigFollowed' /\ DnsFollowed'
  BY <1>2, <1>3 DEF WorkInv, KeepsBits
<1> QED
  BY <1>4, <1>5, <1>6 DEF WorkInv

(* WM_ORDER_LOAD_AND_RESTORE_STA                                           *)
LEMMA LoadKeeps ==
    ASSUME TypeOK, DriverInv, WorkInv, DoLoadAndRestore
    PROVE  WorkInv'
<1> DEFINE m == "LOAD_AND_RESTORE_STA"
<1>1. /\ ToSet(queue) = {m} \cup ToSet(queue') /\ AtMostOne(Work, queue')
      /\ ToSet(queue') \cap Work = {} /\ sta = "down" /\ ~LossPosted /\ ~Retrying
      /\ hsend # "CONNECT_STA_USER" /\ ~Posted("GOT_IP") /\ esend # "STA_GOT_IP"
      /\ "STA_GOT_IP" \notin ToSet(queue') /\ mpc = "receive" /\ msend = none
  BY Taken DEF DoLoadAndRestore
<1>2. /\ config' = nvs /\ mpc' = "send" /\ msend' \in {"START_AP", "CONNECT_STA_RESTORE"}
      /\ UNCHANGED <<bits, nvs, dns, retryTimer, shutdownTimer, tsend, esend, hsend, events,
                     sta, link, ap>>
  BY DEF DoLoadAndRestore, timerVars, sendVars, driverVars
<1>3. OneWork' /\ OwnOrders' /\ AddressFirst'
  BY <1>1, <1>2, NothingToCover DEF WorkInv
<1>4. IdleIsOffered' /\ ShutdownJustified' /\ UserKeepsAp' /\ MarksUndecided' /\ StartOver'
  BY <1>1, <1>2 DEF WorkInv
<1>5. ConfigFollowed' /\ DnsFollowed'
  BY <1>1, <1>2 DEF WorkInv
<1> QED
  BY <1>3, <1>4, <1>5 DEF WorkInv

(* WM_ORDER_CONNECT_STA: the station is down, so the attempt is made.      *)
LEMMA ConnectKeeps ==
    ASSUME TypeOK, DriverInv, WorkInv, DoConnect
    PROVE  WorkInv'
<1>1. PICK m \in DOMAIN RequestBit :
        /\ Receive(m) /\ mpc' = "receive" /\ msend' = none
        /\ bits' = bits \cup RequestBit[m]
        /\ IF "CONNECTED" \in bits \/ sta = "up"
           THEN UNCHANGED <<sta, link>>
           ELSE sta' = "connecting" /\ link' = config
        /\ UNCHANGED events \/ Post("SCAN_DONE")
        /\ UNCHANGED <<config, nvs, dns, retryTimer, shutdownTimer, tsend, esend, hsend, ap>>
  BY DEF DoConnect, timerVars, sendVars
<1>2. /\ m \in {"CONNECT_STA_USER", "CONNECT_STA_RESTORE", "CONNECT_STA_AUTO_RECONNECT"}
      /\ m = "CONNECT_STA_USER" => RequestBit[m] = {"REQUEST_CONNECT"}
      /\ m = "CONNECT_STA_RESTORE" => RequestBit[m] = {"REQUEST_RESTORE"}
      /\ m = "CONNECT_STA_AUTO_RECONNECT" => RequestBit[m] = {}
  BY DEF RequestBit
<1>3. /\ ToSet(queue) = {m} \cup ToSet(queue') /\ AtMostOne(Work, queue')
      /\ ToSet(queue') \cap Work = {} /\ sta = "down" /\ ~LossPosted /\ ~Retrying
      /\ hsend # "CONNECT_STA_USER" /\ ~Posted("GOT_IP") /\ esend # "STA_GOT_IP"
      /\ "STA_GOT_IP" \notin ToSet(queue') /\ mpc = "receive" /\ msend = none
  BY <1>1, <1>2, Taken
<1>4. sta' = "connecting" /\ link' = config
  BY <1>1, <1>3 DEF DriverInv, LinkFollowed
<1>5. /\ ToSet(events') \subseteq ToSet(events) \cup {"SCAN_DONE"}
      /\ ToSet(events) \subseteq ToSet(events')
      /\ AtMostOne({"STA_DISCONNECTED"}, events')
  <2>1. events \in Seq(Events) /\ "SCAN_DONE" \in Events
        /\ AtMostOne({"STA_DISCONNECTED"}, events)
    BY DEF TypeOK, Events, WorkInv
  <2> QED
    BY <1>1, <2>1, Posting
<1>6. /\ "REQUEST_CONNECT" \in bits' => "REQUEST_CONNECT" \in bits \/ m = "CONNECT_STA_USER"
      /\ "REQUEST_RESTORE" \in bits' => "REQUEST_RESTORE" \in bits \/ m = "CONNECT_STA_RESTORE"
      /\ "REQUEST_DISCONNECT" \in bits' => "REQUEST_DISCONNECT" \in bits
  BY <1>1, <1>2
<1>7. UNCHANGED <<config, nvs, dns, retryTimer, shutdownTimer, tsend, esend, hsend, ap>>
      /\ mpc' = "receive" /\ msend' = none
  BY <1>1
<1>8. OneWork' /\ OwnOrders' /\ AddressFirst'
  BY <1>2, <1>3, <1>4, <1>5, <1>7, NothingToCover DEF WorkInv
<1>9. IdleIsOffered' /\ ShutdownJustified' /\ UserKeepsAp' /\ MarksUndecided'
  BY <1>2, <1>3, <1>4, <1>5, <1>6, <1>7 DEF WorkInv
<1>10. StartOver'
  BY <1>2, <1>3, <1>6, <1>7 DEF WorkInv
<1>11. ConfigFollowed' /\ DnsFollowed'
  BY <1>2, <1>3, <1>4, <1>5, <1>6, <1>7 DEF WorkInv
<1> QED
  BY <1>8, <1>9, <1>10, <1>11 DEF WorkInv

(* WM_EVENT_STA_DISCONNECTED, for its three reasons.                       *)
LEMMA LossKeeps ==
    ASSUME TypeOK, DriverInv, WorkInv,
           DoAttemptFailed \/ DoUserDisconnected \/ DoConnectionLost
    PROVE  WorkInv'
<1> DEFINE m == "STA_DISCONNECTED"
<1>1. /\ ToSet(queue) = {m} \cup ToSet(queue') /\ AtMostOne(Work, queue')
      /\ ToSet(queue') \cap Work = {} /\ sta = "down" /\ ~LossPosted /\ ~Retrying
      /\ hsend # "CONNECT_STA_USER" /\ ~Posted("GOT_IP") /\ esend # "STA_GOT_IP"
      /\ "STA_GOT_IP" \notin ToSet(queue') /\ mpc = "receive" /\ msend = none
  BY Taken DEF DoAttemptFailed, DoUserDisconnected, DoConnectionLost
<1>2. /\ UNCHANGED <<dns, tsend, esend, hsend, events, sta, link, ap>>
      /\ (mpc' = "receive" /\ msend' = none) \/ (mpc' = "send" /\ msend' = "START_AP")
  <2>1. UNCHANGED <<dns, tsend, esend, hsend, events, sta, link, ap>>
    BY DEF DoAttemptFailed, DoUserDisconnected, DoConnectionLost, sendVars, driverVars
  <2>2. (mpc' = "receive" /\ msend' = none) \/ (mpc' = "send" /\ msend' = "START_AP")
    BY DEF DoAttemptFailed, DoUserDisconnected, DoConnectionLost
  <2> QED
    BY <2>1, <2>2
<1>3. shutdownTimer' = FALSE
  BY DEF DoAttemptFailed, DoUserDisconnected, DoConnectionLost
<1>4. OneWork' /\ OwnOrders' /\ AddressFirst' /\ ShutdownJustified' /\ DnsFollowed'
  BY <1>1, <1>2, <1>3, NothingToCover DEF WorkInv
<1>5. CASE DoAttemptFailed
  <2>1. /\ "REQUEST_CONNECT" \in bits /\ bits' = bits \ {"REQUEST_CONNECT"}
        /\ mpc' = "receive" /\ msend' = none /\ UNCHANGED <<config, nvs, retryTimer>>
    BY <1>5 DEF DoAttemptFailed
  <2>2. IdleIsOffered' /\ UserKeepsAp' /\ MarksUndecided'
    BY <1>1, <1>2, <1>3, <2>1 DEF WorkInv
  <2>3. StartOver' /\ ConfigFollowed'
    BY <1>1, <1>2, <1>3, <2>1 DEF WorkInv
  <2> QED
    BY <1>4, <2>2, <2>3 DEF WorkInv
<1>6. CASE DoUserDisconnected
  <2>1. /\ "REQUEST_CONNECT" \notin bits /\ "REQUEST_DISCONNECT" \in bits
        /\ bits' = bits \ {"REQUEST_DISCONNECT"} /\ config' = NoCred /\ nvs' = NoCred
        /\ mpc' = "send" /\ msend' = "START_AP" /\ UNCHANGED retryTimer
    BY <1>6 DEF DoUserDisconnected
  <2>2. IdleIsOffered' /\ UserKeepsAp' /\ MarksUndecided'
    BY <1>1, <1>2, <1>3, <2>1 DEF WorkInv
  <2>3. StartOver' /\ ConfigFollowed'
    BY <1>1, <1>2, <1>3, <2>1 DEF WorkInv
  <2> QED
    BY <1>4, <2>2, <2>3 DEF WorkInv
<1>7. CASE DoConnectionLost
  <2>1. /\ "REQUEST_CONNECT" \notin bits /\ bits' = bits \ {"REQUEST_RESTORE"}
        /\ retryTimer' /\ UNCHANGED <<config, nvs>>
    BY <1>7 DEF DoConnectionLost
  <2>2. IdleIsOffered' /\ UserKeepsAp' /\ MarksUndecided'
    BY <1>1, <1>2, <1>3, <2>1 DEF WorkInv
  <2>3. StartOver' /\ ConfigFollowed'
    BY <1>1, <1>2, <1>3, <2>1 DEF WorkInv
  <2> QED
    BY <1>4, <2>2, <2>3 DEF WorkInv
<1> QED
  BY <1>5, <1>6, <1>7

(* WM_ORDER_START_AP and WM_ORDER_STOP_AP, with the restart of httpd.      *)
LEMMA ApKeeps ==
    ASSUME TypeOK, DriverInv, WorkInv, DoStartAP \/ DoStopAP
    PROVE  WorkInv'
<1>1. PICK m \in {"START_AP", "STOP_AP"} :
        /\ Receive(m)
        /\ \/ mpc' = "receive" /\ msend' = none
           \/ mpc' = "stop_httpd" /\ msend' = m
        /\ m = "START_AP" => msend' = m /\ ap'
        /\ m = "STOP_AP" => UNCHANGED ap \/ "CONNECTED" \in bits
        /\ UNCHANGED events \/ Post("AP_START") \/ Post("AP_STOP")
        /\ dns' => dns
        /\ UNCHANGED <<bits, config, nvs, retryTimer, shutdownTimer, tsend, esend, hsend, sta,
                       link>>
  <2>1. CASE DoStartAP
    BY <2>1 DEF DoStartAP, SetMode, Post, timerVars, sendVars
  <2>2. CASE DoStopAP
    <3>1. dns' => dns
      BY <2>2 DEF DoStopAP
    <3>2. UNCHANGED <<bits, config, nvs, retryTimer, shutdownTimer, tsend, esend, hsend, sta,
                      link>>
      BY <2>2 DEF DoStopAP, timerVars, sendVars
    <3>3. /\ Receive("STOP_AP")
          /\ \/ mpc' = "receive" /\ msend' = none
             \/ mpc' = "stop_httpd" /\ msend' = "STOP_AP"
          /\ UNCHANGED ap \/ "CONNECTED" \in bits
      BY <2>2 DEF DoStopAP
    <3>4. UNCHANGED events \/ Post("AP_START") \/ Post("AP_STOP")
      BY <2>2 DEF DoStopAP, SetMode, Post
    <3> QED
      BY <3>1, <3>2, <3>3, <3>4
  <2> QED
    BY <2>1, <2>2
<1>2. /\ ToSet(queue) = {m} \cup ToSet(queue') /\ AtMostOne(Work, queue')
      /\ mpc = "receive" /\ msend = none
      /\ \A x, y : Covered(x, y, queue) => Covered(x, y, queue')
  BY <1>1, Taken
<1>3. /\ ToSet(events') \subseteq ToSet(events) \cup {"AP_START", "AP_STOP"}
      /\ ToSet(events) \subseteq ToSet(events')
      /\ AtMostOne({"STA_DISCONNECTED"}, events')
      /\ m = "START_AP" => ap'
      /\ m = "STOP_AP" => ap' = ap \/ "CONNECTED" \in bits
  <2>1. /\ events \in Seq(Events) /\ {"AP_START", "AP_STOP"} \subseteq Events
        /\ AtMostOne({"STA_DISCONNECTED"}, events)
    BY DEF TypeOK, Events, WorkInv
  <2> QED
    BY <1>1, <2>1, Posting
<1>4. /\ \/ mpc' = "receive" /\ msend' = none
         \/ mpc' = "stop_httpd" /\ msend' = m
      /\ m = "START_AP" => msend' = m
      /\ dns' => dns
      /\ UNCHANGED <<bits, config, nvs, retryTimer, shutdownTimer, tsend, esend, hsend, sta,
                     link>>
  BY <1>1
<1>5. OneWork' /\ OwnOrders' /\ AddressFirst' /\ ShutdownJustified'
  BY <1>2, <1>3, <1>4 DEF WorkInv
<1>6. IdleIsOffered' /\ UserKeepsAp'
  <2>1. sta = "down" /\ ~LossPosted => "CONNECTED" \notin bits
    BY NothingToCover DEF DriverInv, LinkFollowed
  <2> QED
    BY <1>2, <1>3, <1>4, <2>1 DEF WorkInv
<1>7. MarksUndecided' /\ StartOver' /\ ConfigFollowed'
  BY <1>2, <1>3, <1>4 DEF WorkInv
<1>8. DnsFollowed'
  BY <1>2, <1>3, <1>4 DEF WorkInv
<1> QED
  BY <1>5, <1>6, <1>7, <1>8 DEF WorkInv

(* The manager keeps the work through http_app_stop and http_app_start.    *)
LEMMA RestartKeeps ==
    ASSUME TypeOK, WorkInv, RestartHttpd
    PROVE  WorkInv'
<1>1. /\ mpc = "stop_httpd" /\ mpc' = "receive" /\ msend' = none
      /\ dns' => msend = "START_AP" \/ dns
      /\ UNCHANGED <<queue, bits, config, nvs, retryTimer, shutdownTimer, tsend, esend, hsend,
                     events, sta, link, ap>>
  BY DEF RestartHttpd, timerVars, sendVars, driverVars
<1> QED
  BY <1>1 DEF WorkInv

(* WM_EVENT_STA_GOT_IP                                                     *)
LEMMA GotIpKeeps ==
    ASSUME TypeOK, DriverInv, WorkInv, DoGotIp
    PROVE  WorkInv'
<1> DEFINE m == "STA_GOT_IP"
<1>1. /\ ToSet(queue) = {m} \cup ToSet(queue') /\ AtMostOne(Work, queue')
      /\ mpc = "receive" /\ msend = none
      /\ \A x, y : Covered(x, y, queue) =>
           Covered(x, y, queue') /\ (m = x /\ x # y => y \in ToSet(queue'))
  BY Taken DEF DoGotIp
<1>2. /\ mpc' = "receive" /\ msend' = none
      /\ bits' = bits \ {"REQUEST_CONNECT", "REQUEST_RESTORE"}
      /\ nvs' = IF "REQUEST_RESTORE" \in bits THEN nvs ELSE config
      /\ ~dns'
      /\ UNCHANGED <<config, retryTimer, tsend, esend, hsend, events, sta, link, ap>>
  BY DEF DoGotIp, sendVars, driverVars
<1>3. /\ sta = "up" \/ LossPending
      /\ Queued("STA_DISCONNECTED") => ToSet(queue) \cap Work = {"STA_DISCONNECTED"}
  BY <1>1, AddressOpen, OnlyElement DEF WorkInv
<1>4. OneWork' /\ OwnOrders' /\ AddressFirst' /\ IdleIsOffered'
  BY <1>1, <1>2, <1>3 DEF WorkInv
<1>5. ShutdownJustified' /\ UserKeepsAp' /\ MarksUndecided' /\ StartOver'
  BY <1>1, <1>2, <1>3 DEF WorkInv
<1>6. ConfigFollowed'
  <2>1. config \in GoodCreds /\ (sta # "down" => link = config)
    BY <1>1 DEF WorkInv
  <2>2. ~Ordered' \/ ToSet(queue') \cap Work = {"STA_DISCONNECTED"}
    BY <1>1, <1>2, <1>3 DEF WorkInv
  <2>3. "REQUEST_RESTORE" \in bits => config = nvs
    BY DEF WorkInv
  <2>4. nvs' \in GoodCreds \cup {NoCred} /\ nvs' = config
    BY <1>2, <2>1, <2>3
  <2> QED
    BY <1>2, <2>1, <2>2, <2>4
<1>7. DnsFollowed'
  BY <1>1, <1>2, <1>3, NothingToCover DEF WorkInv
<1> QED
  BY <1>4, <1>5, <1>6, <1>7 DEF WorkInv

(* WM_ORDER_DISCONNECT_STA                                                 *)
LEMMA DisconnectKeeps ==
    ASSUME TypeOK, DriverInv, WorkInv, DoDisconnect
    PROVE  WorkInv'
<1> DEFINE m == "DISCONNECT_STA"
<1>1. /\ ToSet(queue) = {m} \cup ToSet(queue') /\ AtMostOne(Work, queue')
      /\ mpc = "receive" /\ msend = none
      /\ \A x, y : Covered(x, y, queue) => Covered(x, y, queue')
  BY Taken DEF DoDisconnect
<1>2. /\ mpc' = "receive" /\ msend' = none /\ sta' = "down"
      /\ bits' = bits \cup {"REQUEST_DISCONNECT"}
      /\ UNCHANGED <<config, nvs, dns, retryTimer, shutdownTimer, tsend, esend, hsend, link,
                     ap>>
  BY DEF DoDisconnect, timerVars, sendVars
<1>3. /\ sta = "down" => UNCHANGED events
      /\ sta # "down" => /\ ToSet(events') = {"STA_DISCONNECTED"} \cup ToSet(events)
                         /\ AtMostOne({"STA_DISCONNECTED"}, events')
  <2>1. /\ events \in Seq(Events) /\ "STA_DISCONNECTED" \in Events
        /\ AtMostOne({"STA_DISCONNECTED"}, events)
        /\ sta # "down" => ~Posted("STA_DISCONNECTED")
    BY DEF TypeOK, Events, WorkInv
  <2>2. sta = "down" => UNCHANGED events
    BY DEF DoDisconnect
  <2>3. sta # "down" => Post("STA_DISCONNECTED")
    BY DEF DoDisconnect
  <2> QED
    BY <2>1, <2>2, <2>3, Posting
<1>4. OneWork' /\ OwnOrders'
  BY <1>1, <1>2, <1>3 DEF WorkInv
<1>5. AddressFirst' /\ IdleIsOffered' /\ ShutdownJustified' /\ UserKeepsAp'
  BY <1>1, <1>2, <1>3 DEF WorkInv
<1>6. MarksUndecided' /\ StartOver'
  BY <1>1, <1>2, <1>3 DEF WorkInv
<1>7. ConfigFollowed' /\ DnsFollowed'
  BY <1>1, <1>2, <1>3 DEF WorkInv
<1> QED
  BY <1>4, <1>5, <1>6, <1>7 DEF WorkInv

(* The manager passes its own order on to its queue.                       *)
LEMMA ManagerSendsKeeps ==
    ASSUME TypeOK, DriverInv, WorkInv, ManagerSends
    PROVE  WorkInv'
<1>1. /\ mpc = "send" /\ msend \in {"START_AP", "CONNECT_STA_RESTORE"} /\ sta = "down"
      /\ mpc' = "receive" /\ msend' = none
      /\ UNCHANGED <<bits, config, nvs, dns, retryTimer, shutdownTimer, tsend, esend, hsend,
                     events, sta, link, ap>>
  BY DEF ManagerSends, WorkInv, timerVars, sendVars, driverVars
<1>2. /\ ToSet(queue') = {msend} \cup ToSet(queue)
      /\ AtMostOne(Work, queue) /\ (msend \in Work => ToSet(queue) \cap Work = {}) =>
           AtMostOne(Work, queue')
      /\ \A x, y : Covered(x, y, queue) /\ msend # x => Covered(x, y, queue')
  <2>1. msend \in Messages
    BY <1>1 DEF Messages
  <2> QED
    BY <2>1, Sending DEF ManagerSends
<1>3. OneWork' /\ OwnOrders' /\ AddressFirst'
  BY <1>1, <1>2 DEF WorkInv
<1>4. IdleIsOffered' /\ ShutdownJustified' /\ UserKeepsAp' /\ MarksUndecided'
  BY <1>1, <1>2 DEF WorkInv
<1>5. StartOver' /\ ConfigFollowed' /\ DnsFollowed'
  BY <1>1, <1>2 DEF WorkInv
<1> QED
  BY <1>3, <1>4, <1>5 DEF WorkInv

(***************************************************************************)
(* The theorems about polite users                                         *)
(***************************************************************************)

(* While users are polite every step keeps at most one piece of work, and  *)
(* its traces in bits, configuration and flash.                            *)
LEMMA WorkNext ==
    ASSUME TypeOK, DriverInv, WorkInv, [Next]_vars, impolite' = 0
    PROVE  WorkInv'
<1>1. CASE UNCHANGED vars
  <2>1. /\ UNCHANGED <<queue, mpc, msend, config, nvs, dns, retryTimer, shutdownTimer,
                       tsend, esend, hsend, events, sta, link, ap>>
        /\ KeepsBits({"REQUEST_CONNECT", "REQUEST_RESTORE", "REQUEST_DISCONNECT"})
    BY <1>1 DEF vars, managerVars, timerVars, sendVars, driverVars, KeepsBits
  <2> QED
    BY <2>1, WorkKept
<1>2. CASE Manager /\ ~DriverRefuses
  BY <1>2, ScanKeeps, LoadKeeps, ConnectKeeps, LossKeeps, ApKeeps, RestartKeeps,
     GotIpKeeps, DisconnectKeeps, ManagerSendsKeeps DEF Manager
<1>3. CASE EventLoop
  BY <1>3, HandleEventKeeps, EventSendsKeeps DEF EventLoop
<1>4. CASE TimerTask \/ User \/ HttpSends
  BY <1>4, TimerTaskKeeps, UserKeeps, HttpSendsKeeps
<1>5. CASE Driver
  BY <1>5, DriverKeeps
<1>6. CASE Reboot \/ DriverRefuses
  BY <1>6, WorkRestarts DEF Reboot, DriverRefuses
<1> QED
  BY <1>1, <1>2, <1>3, <1>4, <1>5, <1>6 DEF Next

(* Users who were impolite once stay counted.                              *)
LEMMA PoliteBefore ==
    ASSUME TypeOK, [Next]_vars, impolite' = 0
    PROVE  impolite = 0
<1>0. impolite \in Nat
  BY DEF TypeOK
<1>1. UNCHANGED impolite \/ (impolite' = impolite + 1)
  <2>1. ASSUME NEW r, NEW p, Asks(r, p)
        PROVE  UNCHANGED impolite \/ (impolite' = impolite + 1)
    BY <2>1 DEF Asks
  <2>2. CASE User
    BY <2>1, <2>2 DEF User, PostConnect, DeleteConnect, GetAccessPoints, askVars
  <2>3. CASE UNCHANGED vars \/ EventLoop \/ TimerTask \/ HttpSends \/ Driver \/ Reboot
    BY <2>3
       DEF vars, EventLoop, HandleEvent, EventSends, TimerTask, RetryExpires,
           ShutdownExpires, TimerSends, HttpSends, Driver, ConnectSucceeds, Disconnected,
           ScanEnds, Reboot, Restart, askVars
  <2>4. CASE Manager
    BY <2>4
       DEF Manager, DoScanDone, DoStartScan, DoLoadAndRestore, DoConnect, DoAttemptFailed,
           DoUserDisconnected, DoConnectionLost, DoStartAP, DoStopAP, RestartHttpd,
           DoGotIp, DoDisconnect, ManagerSends, DriverRefuses, Restart, askVars
  <2> QED
    BY <2>2, <2>3, <2>4 DEF Next
<1> QED
  BY <1>0, <1>1

(* All this holds in every state that polite users can lead to.            *)
LEMMA PoliteAlways == Spec => [](TypeOK /\ PoliteInv)
<1>1. Init => TypeOK /\ DriverInv /\ PoliteInv
  BY TypeInit, DriverInit, WorkInit DEF PoliteInv
<1>2. TypeOK /\ DriverInv /\ PoliteInv /\ [Next]_vars => (TypeOK /\ DriverInv /\ PoliteInv)'
  BY TypeNext, DriverNext, PoliteBefore, WorkNext DEF PoliteInv, Polite
<1> QED
  BY <1>1, <1>2, PTL DEF Spec

(* A station that is down with nothing under way either waits for its      *)
(* retry timer or offers its access point: no sequence of lost links,      *)
(* failed attempts, orders of polite users and restarts strands a node.    *)
THEOREM RecoverableCorrect == Spec => []PoliteRecoverable
<1>1. TypeOK /\ PoliteInv => PoliteRecoverable
  <2> SUFFICES ASSUME TypeOK, WorkInv, Quiet, sta = "down", ~retryTimer
               PROVE  ap
    BY DEF PoliteInv, PoliteRecoverable, Recoverable
  <2> QED
    BY QuietIsEmpty DEF WorkInv
<1> QED
  BY PoliteAlways, <1>1, PTL

(* The flash holds nothing but credentials with which a router has let the *)
(* station in.                                                             *)
THEOREM VerifiedCorrect == Spec => []SavedIsVerified
<1>1. TypeOK /\ PoliteInv => SavedIsVerified
  BY DEF PoliteInv, WorkInv, SavedIsVerified
<1> QED
  BY PoliteAlways, <1>1, PTL

(* When nothing is under way a connection that is up is the saved one.     *)
THEOREM SavedCorrect == Spec => []SavedIsCurrent
<1>1. TypeOK /\ PoliteInv => SavedIsCurrent
  <2> SUFFICES ASSUME TypeOK, WorkInv, Quiet, sta = "up"
               PROVE  nvs = link
    BY DEF PoliteInv, SavedIsCurrent
  <2> QED
    BY QuietIsEmpty DEF WorkInv
<1> QED
  BY PoliteAlways, <1>1, PTL

(* A connected station hijacks no DNS query once nothing is under way,     *)
(* although starting the access point and the connection race in the queue.*)
THEOREM DnsCorrect == Spec => []DnsOffWhenConnected
<1>1. TypeOK /\ PoliteInv => DnsOffWhenConnected
  <2> SUFFICES ASSUME TypeOK, WorkInv, Quiet, sta = "up"
               PROVE  ~dns
    BY DEF PoliteInv, DnsOffWhenConnected
  <2> QED
    BY QuietIsEmpty DEF WorkInv
<1> QED
  BY PoliteAlways, <1>1, PTL

(* A request of the user is not marked any longer than its attempt lasts.  *)
THEOREM RequestCorrect == Spec => []NoStaleRequest
<1>1. TypeOK /\ PoliteInv => NoStaleRequest
  <2> SUFFICES ASSUME TypeOK, WorkInv, Quiet, sta # "connecting"
               PROVE  "REQUEST_CONNECT" \notin bits
    BY DEF PoliteInv, NoStaleRequest
  <2> QED
    BY QuietIsEmpty DEF WorkInv
<1> QED
  BY PoliteAlways, <1>1, PTL

(***************************************************************************)
(* The answer to a user                                                    *)
(***************************************************************************)

(* A request that has no answer yet is with httpd or in the queue, or it   *)
(* is marked; the marks are cleared only together with an answer.          *)
AnswerOpen ==
    asked = "connect" /\ status = EmptyJson =>
        \/ hsend = "CONNECT_STA_USER" \/ "CONNECT_STA_USER" \in ToSet(queue)
        \/ "REQUEST_CONNECT" \in bits

(* Every step hands the request on, or answers it.                         *)
LEMMA AnswerNext ==
    ASSUME TypeOK, AnswerOpen, [Next]_vars
    PROVE  AnswerOpen'
<1> USE DEF managerVars, timerVars, sendVars, driverVars, askVars, AnswerOpen
<1>1. CASE UNCHANGED <<queue, hsend, status, bits, asked>>
  BY <1>1
<1>2. CASE \E m \in Messages : Send(m) /\ UNCHANGED <<hsend, status, bits, asked>>
  BY <1>2, Sending
<1>3. CASE HttpSends
  <2>1. hsend \in Messages /\ Send(hsend)
    BY <1>3, EventsAreMessages DEF HttpSends, TypeOK
  <2>2. ToSet(queue') = {hsend} \cup ToSet(queue)
    BY <2>1, Sending
  <2> QED
    BY <1>3, <2>2 DEF HttpSends
<1>4. ASSUME NEW m, Receive(m), m # "CONNECT_STA_USER", UNCHANGED <<hsend, asked>>,
             \/ status' # EmptyJson
             \/ UNCHANGED status /\ ("REQUEST_CONNECT" \in bits => "REQUEST_CONNECT" \in bits')
      PROVE  AnswerOpen'
  <2>1. ToSet(queue) = {m} \cup ToSet(queue')
    BY <1>4, Taking
  <2> QED
    BY <1>4, <2>1
<1>5. CASE Manager /\ ~DriverRefuses
  <2>1. CASE DoScanDone \/ DoStartScan \/ DoLoadAndRestore \/ DoStartAP \/ DoStopAP
              \/ DoDisconnect
    BY <1>4, <2>1
       DEF DoScanDone, DoStartScan, DoLoadAndRestore, DoStartAP, DoStopAP, DoDisconnect
  <2>2. CASE DoConnect
    <3>1. PICK m \in DOMAIN RequestBit :
            Receive(m) /\ bits' = bits \cup RequestBit[m] /\ UNCHANGED <<hsend, status, asked>>
      BY <2>2 DEF DoConnect
    <3>2. ToSet(queue) = {m} \cup ToSet(queue')
      BY <3>1, Taking
    <3>3. m = "CONNECT_STA_USER" => "REQUEST_CONNECT" \in bits'
      BY <3>1 DEF RequestBit
    <3> QED
      BY <3>1, <3>2, <3>3
  <2>3. CASE DoAttemptFailed \/ DoUserDisconnected \/ DoConnectionLost \/ DoGotIp
    <3>1. status' # EmptyJson
      BY <2>3 DEF DoAttemptFailed, DoUserDisconnected, DoConnectionLost, DoGotIp, EmptyJson
    <3> QED
      BY <3>1
  <2>4. CASE RestartHttpd
    BY <1>1, <2>4 DEF RestartHttpd
  <2>5. CASE ManagerSends
    <3>1. msend \in Messages
      BY <2>5 DEF ManagerSends, TypeOK
    <3> QED
      BY <1>2, <2>5, <3>1 DEF ManagerSends
  <2> QED
    BY <1>5, <2>1, <2>2, <2>3, <2>4, <2>5 DEF Manager
<1>6. CASE EventLoop
  <2>1. CASE HandleEvent
    <3>1. Head(events) \in Events
      BY <2>1, Handling DEF HandleEvent, TypeOK
    <3>2. "REQUEST_CONNECT" \in bits => "REQUEST_CONNECT" \in bits'
      BY <2>1, <3>1 DEF HandleEvent, Events
    <3> QED
      BY <2>1, <3>2 DEF HandleEvent
  <2>2. CASE EventSends
    <3>1. esend \in Messages
      BY <2>2, EventsAreMessages DEF EventSends, TypeOK
    <3> QED
      BY <1>2, <2>2, <3>1 DEF EventSends
  <2> QED
    BY <1>6, <2>1, <2>2 DEF EventLoop
<1>7. CASE TimerTask
  <2>1. CASE RetryExpires \/ ShutdownExpires
    BY <1>1, <2>1 DEF RetryExpires, ShutdownExpires
  <2>2. CASE TimerSends
    <3>1. tsend \in Messages
      BY <2>2, EventsAreMessages DEF TimerSends, TypeOK
    <3> QED
      BY <1>2, <2>2, <3>1 DEF TimerSends
  <2> QED
    BY <1>7, <2>1, <2>2 DEF TimerTask
<1>8. CASE User
  BY <1>8 DEF User, PostConnect, DeleteConnect, GetAccessPoints, Asks, Reachable
<1>9. CASE Driver
  BY <1>1, <1>9 DEF Driver, ConnectSucceeds, Disconnected, ScanEnds
<1>10. CASE Reboot \/ DriverRefuses
  BY <1>10 DEF Reboot, DriverRefuses, Restart
<1>11. CASE UNCHANGED vars
  BY <1>1, <1>11 DEF vars
<1> QED
  BY <1>3, <1>5, <1>6, <1>7, <1>8, <1>9, <1>10, <1>11 DEF Next

(* Every request of a polite user is answered by the time nothing is under *)
(* way, for any length of the queue and any number of failed attempts.     *)
THEOREM AnswerCorrect == Spec => []NoSilentEnd
<1>1. Init => AnswerOpen
  BY DEF Init, AnswerOpen
<1>2. TypeOK /\ AnswerOpen /\ NoStaleRequest => NoSilentEnd
  <2> SUFFICES ASSUME TypeOK, AnswerOpen, NoStaleRequest, Polite, Quiet,
                      sta # "connecting", asked = "connect"
               PROVE  status # EmptyJson
    BY DEF NoSilentEnd
  <2> QED
    BY QuietIsEmpty DEF AnswerOpen, NoStaleRequest
<1> QED
  BY TypeInit, TypeNext, AnswerNext, RequestCorrect, <1>1, <1>2, PTL DEF Spec
=============================================================================
