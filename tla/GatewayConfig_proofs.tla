------------------------- MODULE GatewayConfig_proofs -------------------------
(***************************************************************************)
(* Proofs about GatewayConfig, for any credentials, networks and segments, *)
(* any number of polls, forms and waiting events: type correctness, that   *)
(* the timer of an attempt only ends itself, what a result rests on, that  *)
(* the station comes back and the softAP keeps out of the router's network.*)
(***************************************************************************)
EXTENDS GatewayConfig, SequenceFacts

USE CredsAssumption, BoundsAssumption, SegmentsAssumption, NetworksAssumption
USE DEF NULL

(***************************************************************************)
(* The inductive invariants                                                *)
(***************************************************************************)

Address == Own \cup Networks \cup {NoAddress}

(* What app_main has made so far, and nobody before it has.                *)
StartFollowed ==
    /\ ip \in [Netifs -> Address]
    /\ mpc = "softap" => gateway_link = <<>> /\ ip["softap"] = NoAddress
    /\ mpc = "station" => gateway_link = <<"softap">>
    /\ mpc \in {"web", "run"} => gateway_link = <<"softap", "station">>
    /\ mpc # "softap" => ip["softap"] \in Own
    /\ mpc \in {"softap", "station"} =>
         link = "off" /\ events = <<>> /\ ip["station"] = NoAddress
    /\ mpc # "run" => hpc = "idle"

(* The driver connects with credentials; ip_event_sta_got_ip_handler runs  *)
(* for the event that esp_web_got_ip_cb gets next.                         *)
LinkFollowed ==
    /\ link # "off" => target \in Creds
    /\ epc = "web" => events # <<>> /\ Head(events).type = "GOT_IP"

(* An attempt belongs to a form, and so does its timer.                    *)
FormCounted ==
    /\ hpc \notin {"idle", "get"} => posts >= 1
    /\ hpc = "start" => handle = posts

TypeInv == TypeOK /\ StartFollowed /\ LinkFollowed /\ FormCounted

(* The timer runs only while the status is CONNECTING, which keeps the     *)
(* next form out; after the publication its callback ends before the delay *)
(* of the next attempt.                                                    *)
TimerInv ==
    /\ armed \subseteq {handle}
    /\ tpc \in {"clear", "publish"} =>
         /\ status = "CONNECTING" /\ handle = tself
         /\ tresult \in {"CONNECT_OK", "CONNECT_FAIL"}
    /\ tpc \in {"stop", "delete"} =>
         /\ status # "CONNECTING" /\ handle = tself
         /\ hpc \in {"idle", "get", "delay", "scan"}
    /\ armed # {} =>
         \/ tpc = "stop"
         \/ /\ tpc \in {"idle", "clear", "publish"}
            /\ status = "CONNECTING" /\ hpc \in {"idle", "get"}
    /\ status = "CONNECTING" =>
         armed # {} \/ (tpc = "idle" /\ hpc \in {"create", "start"})
    /\ hpc \in {"delay", "scan", "config", "disconnect", "connect", "status"} =>
         status # "CONNECTING"
    /\ hpc \in {"create", "start"} => status = "CONNECTING"

(* A flag that is set has been set since the attempt began, and so a       *)
(* result rests on an address of that attempt.                             *)
ResultInv ==
    /\ flag => heard
    /\ tpc \in {"clear", "publish"} /\ tresult = "CONNECT_OK" => heard
    /\ status = "CONNECT_OK" /\ hpc \in {"idle", "get"} => heard

(* What the first half of an answer says is still true in the second.      *)
AnswerInv ==
    hpc = "get" =>
        /\ hstate = "1" => status = "CONNECT_OK"
        /\ hstate = "2" => status = "CONNECT_FAIL"

(* A conflict with the router's network is known by an event that waits.   *)
ConflictKnown ==
    ip["softap"] # NoAddress /\ ip["softap"] = ip["station"] =>
        \E i \in DOMAIN events :
            events[i].type = "GOT_IP" /\ (epc = "web" => i # 1)

ConfigInv ==
    TypeInv /\ TimerInv /\ ResultInv /\ AnswerInv /\ StationComesBack /\ ConflictKnown

(***************************************************************************)
(* The choice of a segment                                                 *)
(***************************************************************************)

(* While no segment or one of them is used there is a lowest free one.     *)
LEMMA RequestedIsFree ==
    ASSUME NEW s, Free = Segments \ {s}
    PROVE  RequestIp \in Own /\ RequestIp.segment # s
<1> DEFINE low == CHOOSE r \in Free : \A t \in Free : r <= t
<1>1. \E r \in Free : \A t \in Free : r <= t
  <2>1. CASE s = FirstSegment
    <3>1. FirstSegment + 1 \in Free /\ \A t \in Free : FirstSegment + 1 <= t
      BY <2>1 DEF Segments
    <3> QED
      BY <3>1
  <2>2. CASE s # FirstSegment
    <3>1. FirstSegment \in Free /\ \A t \in Free : FirstSegment <= t
      BY <2>2 DEF Segments
    <3> QED
      BY <3>1
  <2> QED
    BY <2>1, <2>2
<1>2. low \in Free
  BY <1>1
<1> HIDE DEF low
<1>3. low \in Segments /\ low # s
  BY <1>2
<1> QED
  BY <1>3 DEF RequestIp, Own, low

(* With the softAP in the list before the station, the conflict of the     *)
(* station is with the softAP, if there is one.                            *)
LEMMA ConflictIsSoftap ==
    ASSUME gateway_link = <<"softap", "station">>
    PROVE  FirstConflict("station") = IF ip["softap"] = ip["station"] THEN 1 ELSE 0
<1> DEFINE I == {i \in 1..Len(gateway_link) :
                   /\ gateway_link[i] \in Dhcps \ {"station"}
                   /\ SameNetwork(ip[gateway_link[i]], ip["station"])}
<1>1. FirstConflict("station") = IF I # {} THEN Min(I) ELSE 0
  BY DEF FirstConflict, SelectInSeq
<1>2. /\ Len(gateway_link) = 2 /\ gateway_link[1] = "softap" /\ gateway_link[2] = "station"
  OBVIOUS
<1>3. I = IF ip["softap"] = ip["station"] THEN {1} ELSE {}
  BY <1>2 DEF Dhcps, SameNetwork
<1>4. Min({1}) = 1
  BY DEF Min
<1> QED
  BY <1>1, <1>3, <1>4

(* update_conflict takes the softAP out of the station's network and       *)
(* leaves it where it is otherwise.                                        *)
LEMMA ConflictResolved ==
    ASSUME ip \in [Netifs -> Address], gateway_link = <<"softap", "station">>,
           ConflictUpdate("station")
    PROVE  /\ ip' \in [Netifs -> Address] /\ ip'["station"] = ip["station"]
           /\ ip["softap"] # ip["station"] => ip'["softap"] = ip["softap"]
           /\ ip["softap"] = ip["station"] =>
                ip'["softap"] \in Own /\ ip'["softap"] # ip["station"]
<1>1. CASE ip["softap"] # ip["station"]
  BY <1>1, ConflictIsSoftap DEF ConflictUpdate
<1>2. CASE ip["softap"] = ip["station"]
  <2> DEFINE s == ip["station"].segment
  <2>1. ToSet(gateway_link) = Netifs
    <3>1. DOMAIN gateway_link = 1..2
      OBVIOUS
    <3> QED
      BY <3>1 DEF ToSet, Netifs
  <2>2. Free = Segments \ {s}
    BY <1>2, <2>1 DEF Free, SegmentIsUsed, Netifs
  <2>3. RequestIp \in Own /\ RequestIp.segment # s
    BY <2>2, RequestedIsFree
  <2>4. Free # {}
    BY <2>2 DEF Segments
  <2>5. ip' = [ip EXCEPT !["softap"] = RequestIp]
    <3>1. /\ FirstConflict("station") = 1 /\ FirstConflict("station") # 0
          /\ gateway_link[1] = "softap"
      BY <1>2, ConflictIsSoftap
    <3>2. ip' = [ip EXCEPT ![gateway_link[1]] = RequestIp]
      BY <2>4, <3>1, Zenon DEF ConflictUpdate
    <3> QED
      BY <3>1, <3>2, Zenon
  <2> QED
    BY <1>2, <2>3, <2>5 DEF Netifs, Address
<1> QED
  BY <1>1, <1>2

(***************************************************************************)
(* The event loop                                                          *)
(***************************************************************************)

EventKinds == [type : {"CONNECTED", "DISCONNECTED", "GOT_IP"}, cred : Creds]

(* An event that is posted is the last one, and the others keep their      *)
(* places.                                                                 *)
LEMMA PostedLast ==
    ASSUME events \in Seq(EventKinds), NEW e \in EventKinds, Post(e)
    PROVE  /\ events' \in Seq(EventKinds) /\ Len(events') = Len(events) + 1
           /\ \A i \in DOMAIN events : i \in DOMAIN events' /\ events'[i] = events[i]
           /\ Len(events) + 1 \in DOMAIN events' /\ events'[Len(events) + 1] = e
           /\ events' # <<>>
           /\ events # <<>> => Head(events') = Head(events) /\ Len(events) + 1 # 1
<1>1. /\ events' \in Seq(EventKinds) /\ Len(events') = Len(events) + 1
      /\ Len(events) \in Nat /\ events'[Len(events) + 1] = e
      /\ \A i \in 1..Len(events) : events'[i] = events[i]
  BY AppendElements DEF Post
<1>2. DOMAIN events = 1..Len(events) /\ DOMAIN events' = 1..(Len(events) + 1)
  BY <1>1
<1>3. events' # <<>>
  BY <1>1, EmptySeq
<1>4. ASSUME events # <<>> PROVE Head(events') = Head(events) /\ Len(events) + 1 # 1
  <2>1. Len(events) >= 1 /\ Head(events) = events[1] /\ Head(events') = events'[1]
    BY <1>1, <1>3, <1>4, TailElements
  <2> QED
    BY <1>1, <2>1
<1> QED
  BY <1>1, <1>2, <1>3, <1>4

(* When the first event has been handled the others move up by one.        *)
LEMMA HandledFirst ==
    ASSUME events \in Seq(EventKinds), events # <<>>, Handled
    PROVE  /\ events' \in Seq(EventKinds) /\ Len(events') < Len(events)
           /\ Head(events) \in EventKinds /\ Head(events) = events[1] /\ 1 \in DOMAIN events
           /\ \A i \in DOMAIN events : i # 1 =>
                i - 1 \in DOMAIN events' /\ events'[i - 1] = events[i]
<1>1. /\ Head(events) \in EventKinds /\ events' \in Seq(EventKinds)
      /\ Len(events) \in Nat /\ Len(events) >= 1 /\ Len(events') = Len(events) - 1
      /\ Head(events) = events[1]
      /\ \A i \in 1..(Len(events) - 1) : events'[i] = events[i + 1]
  BY TailElements DEF Handled
<1>2. DOMAIN events = 1..Len(events) /\ DOMAIN events' = 1..(Len(events) - 1)
  BY <1>1
<1>3. ASSUME NEW i \in DOMAIN events, i # 1
      PROVE  i - 1 \in DOMAIN events' /\ events'[i - 1] = events[i]
  <2>1. i - 1 \in 1..(Len(events) - 1) /\ (i - 1) + 1 = i
    BY <1>1, <1>2, <1>3
  <2> QED
    BY <1>1, <1>2, <2>1
<1> QED
  BY <1>1, <1>2, <1>3

(* esp_wifi_connect leaves a link that is down only without a configuration*)
LEMMA Connecting ==
    ASSUME TypeInv, WifiConnect
    PROVE  /\ link' \in {"off", "connecting", "associated", "up"}
           /\ target' \in Creds \cup {NoSsid}
           /\ link' # "off" => target' \in Creds
           /\ link' = "off" => link = "off" /\ stored = NoSsid
           /\ link # "off" => link' = link
BY DEF TypeInv, TypeOK, LinkFollowed, WifiConnect

(***************************************************************************)
(* Type correctness                                                        *)
(***************************************************************************)

(* The types, and what they rest on, hold when the gateway starts.         *)
LEMMA TypeInit == Init => TypeInv
<1> SUFFICES ASSUME Init PROVE TypeInv
  OBVIOUS
<1>1. events \in Seq(EventKinds) /\ Len(events) = 0 /\ ToSet(gateway_link) = {}
  BY EmptySeq, ToSetEmpty DEF Init, NetifInit
<1>2. ip \in [Netifs -> Address] /\ \A n \in Netifs : ip[n] = NoAddress
  BY DEF Init, NetifInit, Address
<1>3. TypeOK
  <2>1. /\ ToSet(gateway_link) \subseteq Netifs
        /\ ip["softap"] \in Own \cup {NoAddress}
        /\ ip["station"] \in Networks \cup {NoAddress}
        /\ events \in Seq(EventKinds) /\ Len(events) <= MaxEvents
    BY <1>1, <1>2 DEF Netifs
  <2>2. /\ {stored, target, conf, heardOf} \subseteq Creds \cup {NoSsid}
        /\ {dhcp, flag, hret, heard} \subseteq BOOLEAN
    BY DEF Init
  <2>3. /\ count \in 1..MaxCount /\ posts \in 0..MaxPosts
        /\ handle \in Timers \cup {NULL} /\ armed \subseteq Timers
        /\ tself \in Timers \cup {NULL}
    BY DEF Init
  <2> QED
    BY <2>1, <2>2, <2>3 DEF Init, TypeOK, Statuses, EventKinds
<1>4. StartFollowed /\ LinkFollowed /\ FormCounted
  BY <1>1, <1>2 DEF Init, NetifInit, StartFollowed, LinkFollowed, FormCounted, Netifs
<1> QED
  BY <1>3, <1>4 DEF TypeInv

(* A step that leaves the interfaces and the driver alone.                 *)
LEMMA TypeNextWeb ==
    ASSUME TypeInv,
           \/ ConfigPost \/ ConfigGet \/ AcceptResult \/ ClearFlag \/ TrySetConfig
           \/ ApplyStatus \/ CreateTimer \/ StartTimer \/ ConfigGetMessage
           \/ TimerTask
    PROVE  TypeInv'
<1> USE DEF netifVars, driverVars, eventVars, pollVars, timerVars, httpVars, heardVars,
            Step, TypeInv, TypeOK, StartFollowed, LinkFollowed, FormCounted
<1>1. CASE ConfigPost
  BY <1>1 DEF ConfigPost
<1>2. CASE ConfigGet
  BY <1>2 DEF ConfigGet
<1>3. CASE AcceptResult
  BY <1>3 DEF AcceptResult, Statuses
<1>4. CASE ClearFlag
  <2>1. {dhcp', flag', hret', heard'} \subseteq BOOLEAN
    BY <1>4 DEF ClearFlag
  <2> QED
    BY <1>4, <2>1 DEF ClearFlag
<1>5. CASE TrySetConfig
  BY <1>5 DEF TrySetConfig
<1>6. CASE ApplyStatus
  BY <1>6 DEF ApplyStatus, Statuses
<1>7. CASE CreateTimer
  BY <1>7 DEF CreateTimer, Timers
<1>8. CASE StartTimer
  BY <1>8 DEF StartTimer, Timers
<1>9. CASE ConfigGetMessage
  BY <1>9 DEF ConfigGetMessage
<1>10. ASSUME NEW t \in Timers, Poll(t)
       PROVE  TypeInv'
  BY <1>10 DEF Poll, Statuses
<1>11. CASE FinishPoll
  <2>1. {dhcp', flag', hret', heard'} \subseteq BOOLEAN
    BY <1>11 DEF FinishPoll
  <2>2. count' \in 1..MaxCount
    BY <1>11 DEF FinishPoll
  <2> QED
    BY <1>11, <2>1, <2>2 DEF FinishPoll
<1>12. CASE PublishStatus
  BY <1>12 DEF PublishStatus
<1>13. CASE StopTimer
  BY <1>13 DEF StopTimer
<1>14. CASE DeleteTimer
  BY <1>14 DEF DeleteTimer, Statuses
<1> QED
  BY <1>1, <1>2, <1>3, <1>4, <1>5, <1>6, <1>7, <1>8, <1>9, <1>10, <1>11, <1>12,
     <1>13, <1>14 DEF TimerTask

(* esp_wifi_disconnect                                                     *)
LEMMA Disconnecting ==
    ASSUME TypeInv, WifiDisconnect, Len(events) < MaxEvents
    PROVE  /\ link' = "off" /\ target' = target
           /\ events' \in Seq(EventKinds) /\ Len(events') <= MaxEvents
           /\ \A i \in DOMAIN events : i \in DOMAIN events' /\ events'[i] = events[i]
           /\ events # <<>> => events' # <<>> /\ Head(events') = Head(events)
           /\ link = "off" => events' = events
           /\ link # "off" => \E i \in DOMAIN events' : events'[i].type = "DISCONNECTED"
<1>1. events \in Seq(EventKinds) /\ Len(events) \in Nat /\ Len(events) <= MaxEvents
  BY DEF TypeInv, TypeOK, EventKinds
<1>2. link' = "off" /\ target' = target
  BY DEF WifiDisconnect
<1>3. CASE link = "off"
  BY <1>1, <1>2, <1>3 DEF WifiDisconnect
<1>4. CASE link # "off"
  <2> DEFINE e == Event("DISCONNECTED")
  <2>1. e \in EventKinds /\ e.type = "DISCONNECTED"
    BY <1>4 DEF Event, EventKinds, TypeInv, LinkFollowed
  <2>2. Post(e)
    BY <1>4 DEF WifiDisconnect
  <2> HIDE DEF e
  <2>3. /\ events' \in Seq(EventKinds) /\ Len(events') = Len(events) + 1
        /\ \A i \in DOMAIN events : i \in DOMAIN events' /\ events'[i] = events[i]
        /\ Len(events) + 1 \in DOMAIN events' /\ events'[Len(events) + 1] = e
        /\ events # <<>> => events' # <<>> /\ Head(events') = Head(events)
    BY <1>1, <2>1, <2>2, PostedLast
  <2>4. Len(events') <= MaxEvents
    BY <1>1, <2>3
  <2>5. \E i \in DOMAIN events' : events'[i].type = "DISCONNECTED"
    BY <2>1, <2>3
  <2> QED
    BY <1>2, <1>4, <2>3, <2>4, <2>5
<1> QED
  BY <1>3, <1>4

(* A driver event that is not a disconnection.                             *)
LEMMA EventPosted ==
    ASSUME TypeInv, link # "off", NEW t \in {"CONNECTED", "GOT_IP"}, Post(Event(t)),
           Len(events) < MaxEvents
    PROVE  /\ events' \in Seq(EventKinds) /\ Len(events') <= MaxEvents
           /\ \A i \in DOMAIN events : i \in DOMAIN events' /\ events'[i] = events[i]
           /\ events # <<>> => events' # <<>> /\ Head(events') = Head(events)
           /\ \E i \in DOMAIN events' :
                events'[i].type = t /\ (events # <<>> => i # 1)
<1> DEFINE e == Event(t)
<1>1. events \in Seq(EventKinds) /\ Len(events) \in Nat /\ Len(events) <= MaxEvents
  BY DEF TypeInv, TypeOK, EventKinds
<1>2. e \in EventKinds /\ e.type = t
  BY DEF Event, EventKinds, TypeInv, LinkFollowed
<1>3. Post(e)
  OBVIOUS
<1> HIDE DEF e
<1>4. /\ events' \in Seq(EventKinds) /\ Len(events') = Len(events) + 1
      /\ \A i \in DOMAIN events : i \in DOMAIN events' /\ events'[i] = events[i]
      /\ Len(events) + 1 \in DOMAIN events' /\ events'[Len(events) + 1] = e
      /\ events # <<>> => /\ events' # <<>> /\ Head(events') = Head(events)
                          /\ Len(events) + 1 # 1
  BY <1>1, <1>2, <1>3, PostedLast
<1> QED
  BY <1>1, <1>2, <1>4

(* The calls of the driver and the events it posts keep the types.         *)
LEMMA TypeNextLink ==
    ASSUME TypeInv, TryDisconnect \/ TryConnect \/ ApplyWithoutSsid \/ WifiDriver
    PROVE  TypeInv'
<1> USE DEF netifVars, driverVars, eventVars, pollVars, timerVars, httpVars, heardVars,
            Step, StartFollowed, LinkFollowed, FormCounted
<1>1. TypeOK /\ StartFollowed /\ LinkFollowed /\ FormCounted
  BY DEF TypeInv
<1>2. CASE TryConnect
  <2>1. WifiConnect /\ hpc = "connect" /\ hpc' = "status"
    BY <1>2 DEF TryConnect
  <2>2. mpc = "run"
    BY <1>1, <2>1
  <2> QED
    BY <1>1, <1>2, <2>1, <2>2, Connecting DEF TryConnect, TypeOK, TypeInv
<1>3. CASE TryDisconnect
  <2>1. WifiDisconnect /\ Len(events) < MaxEvents /\ mpc = "run"
    BY <1>1, <1>3 DEF TryDisconnect
  <2> QED
    BY <1>1, <1>3, <2>1, Disconnecting DEF TryDisconnect, TypeOK, TypeInv, EventKinds
<1>4. CASE ApplyWithoutSsid
  <2>1. WifiDisconnect /\ Len(events) < MaxEvents /\ mpc = "run"
    BY <1>1, <1>4 DEF ApplyWithoutSsid
  <2>2. {dhcp', flag', hret', heard'} \subseteq BOOLEAN
    BY <1>1, <1>4 DEF ApplyWithoutSsid, TypeOK
  <2> QED
    BY <1>1, <1>4, <2>1, <2>2, Disconnecting
       DEF ApplyWithoutSsid, TypeOK, TypeInv, EventKinds, Statuses
<1>5. CASE LinkDown
  <2>1. WifiDisconnect /\ Len(events) < MaxEvents /\ mpc \in {"web", "run"}
    BY <1>1, <1>5 DEF LinkDown, Driver, TypeOK
  <2> QED
    BY <1>1, <1>5, <2>1, Disconnecting DEF LinkDown, Driver, TypeOK, TypeInv, EventKinds
<1>6. CASE Associate
  <2>1. /\ link # "off" /\ Post(Event("CONNECTED")) /\ Len(events) < MaxEvents
        /\ mpc \in {"web", "run"} /\ link' = "associated"
    BY <1>1, <1>6 DEF Associate, Driver, TypeOK
  <2> QED
    BY <1>1, <1>6, <2>1, EventPosted DEF Associate, Driver, TypeOK, TypeInv, EventKinds
<1>7. CASE Acquire
  <2>1. /\ link # "off" /\ Post(Event("GOT_IP")) /\ Len(events) < MaxEvents
        /\ mpc \in {"web", "run"} /\ link' = "up"
    BY <1>1, <1>7 DEF Acquire, Driver, TypeOK
  <2>2. /\ ip' \in [Netifs -> Address] /\ ip'["softap"] = ip["softap"]
        /\ ip'["station"] \in Networks
    BY <1>1, <1>7 DEF Acquire, Driver, Address, Netifs
  <2> QED
    BY <1>1, <1>7, <2>1, <2>2, EventPosted DEF Acquire, Driver, TypeOK, TypeInv, EventKinds
<1> QED
  BY <1>2, <1>3, <1>4, <1>5, <1>6, <1>7 DEF WifiDriver

(* The handlers of the event loop keep the types.                          *)
LEMMA TypeNextEvents ==
    ASSUME TypeInv, EventTask
    PROVE  TypeInv'
<1> USE DEF netifVars, driverVars, eventVars, pollVars, timerVars, httpVars, heardVars,
            StartFollowed, LinkFollowed, FormCounted
<1>1. TypeOK /\ StartFollowed /\ LinkFollowed /\ FormCounted /\ events # <<>>
      /\ mpc \in {"web", "run"} /\ events \in Seq(EventKinds) /\ Len(events) <= MaxEvents
  BY DEF TypeInv, TypeOK, EventKinds, EventTask, StaConnected, StaDisconnected,
         GotIpConflict, GotIpFlag
<1>2. Handled => events' \in Seq(EventKinds) /\ Len(events') <= MaxEvents
  <2>1. Handled => events' \in Seq(EventKinds) /\ Len(events') < Len(events)
    BY <1>1, HandledFirst
  <2> QED
    BY <1>1, <2>1
<1>3. CASE StaConnected
  <2>1. {dhcp', flag', hret', heard'} \subseteq BOOLEAN
    BY <1>1, <1>3 DEF StaConnected, TypeOK
  <2> QED
    BY <1>1, <1>2, <1>3, <2>1 DEF StaConnected, TypeOK, TypeInv, EventKinds
<1>4. CASE StaDisconnected
  <2>1. {dhcp', flag', hret', heard'} \subseteq BOOLEAN
    BY <1>1, <1>4 DEF StaDisconnected, TypeOK
  <2>2. /\ ip' \in [Netifs -> Address] /\ ip'["softap"] = ip["softap"]
        /\ ip'["station"] = NoAddress
    BY <1>1, <1>4 DEF StaDisconnected, Address, Netifs
  <2>3. WifiConnect /\ Handled
    BY <1>4 DEF StaDisconnected
  <2> QED
    BY <1>1, <1>2, <1>4, <2>1, <2>2, <2>3, Connecting
       DEF StaDisconnected, TypeOK, TypeInv, EventKinds
<1>5. CASE GotIpConflict
  <2>1. ConflictUpdate("station") /\ epc' = "web" /\ events' = events
    BY <1>5 DEF GotIpConflict
  <2>2. /\ ip' \in [Netifs -> Address] /\ ip'["softap"] \in Own
        /\ ip'["station"] = ip["station"]
    BY <1>1, <2>1, ConflictResolved
  <2> QED
    BY <1>1, <1>5, <2>1, <2>2 DEF GotIpConflict, Event0, TypeOK, TypeInv
<1>6. CASE GotIpFlag
  <2>1. {dhcp', flag', hret', heard'} \subseteq BOOLEAN
    BY <1>1, <1>6 DEF GotIpFlag, TypeOK
  <2>2. heardOf' \in Creds \cup {NoSsid}
    <3>1. Head(events) \in EventKinds
      BY <1>1, <1>6, HandledFirst DEF GotIpFlag
    <3> QED
      BY <1>1, <1>6, <3>1 DEF GotIpFlag, Event0, EventKinds, TypeOK
  <2> QED
    BY <1>1, <1>2, <1>6, <2>1, <2>2 DEF GotIpFlag, TypeOK, TypeInv, EventKinds
<1> QED
  BY <1>3, <1>4, <1>5, <1>6 DEF EventTask

(* The start and the restart of the gateway keep the types.                *)
LEMMA TypeNextStart ==
    ASSUME TypeInv, AppMain \/ Reboot
    PROVE  TypeInv'
<1> USE DEF netifVars, driverVars, eventVars, pollVars, timerVars, httpVars, heardVars,
            StartFollowed, LinkFollowed, FormCounted
<1>1. TypeOK /\ StartFollowed /\ LinkFollowed /\ FormCounted
  BY DEF TypeInv
<1>2. CASE CreateSoftap
  <2>1. mpc = "softap" /\ mpc' = "station" /\ gateway_link = <<>>
    BY <1>1, <1>2 DEF CreateSoftap
  <2>2. ToSet(gateway_link) = {} /\ "softap" \notin ToSet(gateway_link)
    BY <2>1, ToSetEmpty
  <2>3. RequestIp \in Own
    <3>1. Free = Segments \ {0}
      BY <2>2 DEF Free, SegmentIsUsed, Segments
    <3> QED
      BY <3>1, RequestedIsFree
  <2>4. gateway_link' = <<"softap">>
    BY <1>2, <2>1, <2>2 DEF CreateSoftap, ListAdd
  <2>5. /\ ip' \in [Netifs -> Address] /\ ip'["softap"] \in Own
        /\ ip'["station"] = ip["station"]
    BY <1>1, <1>2, <2>3 DEF CreateSoftap, Address, Netifs
  <2>6. ToSet(gateway_link') = {"softap"}
    BY <2>4 DEF ToSet
  <2> QED
    BY <1>1, <1>2, <2>1, <2>4, <2>5, <2>6
       DEF CreateSoftap, TypeOK, TypeInv, Netifs
<1>3. CASE CreateStation
  <2>1. mpc = "station" /\ mpc' = "web" /\ gateway_link = <<"softap">> /\ WifiConnect
    BY <1>1, <1>3 DEF CreateStation
  <2>2. "station" \notin ToSet(gateway_link)
    BY <2>1 DEF ToSet
  <2>3. gateway_link' = <<"softap", "station">>
    <3>1. Append(<<"softap">>, "station") = <<"softap", "station">>
      <4> DEFINE a == Append(<<"softap">>, "station")
                 b == <<"softap", "station">>
      <4>1. <<"softap">> \in Seq(Netifs) /\ "station" \in Netifs /\ b \in Seq(Netifs)
        BY DEF Netifs
      <4>2. /\ a \in Seq(Netifs) /\ Len(a) = 2 /\ a[2] = "station"
            /\ \A i \in 1..1 : a[i] = <<"softap">>[i]
        BY <4>1, AppendElements
      <4>3. \A i \in 1..2 : a[i] = b[i]
        BY <4>2
      <4> QED
        BY <4>1, <4>2, <4>3, SeqEqual
    <3> QED
      BY <1>3, <2>1, <2>2, <3>1 DEF CreateStation, ListAdd
  <2>4. ToSet(gateway_link') \subseteq Netifs
    BY <2>3 DEF ToSet, Netifs
  <2> QED
    BY <1>1, <1>3, <2>1, <2>3, <2>4, Connecting DEF CreateStation, TypeOK, TypeInv
<1>4. CASE StartWebServer
  BY <1>1, <1>4 DEF StartWebServer, TypeOK, TypeInv
<1>5. CASE Reboot
  <2>1. events' \in Seq(EventKinds) /\ Len(events') = 0 /\ ToSet(gateway_link') = {}
    BY <1>5, EmptySeq, ToSetEmpty DEF Reboot
  <2>2. /\ ip' \in [Netifs -> Address] /\ ip'["softap"] = NoAddress
        /\ ip'["station"] = NoAddress
    BY <1>5 DEF Reboot, Address, Netifs
  <2>3. /\ {stored', target', conf', heardOf'} \subseteq Creds \cup {NoSsid}
        /\ {dhcp', flag', hret', heard'} \subseteq BOOLEAN
    BY <1>1, <1>5 DEF Reboot, TypeOK
  <2>4. /\ count' \in 1..MaxCount /\ posts' \in 0..MaxPosts
        /\ handle' \in Timers \cup {NULL} /\ armed' \subseteq Timers
        /\ tself' \in Timers \cup {NULL} /\ Len(events') <= MaxEvents
    BY <1>1, <1>5, <2>1 DEF Reboot, TypeOK
  <2> QED
    BY <1>5, <2>1, <2>2, <2>3, <2>4 DEF Reboot, TypeOK, TypeInv, Statuses, EventKinds
<1> QED
  BY <1>2, <1>3, <1>4, <1>5 DEF AppMain

(* The types, with what they rest on, are inductive.                       *)
LEMMA TypeNext ==
    ASSUME TypeInv, [Next]_vars
    PROVE  TypeInv'
<1>1. CASE UNCHANGED vars
  BY <1>1 DEF TypeInv, TypeOK, StartFollowed, LinkFollowed, FormCounted, vars, netifVars,
              driverVars, eventVars, pollVars, timerVars, httpVars, heardVars
<1> QED
  BY <1>1, TypeNextWeb, TypeNextLink, TypeNextEvents, TypeNextStart DEF Next, HttpdStep

(* The configuration of the gateway always has its shape; in particular a  *)
(* segment that was requested is one the softAP may have, and no more      *)
(* events wait than the loop holds.                                        *)
THEOREM TypeCorrect == Spec => []TypeOK
<1>1. TypeInv => TypeOK
  BY DEF TypeInv
<1> QED
  BY TypeInit, TypeNext, <1>1, PTL DEF Spec

(***************************************************************************)
(* The timer of an attempt and the answers                                 *)
(***************************************************************************)

(* Every step keeps the timer, its handle and the status together.         *)
LEMMA TimerNext ==
    ASSUME TypeInv, TimerInv, [Next]_vars
    PROVE  TimerInv'
<1> USE DEF netifVars, driverVars, eventVars, pollVars, timerVars, httpVars, heardVars,
            Step, TimerInv
<1>0. /\ status \in Statuses /\ tpc \in {"idle", "clear", "publish", "stop", "delete"}
      /\ hpc \in {"idle", "delay", "config", "disconnect", "connect", "status",
                  "create", "start", "scan", "get"}
      /\ mpc # "run" => hpc = "idle"
      /\ tresult \in Statuses
  BY DEF TypeInv, TypeOK, StartFollowed
<1>1. CASE UNCHANGED <<armed, handle, tpc, tself, tresult, status, hpc>>
  BY <1>1
<1>2. CASE ConfigPost
  BY <1>0, <1>2 DEF ConfigPost
<1>3. CASE ConfigGet
  BY <1>0, <1>3 DEF ConfigGet
<1>4. CASE AcceptResult
  BY <1>0, <1>4 DEF AcceptResult
<1>5. CASE ClearFlag
  BY <1>0, <1>5 DEF ClearFlag
<1>6. CASE TrySetConfig
  BY <1>0, <1>6 DEF TrySetConfig
<1>7. CASE TryDisconnect
  BY <1>0, <1>7 DEF TryDisconnect
<1>8. CASE TryConnect
  BY <1>0, <1>8 DEF TryConnect
<1>9. CASE ApplyStatus
  BY <1>0, <1>9 DEF ApplyStatus
<1>10. CASE CreateTimer
  BY <1>0, <1>10 DEF CreateTimer
<1>11. CASE StartTimer
  BY <1>0, <1>11 DEF StartTimer
<1>12. CASE ApplyWithoutSsid
  BY <1>0, <1>12 DEF ApplyWithoutSsid
<1>13. CASE ConfigGetMessage
  BY <1>0, <1>13 DEF ConfigGetMessage
<1>14. ASSUME NEW t \in Timers, Poll(t)
       PROVE  TimerInv'
  BY <1>0, <1>14 DEF Poll
<1>15. CASE FinishPoll
  BY <1>0, <1>15 DEF FinishPoll
<1>16. CASE PublishStatus
  BY <1>0, <1>16 DEF PublishStatus
<1>17. CASE StopTimer
  BY <1>0, <1>17 DEF StopTimer
<1>18. CASE DeleteTimer
  BY <1>0, <1>18 DEF DeleteTimer
<1>19. CASE Reboot
  BY <1>19 DEF Reboot
<1>20. CASE UNCHANGED vars \/ AppMain \/ EventTask \/ WifiDriver
  BY <1>1, <1>20
     DEF vars, AppMain, CreateSoftap, CreateStation, StartWebServer, EventTask,
         StaConnected, StaDisconnected, GotIpConflict, GotIpFlag, WifiDriver,
         Associate, Acquire, LinkDown, Driver
<1> QED
  BY <1>2, <1>3, <1>4, <1>5, <1>6, <1>7, <1>8, <1>9, <1>10, <1>11, <1>12, <1>13,
     <1>14, <1>15, <1>16, <1>17, <1>18, <1>19, <1>20
     DEF Next, HttpdStep, TimerTask

(* Every step keeps the flag and a result OK behind an address.            *)
LEMMA ResultNext ==
    ASSUME TypeInv, TimerInv, ResultInv, [Next]_vars
    PROVE  ResultInv'
<1> USE DEF netifVars, driverVars, eventVars, pollVars, timerVars, httpVars, heardVars,
            Step
<1>0. /\ flag \in BOOLEAN /\ heard \in BOOLEAN
      /\ flag => heard
      /\ tpc \in {"clear", "publish"} /\ tresult = "CONNECT_OK" => heard
      /\ status = "CONNECT_OK" /\ hpc \in {"idle", "get"} => heard
      /\ tpc \in {"clear", "publish"} =>
           status = "CONNECTING" /\ tresult \in {"CONNECT_OK", "CONNECT_FAIL"}
      /\ hpc \in {"create", "start"} => status = "CONNECTING"
  BY DEF TypeInv, TypeOK, ResultInv, TimerInv
<1>1. CASE UNCHANGED <<heardVars, tpc, tresult, status, hpc>>
  BY <1>0, <1>1 DEF ResultInv
<1>2. CASE ClearFlag
  <2>1. flag' = FALSE /\ hpc' = "config" /\ tpc' = "idle"
    BY <1>2 DEF ClearFlag
  <2> QED
    BY <2>1 DEF ResultInv
<1>3. CASE ApplyWithoutSsid
  <2>1. flag' = FALSE /\ status' = "CONNECT_FAIL" /\ tpc' = "idle"
    BY <1>3 DEF ApplyWithoutSsid
  <2> QED
    BY <2>1 DEF ResultInv
<1>4. CASE GotIpFlag
  <2>1. heard' = TRUE \/ UNCHANGED <<flag, heard>>
    BY <1>4 DEF GotIpFlag
  <2>2. UNCHANGED <<tpc, tresult, status, hpc>>
    BY <1>4 DEF GotIpFlag
  <2> QED
    BY <1>0, <2>1, <2>2 DEF ResultInv
<1>5. CASE FinishPoll
  <2>1. flag' = FALSE /\ heard' = heard /\ tpc = "clear" /\ tpc' = "publish"
        /\ UNCHANGED <<tresult, status, hpc>>
    BY <1>5 DEF FinishPoll
  <2> QED
    BY <1>0, <2>1 DEF ResultInv
<1>6. CASE PublishStatus
  BY <1>0, <1>6 DEF PublishStatus, ResultInv
<1>7. ASSUME NEW t \in Timers, Poll(t)
      PROVE  ResultInv'
  <2>1. UNCHANGED <<flag, heard, status, hpc>>
    BY <1>7 DEF Poll
  <2>2. tresult' = "CONNECT_OK" => flag \/ UNCHANGED <<tpc, tresult>>
    BY <1>7 DEF Poll
  <2> QED
    BY <1>0, <2>1, <2>2 DEF ResultInv
<1>8. CASE StopTimer \/ DeleteTimer
  BY <1>0, <1>8 DEF StopTimer, DeleteTimer, ResultInv
<1>9. CASE ConfigPost \/ ConfigGet \/ AcceptResult \/ TrySetConfig \/ TryDisconnect
           \/ TryConnect \/ CreateTimer \/ StartTimer \/ ConfigGetMessage
  <2>1. /\ UNCHANGED <<flag, heard, tpc, tresult>>
        /\ status' = status \/ status' = "NOT_START"
        /\ hpc' \in {"idle", "get"} => hpc \in {"idle", "get", "start"}
    BY <1>9
       DEF ConfigPost, ConfigGet, AcceptResult, TrySetConfig, TryDisconnect,
           TryConnect, CreateTimer, StartTimer, ConfigGetMessage
  <2> QED
    BY <1>0, <2>1 DEF ResultInv
<1>10. CASE ApplyStatus
  <2>1. UNCHANGED <<flag, heard, tpc, tresult>> /\ status' # "CONNECT_OK"
    BY <1>10 DEF ApplyStatus
  <2> QED
    BY <1>0, <2>1 DEF ResultInv
<1>11. CASE Reboot
  <2>1. flag' = FALSE /\ status' = "NOT_START" /\ tpc' = "idle"
    BY <1>11 DEF Reboot
  <2> QED
    BY <2>1 DEF ResultInv
<1>12. CASE UNCHANGED vars \/ AppMain \/ StaConnected \/ StaDisconnected \/ GotIpConflict
            \/ WifiDriver
  BY <1>1, <1>12
     DEF vars, AppMain, CreateSoftap, CreateStation, StartWebServer, StaConnected,
         StaDisconnected, GotIpConflict, WifiDriver, Associate, Acquire, LinkDown, Driver
<1> QED
  BY <1>2, <1>3, <1>4, <1>5, <1>6, <1>7, <1>8, <1>9, <1>10, <1>11, <1>12
     DEF Next, HttpdStep, TimerTask, EventTask

(* No step changes a result between the two halves of an answer.           *)
LEMMA AnswerNext ==
    ASSUME TypeInv, TimerInv, AnswerInv, [Next]_vars
    PROVE  AnswerInv'
<1> USE DEF netifVars, driverVars, eventVars, pollVars, timerVars, httpVars, heardVars,
            Step
<1>1. CASE UNCHANGED <<hpc, hstate, status>>
  BY <1>1 DEF AnswerInv
<1>2. CASE ConfigGet
  BY <1>2 DEF ConfigGet, AnswerInv
<1>3. CASE PublishStatus
  <2>1. /\ tpc = "publish" /\ status = "CONNECTING"
        /\ UNCHANGED <<hpc, hstate>>
    BY <1>3 DEF PublishStatus, TimerInv
  <2> QED
    BY <2>1 DEF AnswerInv
<1>4. CASE ConfigPost \/ AcceptResult \/ HttpdStep \/ Reboot
  <2>1. hpc' # "get"
    BY <1>4
       DEF ConfigPost, AcceptResult, HttpdStep, ClearFlag, TrySetConfig, TryDisconnect,
           TryConnect, ApplyStatus, CreateTimer, StartTimer, ApplyWithoutSsid,
           ConfigGetMessage, Reboot
  <2> QED
    BY <2>1 DEF AnswerInv
<1>5. CASE UNCHANGED vars \/ AppMain \/ EventTask \/ WifiDriver
           \/ (\E t \in Timers : Poll(t)) \/ FinishPoll \/ StopTimer \/ DeleteTimer
  BY <1>1, <1>5
     DEF vars, AppMain, CreateSoftap, CreateStation, StartWebServer, EventTask,
         StaConnected, StaDisconnected, GotIpConflict, GotIpFlag, WifiDriver,
         Associate, Acquire, LinkDown, Driver, Poll, FinishPoll, StopTimer, DeleteTimer
<1> QED
  BY <1>2, <1>3, <1>4, <1>5 DEF Next, TimerTask

(***************************************************************************)
(* The station and the softAP                                              *)
(***************************************************************************)

Waits(t) == \E i \in DOMAIN events : events[i].type = t

(* Every step that leaves the station down leaves somebody who connects    *)
(* it.                                                                     *)
LEMMA StationNext ==
    ASSUME TypeInv, StationComesBack, [Next]_vars
    PROVE  StationComesBack'
<1> USE DEF netifVars, driverVars, eventVars, pollVars, timerVars, httpVars, heardVars,
            Step
<1>0. /\ events \in Seq(EventKinds) /\ mpc \in {"softap", "station", "web", "run"}
      /\ mpc \in {"softap", "station"} => link = "off" /\ events = <<>>
      /\ mpc # "run" => hpc = "idle"
      /\ epc = "web" => events # <<>> /\ Head(events).type = "GOT_IP"
      /\ mpc \in {"web", "run"} /\ link = "off" /\ stored # NoSsid =>
           Waits("DISCONNECTED") \/ hpc \in {"disconnect", "connect"}
  BY DEF TypeInv, TypeOK, StartFollowed, LinkFollowed, StationComesBack, Waits, EventKinds
<1>1. StationComesBack' <=>
        (mpc' \in {"web", "run"} /\ link' = "off" /\ stored' # NoSsid =>
           Waits("DISCONNECTED")' \/ hpc' \in {"disconnect", "connect"})
  BY DEF StationComesBack, Waits
<1>2. CASE /\ UNCHANGED <<link, stored, events>> /\ mpc' \in {mpc, "run"}
           /\ hpc \in {"disconnect", "connect"} => hpc' \in {"disconnect", "connect"}
           /\ mpc' # mpc => mpc = "web"
  BY <1>0, <1>1, <1>2 DEF Waits
<1>3. CASE CreateStation \/ TryConnect
  <2>1. WifiConnect /\ stored' = stored
    BY <1>3 DEF CreateStation, TryConnect
  <2> QED
    BY <1>1, <2>1, Connecting
<1>4. CASE TrySetConfig \/ TryDisconnect
  <2>1. hpc' \in {"disconnect", "connect"}
    BY <1>4 DEF TrySetConfig, TryDisconnect
  <2> QED
    BY <1>1, <2>1
<1>5. CASE ApplyWithoutSsid \/ LinkDown
  <2>1. /\ WifiDisconnect /\ Len(events) < MaxEvents /\ stored' = stored /\ mpc' = mpc
        /\ hpc' = hpc \/ (hpc = "scan" /\ hpc' = "idle")
    BY <1>5 DEF ApplyWithoutSsid, LinkDown, Driver
  <2>2. Waits("DISCONNECTED") => Waits("DISCONNECTED")'
    BY <2>1, Disconnecting DEF Waits
  <2>3. link # "off" => Waits("DISCONNECTED")'
    BY <2>1, Disconnecting DEF Waits
  <2> QED
    BY <1>0, <1>1, <2>1, <2>2, <2>3
<1>6. CASE Associate \/ Acquire
  <2>1. link' # "off"
    BY <1>6 DEF Associate, Acquire, Driver
  <2> QED
    BY <1>1, <2>1
<1>7. CASE StaConnected \/ GotIpFlag
  <2>1. /\ Handled /\ events # <<>> /\ Head(events).type # "DISCONNECTED"
        /\ UNCHANGED <<link, stored, mpc, hpc>>
    BY <1>0, <1>7 DEF StaConnected, GotIpFlag, Event0
  <2>2. Waits("DISCONNECTED") => Waits("DISCONNECTED")'
    BY <1>0, <2>1, HandledFirst DEF Waits
  <2> QED
    BY <1>0, <1>1, <2>1, <2>2
<1>8. CASE StaDisconnected
  <2>1. WifiConnect /\ stored' = stored
    BY <1>8 DEF StaDisconnected
  <2> QED
    BY <1>1, <2>1, Connecting
<1>9. CASE CreateSoftap \/ Reboot
  <2>1. mpc' \in {"softap", "station"}
    BY <1>9 DEF CreateSoftap, Reboot
  <2> QED
    BY <1>1, <2>1
<1>10. CASE UNCHANGED vars \/ StartWebServer \/ ConfigPost \/ ConfigGet \/ AcceptResult
            \/ ClearFlag \/ ApplyStatus \/ CreateTimer \/ StartTimer
            \/ ConfigGetMessage \/ TimerTask \/ GotIpConflict
  BY <1>2, <1>10
     DEF vars, StartWebServer, ConfigPost, ConfigGet, AcceptResult, ClearFlag,
         ApplyStatus, CreateTimer, StartTimer, ConfigGetMessage, TimerTask, Poll,
         FinishPoll, PublishStatus, StopTimer, DeleteTimer, GotIpConflict
<1> QED
  BY <1>3, <1>4, <1>5, <1>6, <1>7, <1>8, <1>9, <1>10
     DEF Next, AppMain, HttpdStep, EventTask, WifiDriver

(* An address that has been announced, and not yet been compared.          *)
Announced == \E i \in DOMAIN events : events[i].type = "GOT_IP" /\ (epc = "web" => i # 1)

(* No step makes a conflict of networks that no event announces.           *)
LEMMA ConflictNext ==
    ASSUME TypeInv, ConflictKnown, [Next]_vars
    PROVE  ConflictKnown'
<1> USE DEF netifVars, driverVars, eventVars, pollVars, timerVars, httpVars, heardVars,
            Step
<1>0. /\ events \in Seq(EventKinds) /\ StartFollowed
      /\ epc = "web" => events # <<>>
      /\ ip["softap"] # NoAddress /\ ip["softap"] = ip["station"] => Announced
      /\ ip \in [Netifs -> Address] /\ NoAddress \notin Own
  BY DEF TypeInv, TypeOK, StartFollowed, LinkFollowed, ConflictKnown, Announced,
         EventKinds, NoAddress, Own, Lan
<1>1. ConflictKnown' <=>
        (ip'["softap"] # NoAddress /\ ip'["softap"] = ip'["station"] => Announced')
  BY DEF ConflictKnown, Announced
<1>2. CASE UNCHANGED <<ip, events, epc>>
  BY <1>0, <1>1, <1>2 DEF Announced
<1>3. CASE TryDisconnect \/ ApplyWithoutSsid \/ LinkDown
  <2>1. WifiDisconnect /\ Len(events) < MaxEvents /\ UNCHANGED <<ip, epc>>
    BY <1>3 DEF TryDisconnect, ApplyWithoutSsid, LinkDown, Driver
  <2>2. Announced => Announced'
    BY <2>1, Disconnecting DEF Announced
  <2> QED
    BY <1>0, <1>1, <2>1, <2>2
<1>4. CASE Associate
  <2>1. /\ link # "off" /\ Post(Event("CONNECTED")) /\ Len(events) < MaxEvents
        /\ UNCHANGED <<ip, epc>>
    BY <1>4 DEF Associate, Driver
  <2>2. Announced => Announced'
    BY <2>1, EventPosted DEF Announced
  <2> QED
    BY <1>0, <1>1, <2>1, <2>2
<1>5. CASE Acquire
  <2>1. /\ link # "off" /\ Post(Event("GOT_IP")) /\ Len(events) < MaxEvents /\ epc' = epc
    BY <1>5 DEF Acquire, Driver
  <2>2. Announced'
    BY <1>0, <2>1, EventPosted DEF Announced
  <2> QED
    BY <1>1, <2>2
<1>6. CASE StaConnected
  <2>1. /\ Handled /\ events # <<>> /\ Head(events).type # "GOT_IP"
        /\ epc = "idle" /\ UNCHANGED <<ip, epc>>
    BY <1>6 DEF StaConnected, Event0
  <2>2. Announced => Announced'
    BY <1>0, <2>1, HandledFirst DEF Announced
  <2> QED
    BY <1>0, <1>1, <2>1, <2>2
<1>7. CASE GotIpFlag
  <2>1. /\ Handled /\ events # <<>> /\ epc = "web" /\ epc' = "idle" /\ ip' = ip
    BY <1>0, <1>7 DEF GotIpFlag
  <2>2. Announced => Announced'
    BY <1>0, <2>1, HandledFirst DEF Announced
  <2> QED
    BY <1>0, <1>1, <2>1, <2>2
<1>8. CASE StaDisconnected
  <2>1. ip'["station"] = NoAddress
    BY <1>0, <1>8 DEF StaDisconnected, Netifs
  <2> QED
    BY <1>1, <2>1
<1>9. CASE GotIpConflict
  <2>1. /\ ConflictUpdate("station") /\ gateway_link = <<"softap", "station">>
    BY <1>0, <1>9 DEF GotIpConflict, StartFollowed, TypeInv, TypeOK
  <2> QED
    BY <1>0, <1>1, <2>1, ConflictResolved
<1>10. CASE CreateSoftap \/ Reboot
  <2>1. ip'["station"] = NoAddress
    BY <1>0, <1>10 DEF CreateSoftap, Reboot, StartFollowed, Netifs
  <2> QED
    BY <1>1, <2>1
<1>11. CASE UNCHANGED vars \/ CreateStation \/ StartWebServer \/ ConfigPost \/ ConfigGet
            \/ AcceptResult \/ ClearFlag \/ TrySetConfig \/ TryConnect \/ ApplyStatus
            \/ CreateTimer \/ StartTimer \/ ConfigGetMessage \/ TimerTask
  BY <1>2, <1>11
     DEF vars, CreateStation, StartWebServer, ConfigPost, ConfigGet, AcceptResult,
         ClearFlag, TrySetConfig, TryConnect, ApplyStatus, CreateTimer, StartTimer,
         ConfigGetMessage, TimerTask, Poll, FinishPoll, PublishStatus, StopTimer,
         DeleteTimer
<1> QED
  BY <1>3, <1>4, <1>5, <1>6, <1>7, <1>8, <1>9, <1>10, <1>11
     DEF Next, AppMain, HttpdStep, EventTask, WifiDriver

(***************************************************************************)
(* The theorems                                                            *)
(***************************************************************************)

(* The invariant holds when the gateway starts.                            *)
LEMMA ConfigInit == Init => ConfigInv
<1> SUFFICES ASSUME Init PROVE ConfigInv
  OBVIOUS
<1>1. TypeInv
  BY TypeInit
<1>2. TimerInv
  BY DEF Init, TimerInv
<1>3. ResultInv /\ AnswerInv /\ StationComesBack
  BY DEF Init, ResultInv, AnswerInv, StationComesBack
<1>4. ConflictKnown
  BY DEF Init, NetifInit, ConflictKnown, Netifs
<1> QED
  BY <1>1, <1>2, <1>3, <1>4 DEF ConfigInv

(* The invariant is inductive.                                             *)
LEMMA ConfigNext ==
    ASSUME ConfigInv, [Next]_vars
    PROVE  ConfigInv'
BY TypeNext, TimerNext, ResultNext, AnswerNext, StationNext, ConflictNext DEF ConfigInv

(* The invariant holds in every state, from which the theorems follow.     *)
LEMMA ConfigAlways == Spec => []ConfigInv
BY ConfigInit, ConfigNext, PTL DEF Spec

(* A callback that stops and deletes the timer named by the shared handle  *)
(* stops and deletes its own, however late it comes to that after the      *)
(* result is published and the next form accepted.                         *)
THEOREM TimerCorrect == Spec => []OwnTimerOnly
<1>1. ConfigInv => OwnTimerOnly
  BY DEF ConfigInv, TimerInv, OwnTimerOnly
<1> QED
  BY ConfigAlways, <1>1, PTL

(* A result OK rests on an address that the station got since the attempt  *)
(* began, whatever connections and attempts came before.                   *)
THEOREM ResultCorrect == Spec => []OkHasAddress
<1>1. ConfigInv => OkHasAddress
  BY DEF ConfigInv, ResultInv, OkHasAddress
<1> QED
  BY ConfigAlways, <1>1, PTL

(* A configured station that is down is about to be connected again, by    *)
(* the handler of the disconnection or by the attempt under way.           *)
THEOREM StationCorrect == Spec => []StationComesBack
<1>1. ConfigInv => StationComesBack
  BY DEF ConfigInv
<1> QED
  BY ConfigAlways, <1>1, PTL

(* When no event waits and none is being handled the softAP's network is   *)
(* not the router's.                                                       *)
THEOREM ApartCorrect == Spec => []SoftapApart
<1>1. ConfigInv => SoftapApart
  <2> SUFFICES ASSUME ConfigInv, events = <<>>, ip["softap"] # NoAddress,
                      ip["softap"] = ip["station"]
               PROVE  FALSE
    BY DEF SoftapApart
  <2>1. \E i \in DOMAIN events : events[i].type = "GOT_IP"
    BY DEF ConfigInv, ConflictKnown
  <2>2. DOMAIN events = {}
    OBVIOUS
  <2> QED
    BY <2>1, <2>2
<1> QED
  BY ConfigAlways, <1>1, PTL

(* Between two restarts no step takes the softAP out of its network but    *)
(* the resolution of a conflict with the router's.                         *)
THEOREM StaysCorrect == Spec => SoftapStays
<1> DEFINE Stays == ip["softap"] # NoAddress /\ ip'["softap"] \notin {ip["softap"], NoAddress}
                      => ip["softap"] = ip["station"]
<1>1. ASSUME ConfigInv, [Next]_vars PROVE Stays
  <2>0. /\ ip \in [Netifs -> Address]
        /\ mpc = "softap" => ip["softap"] = NoAddress
        /\ epc = "idle" /\ events # <<>> => gateway_link = <<"softap", "station">>
    BY <1>1 DEF ConfigInv, TypeInv, TypeOK, StartFollowed
  <2>1. CASE ip' = ip
    BY <2>1
  <2>2. CASE Reboot
    BY <2>2 DEF Reboot, Netifs
  <2>3. CASE CreateSoftap
    BY <2>0, <2>3 DEF CreateSoftap
  <2>4. CASE StaDisconnected
    BY <2>0, <2>4 DEF StaDisconnected, Netifs
  <2>5. CASE Acquire
    BY <2>0, <2>5 DEF Acquire, Driver, Netifs
  <2>6. CASE GotIpConflict
    BY <2>0, <2>6, ConflictResolved DEF GotIpConflict
  <2>7. CASE UNCHANGED vars \/ CreateStation \/ StartWebServer \/ StaConnected
             \/ GotIpFlag \/ Associate \/ LinkDown
    BY <2>1, <2>7
       DEF vars, netifVars, CreateStation, StartWebServer, StaConnected, GotIpFlag,
           Associate, LinkDown, Driver
  <2>8. CASE ConfigPost \/ ConfigGet \/ AcceptResult \/ HttpdStep \/ TimerTask
    BY <2>1, <2>8
       DEF netifVars, ConfigPost, ConfigGet, AcceptResult, HttpdStep, ClearFlag,
           TrySetConfig, TryDisconnect, TryConnect, ApplyStatus, CreateTimer,
           StartTimer, ApplyWithoutSsid, ConfigGetMessage, TimerTask, Poll,
           FinishPoll, PublishStatus, StopTimer, DeleteTimer
  <2> QED
    BY <1>1, <2>2, <2>3, <2>4, <2>5, <2>6, <2>7, <2>8
       DEF Next, AppMain, EventTask, WifiDriver
<1>2. ConfigInv /\ [Next]_vars => [Stays]_vars
  BY <1>1
<1> QED
  BY ConfigAlways, <1>2, PTL DEF Spec, SoftapStays

(* The two halves of an answer read the status at different times and      *)
(* still agree about a result.                                             *)
THEOREM AnswerCorrect == Spec => AnswerAgrees
<1> DEFINE Agrees == hpc = "get" /\ hpc' = "idle" /\ mpc' = "run" =>
                       /\ hstate = "1" => status = "CONNECT_OK"
                       /\ hstate = "2" => status = "CONNECT_FAIL"
<1>1. ConfigInv => Agrees
  BY DEF ConfigInv, AnswerInv
<1>2. ConfigInv /\ [Next]_vars => [Agrees]_vars
  BY <1>1
<1> QED
  BY ConfigAlways, <1>2, PTL DEF Spec, AnswerAgrees

(* An attempt that is CONNECTING has a timer that polls for it, or is about*)
(* to get one, or its result is about to be published: the callback of the *)
(* attempt before never takes its timer away.                              *)
THEOREM PollCorrect == Spec => []ConnectingIsPolled
<1>1. ConfigInv => ConnectingIsPolled
  BY DEF ConfigInv, TimerInv, ConnectingIsPolled
<1> QED
  BY ConfigAlways, <1>1, PTL
=============================================================================
