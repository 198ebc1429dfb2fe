---------------------------- MODULE SensorTasks ----------------------------
(***************************************************************************)
(* The application of a sensor node (main/app_main.c of the two sensors).  *)
(*                                                                         *)
(* At every IP_EVENT_STA_GOT_IP the wifi manager calls cb_connection_ok,   *)
(* which creates a queue, overwrites the global sensor_data_queue with it  *)
(* and starts one more gateway_client_task and one more sensor_task; those *)
(* of the earlier connection go on, and follow the global to the new queue *)
(* as soon as they read it again.                                          *)
(*                                                                         *)
(* A reading is a struct on the heap, known by the number of its           *)
(* allocation.  The queue passes its address, the client frees it.  The    *)
(* chip has two cores, so the tasks interleave at every access to a global *)
(* or to a reading.                                                        *)
(***************************************************************************)
EXTENDS Naturals, Sequences, SequencesExt

CONSTANTS
    QueueLength,   \* EVENT_QUEUE_LENGTH
    MaxReadings,   \* bound: readings the sensor tasks make
    MaxConnects    \* bound: IP_EVENT_STA_GOT_IP events

ASSUME QueueLengthAssumption == QueueLength \in Nat \ {0}
ASSUME MaxReadingsAssumption == MaxReadings \in Nat
ASSUME MaxConnectsAssumption == MaxConnects \in Nat \ {0}

NULL == 0
Readings == 1..MaxReadings
Connections == 1..MaxConnects   \* each starts a client and a sensor task

VARIABLES
    queue,      \* sensor_data_queue, NULL or an index of queues
    queues,     \* queues[q]: the readings waiting in queue q
    cbpc,       \* cb_connection_ok: its next step
    connects,   \* calls of cb_connection_ok so far
    spc,        \* sensor_task s: its next step
    squeue,     \* sensor_task s: the queue it sends to
    shas,       \* sensor_task s: the reading it made last
    cpc,        \* gateway_client_task c: its next step
    cqueue,     \* gateway_client_task c: the queue it receives from
    chas,       \* gateway_client_task c: the reading it received last
    made,       \* readings allocated so far
    freed,      \* readings given to free
    panicked,   \* has a task crashed on a freed reading or on NULL?
    dropped,    \* history: readings that found the queue full
    replaced,   \* history: readings in, or about to enter, a queue replaced
    posted,     \* history: readings handed to http_post_gateway
    delivered   \* history: readings the gateway received, in order

queueVars == <<queue, queues>>
callbackVars == <<cbpc, connects, replaced>>
sensorVars == <<spc, squeue, shas, made, dropped>>
clientVars == <<cpc, cqueue, chas, freed, posted, delivered>>
vars == <<queueVars, callbackVars, sensorVars, clientVars, panicked>>

Init ==
    /\ queue = NULL /\ queues = <<>>
    /\ cbpc = "idle" /\ connects = 0
    /\ spc = [s \in Connections |-> "off"]
    /\ squeue = [s \in Connections |-> NULL]
    /\ shas = [s \in Connections |-> NULL]
    /\ cpc = [c \in Connections |-> "off"]
    /\ cqueue = [c \in Connections |-> NULL]
    /\ chas = [c \in Connections |-> NULL]
    /\ made = 0 /\ freed = {} /\ panicked = FALSE
    /\ dropped = {} /\ replaced = {} /\ posted = {} /\ delivered = <<>>

-----------------------------------------------------------------------------
(* cb_connection_ok, run by the wifi manager task.                         *)

(* The readings in the current queue, and those on their way into a queue. *)
InUse == IF queue = NULL THEN {} ELSE ToSet(queues[queue])
Sending == {shas[s] : s \in {s \in Connections : spc[s] = "send"}}

(* Mutant: the handle of the new queue is not stored.                      *)
CreateQueueHandleLost ==
    /\ cbpc = "idle" /\ connects < MaxConnects
    /\ connects' = connects + 1
    /\ queues' = Append(queues, <<>>)
    /\ cbpc' = "client"
    /\ UNCHANGED <<queue, replaced, sensorVars, clientVars>>

(* sensor_data_queue = xQueueCreate(EVENT_QUEUE_LENGTH, ...).  The queue   *)
(* it replaces is not deleted, nor are the readings in it.                 *)
CreateQueue ==
    /\ cbpc = "idle" /\ connects < MaxConnects
    /\ connects' = connects + 1
    /\ queues' = Append(queues, <<>>)
    /\ queue' = Len(queues) + 1
    /\ replaced' = replaced \cup InUse \cup Sending
    /\ cbpc' = "client"
    /\ UNCHANGED <<sensorVars, clientVars>>

(* xTaskCreate(&gateway_client_task, ...)                                  *)
StartClient ==
    /\ cbpc = "client"
    /\ cpc' = [cpc EXCEPT ![connects] = "load"]
    /\ cbpc' = "sensor"
    /\ UNCHANGED <<queueVars, connects, replaced, sensorVars, cqueue, chas,
                   freed, posted, delivered>>

(* xTaskCreate(&sensor_task, ...)                                          *)
StartSensor ==
    /\ cbpc = "sensor"
    /\ spc' = [spc EXCEPT ![connects] = "make"]
    /\ cbpc' = "idle"
    /\ UNCHANGED <<queueVars, connects, replaced, squeue, shas, made, dropped,
                   clientVars>>

-----------------------------------------------------------------------------
(* sensor_task s, once every ten seconds.                                  *)

(* malloc and simulate_rand_sensor                                         *)
MakeReading(s) ==
    /\ spc[s] = "make" /\ made < MaxReadings
    /\ made' = made + 1
    /\ shas' = [shas EXCEPT ![s] = made + 1]
    /\ spc' = [spc EXCEPT ![s] = "load"]
    /\ UNCHANGED <<queueVars, callbackVars, squeue, dropped, clientVars>>

(* The call xQueueSend(sensor_data_queue, ...) reads the handle.           *)
LoadQueueToSend(s) ==
    /\ spc[s] = "load"
    /\ squeue' = [squeue EXCEPT ![s] = queue]
    /\ spc' = [spc EXCEPT ![s] = "send"]
    /\ UNCHANGED <<queueVars, callbackVars, shas, made, dropped, clientVars>>

(* xQueueSend with no time to wait, its result ignored: when the queue is  *)
(* full nobody keeps the address.                                          *)
SendReading(s) ==
    /\ spc[s] = "send"
    /\ IF Len(queues[squeue[s]]) < QueueLength
       THEN /\ queues' = [queues EXCEPT ![squeue[s]] = Append(@, shas[s])]
            /\ UNCHANGED dropped
       ELSE /\ dropped' = dropped \cup {shas[s]}
            /\ UNCHANGED queues
    /\ spc' = [spc EXCEPT ![s] = "log"]
    /\ UNCHANGED <<queue, callbackVars, squeue, shas, made, clientVars>>

(* ESP_LOGI reads the reading that was sent, and vTaskDelay.               *)
LogReading(s) ==
    /\ spc[s] = "log"
    /\ spc' = [spc EXCEPT ![s] = "make"]
    /\ UNCHANGED <<queueVars, callbackVars, squeue, shas, made, dropped,
                   clientVars>>

-----------------------------------------------------------------------------
(* gateway_client_task c.                                                  *)

(* The call xQueueReceive(sensor_data_queue, ...) reads the handle.        *)
LoadQueue(c) ==
    /\ cpc[c] = "load"
    /\ cqueue' = [cqueue EXCEPT ![c] = queue]
    /\ cpc' = [cpc EXCEPT ![c] = "receive"]
    /\ UNCHANGED <<queueVars, callbackVars, sensorVars, chas, freed, posted,
                   delivered>>

(* Mutant: the message is left in the queue.                               *)
ReceiveReadingPeeking(c) ==
    /\ cpc[c] = "receive" /\ queues[cqueue[c]] # <<>>
    /\ chas' = [chas EXCEPT ![c] = Head(queues[cqueue[c]])]
    /\ cpc' = [cpc EXCEPT ![c] = "post"]
    /\ UNCHANGED <<queueVars, callbackVars, sensorVars, cqueue, freed,
                   posted, delivered>>

(* xQueueReceive with portMAX_DELAY.                                       *)
ReceiveReading(c) ==
    /\ cpc[c] = "receive" /\ queues[cqueue[c]] # <<>>
    /\ queues' = [queues EXCEPT ![cqueue[c]] = Tail(@)]
    /\ chas' = [chas EXCEPT ![c] = Head(queues[cqueue[c]])]
    /\ cpc' = [cpc EXCEPT ![c] = "post"]
    /\ UNCHANGED <<queue, callbackVars, sensorVars, cqueue, freed, posted,
                   delivered>>

(* Mutant: the request that is not answered is made again.                 *)
PostGatewayRetrying(c) ==
    /\ cpc[c] = "post"
    /\ posted' = posted \cup {chas[c]}
    /\ delivered' = Append(delivered, chas[c])
    /\ cpc' \in {cpc, [cpc EXCEPT ![c] = "free"]}
    /\ UNCHANGED <<queueVars, callbackVars, sensorVars, cqueue, chas, freed>>

(* The JSON object is made from the reading and http_post_gateway tries    *)
(* once; it may fail after the gateway took the request.                   *)
PostGateway(c) ==
    /\ cpc[c] = "post"
    /\ posted' = posted \cup {chas[c]}
    /\ delivered' \in {delivered, Append(delivered, chas[c])}
    /\ cpc' = [cpc EXCEPT ![c] = "free"]
    /\ UNCHANGED <<queueVars, callbackVars, sensorVars, cqueue, chas, freed>>

(* Mutant: the case leaves the loop instead of the switch.                 *)
FreeReadingLeaving(c) ==
    /\ cpc[c] = "free"
    /\ freed' = freed \cup {chas[c]}
    /\ chas' = [chas EXCEPT ![c] = NULL]
    /\ cpc' = [cpc EXCEPT ![c] = "off"]
    /\ UNCHANGED <<queueVars, callbackVars, sensorVars, cqueue, posted,
                   delivered>>

(* Mutant: the reading is not freed.                                       *)
FreeReadingForgotten(c) ==
    /\ cpc[c] = "free"
    /\ chas' = [chas EXCEPT ![c] = NULL]
    /\ cpc' = [cpc EXCEPT ![c] = "load"]
    /\ UNCHANGED <<queueVars, callbackVars, sensorVars, cqueue, freed, posted,
                   delivered>>

(* free(temp_hum_sensor_data), free(luminance_sensor_data)                 *)
FreeReading(c) ==
    /\ cpc[c] = "free"
    /\ freed' = freed \cup {chas[c]}
    /\ chas' = [chas EXCEPT ![c] = NULL]
    /\ cpc' = [cpc EXCEPT ![c] = "load"]
    /\ UNCHANGED <<queueVars, callbackVars, sensorVars, cqueue, posted,
                   delivered>>

-----------------------------------------------------------------------------
(* A crash restarts the node.  The client may have freed the reading       *)
(* before the sensor task logs it; the read of freed memory then yields    *)
(* anything or crashes.  When memory is short, malloc or cJSON_Print       *)
(* returns NULL, which is written through, or given to strlen.             *)
Panic ==
    /\ \/ \E s \in Connections : spc[s] = "log" /\ shas[s] \in freed
       \/ \E s \in Connections : spc[s] = "make"
       \/ \E c \in Connections : cpc[c] = "post"
    /\ panicked' = TRUE
    /\ UNCHANGED <<queueVars, callbackVars, sensorVars, clientVars>>

ConnectionOk == CreateQueue \/ StartClient \/ StartSensor
SensorTask(s) ==
    MakeReading(s) \/ LoadQueueToSend(s) \/ SendReading(s) \/ LogReading(s)
GatewayClientTask(c) ==
    LoadQueue(c) \/ ReceiveReading(c) \/ PostGateway(c) \/ FreeReading(c)

TaskStep ==
    /\ panicked' = panicked
    /\ \/ ConnectionOk
       \/ \E s \in Connections : SensorTask(s)
       \/ \E c \in Connections : GatewayClientTask(c)

Next ==
    /\ ~panicked
    /\ TaskStep \/ Panic

Spec == Init /\ [][Next]_vars

(* Tasks that are ready run: every task blocks or sleeps in its loop.  A   *)
(* new connection is up to the environment.                                *)
Fairness ==
    /\ WF_vars(~panicked /\ panicked' = panicked /\ (StartClient \/ StartSensor))
    /\ \A c \in Connections :
         WF_vars(~panicked /\ panicked' = panicked /\ GatewayClientTask(c))
    /\ \A s \in Connections :
         WF_vars(~panicked /\ panicked' = panicked /\ SensorTask(s))

FairSpec == Spec /\ Fairness

-----------------------------------------------------------------------------
(* Shape of the state.                                                     *)
TypeOK ==
    /\ queues \in Seq(Seq(Readings)) /\ queue = Len(queues)
    /\ \A q \in DOMAIN queues : Len(queues[q]) <= QueueLength
    /\ cbpc \in {"idle", "client", "sensor"} /\ connects \in 0..MaxConnects
    /\ spc \in [Connections -> {"off", "make", "load", "send", "log"}]
    /\ squeue \in [Connections -> 0..Len(queues)]
    /\ shas \in [Connections -> 0..made]
    /\ cpc \in [Connections -> {"off", "load", "receive", "post", "free"}]
    /\ cqueue \in [Connections -> 0..Len(queues)]
    /\ chas \in [Connections -> 0..made]
    /\ made \in 0..MaxReadings /\ panicked \in BOOLEAN
    /\ freed \subseteq 1..made /\ dropped \subseteq 1..made
    /\ replaced \subseteq 1..made
    /\ posted \subseteq 1..made /\ delivered \in Seq(Readings)

Waiting(q) == ToSet(queues[q])
InQueue(r) == \E q \in DOMAIN queues : r \in Waiting(q)
AtSensor(r) == \E s \in Connections : spc[s] \in {"load", "send"} /\ shas[s] = r
AtClient(r) == \E c \in Connections : chas[c] = r

(* A reading that waits in a queue or is with a client has not been freed, *)
(* whichever connections the tasks stem from: no client reads or frees     *)
(* memory that another one freed (FreeReading against the other clients).  *)
HeldIsLive == \A r \in freed : ~InQueue(r) /\ ~AtClient(r)

(* The only readings that leak are those that found the queue full, and    *)
(* those that were in a queue, or on their way into it, when a connection  *)
(* replaced it: nobody receives them there any more but a client that      *)
(* waits already.  Each other one is freed, or is with a task that will    *)
(* send or free it, or in the queue in use (cb_connection_ok against       *)
(* sensor_task and gateway_client_task).                                   *)
LeakOnlyFullOrReplaced ==
    \A r \in 1..made :
        \/ r \in freed \cup dropped \cup replaced \cup InUse
        \/ AtClient(r) \/ AtSensor(r)

(* The gateway never gets a reading twice, and never one that was dropped. *)
DeliveredOnce ==
    /\ IsInjective(delivered)
    /\ ToSet(delivered) \cap dropped = {}

(* The current queue has a client that will come to it, also after a new   *)
(* connection, when clients of the earlier ones may wait at their queues   *)
(* for good (cb_connection_ok, gateway_client_task).                       *)
QueueIsServed ==
    queue # NULL /\ cbpc # "client" =>
        \E c \in Connections :
            cpc[c] # "off" /\ (cpc[c] = "receive" => cqueue[c] = queue)

(* A reading in the current queue is posted, unless a new connection       *)
(* replaces the queue or a sensor task crashes.                            *)
QueuedIsPosted ==
    \A q \in Connections, r \in Readings :
        queue = q /\ r \in ToSet(queues[q])
            ~> r \in posted \/ queue # q \/ panicked
=============================================================================
