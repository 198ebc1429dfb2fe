--------------------------- MODULE GatewayBuffer ---------------------------
(***************************************************************************)
(* The aggregation buffer of the gateway (web_server.c, "Custom code").    *)
(*                                                                         *)
(* Three kinds of FreeRTOS tasks share the globals server_send_json,       *)
(* server_send_buffer and send_buffer_event_queue without any lock:        *)
(*   - the httpd task runs device_post_handler for every sensor request;   *)
(*   - one server_client_task per call of init_handlers flushes the buffer;*)
(*   - the event task runs init_handlers at every IP_EVENT_STA_GOT_IP.     *)
(* The chip has two cores, so the tasks interleave at every access to a    *)
(* global.  An action is one such access.                                  *)
(*                                                                         *)
(* A request is its number, in order of arrival; the reading it carries    *)
(* has the same number.  A cJSON tree is an index of heap; heap[o] are the *)
(* readings in its "data" array.  Every allocation yields a new index, so  *)
(* a freed tree can be told from a live one.  A task that touches a freed  *)
(* tree either goes on with what the memory still holds or panics.         *)
(***************************************************************************)
EXTENDS Naturals, Sequences, SequencesExt

CONSTANTS
    MaxBuffer,     \* MAX_SERVER_SEND_BUFFER_SIZE
    MaxRequests,   \* bound: requests the sensors make
    MaxInits,      \* bound: IP_EVENT_STA_GOT_IP events
    MaxFailures    \* bound: allocations of cJSON that fail

ASSUME MaxBufferAssumption == MaxBuffer \in Nat \ {0}
ASSUME MaxRequestsAssumption == MaxRequests \in Nat
ASSUME MaxInitsAssumption == MaxInits \in Nat \ {0}
ASSUME MaxFailuresAssumption == MaxFailures \in Nat

NULL == 0
Requests == 1..MaxRequests
Flushers == 1..MaxInits
Events == {"BUFFER_FULL", "BUFFER_NOT_FULL"}

VARIABLES
    json,        \* server_send_json, NULL or an index of heap
    buffer,      \* server_send_buffer, the array of that tree
    heap,        \* heap[o]: the readings in the array of tree o
    freed,       \* the trees given to cJSON_Delete
    roots,       \* what cJSON_Parse made of the bodies and nothing deleted
    queue,       \* send_buffer_event_queue, NULL or an index of slot
    slot,        \* slot[q]: the one event queue q can hold, or "none"
    registered,  \* is device_post_handler registered?
    hpc,         \* device_post_handler: its next step
    hitem,       \* device_post_handler: root, NULL if the body does not parse
    hevent,      \* device_post_handler: send_buffer_event
    requests,    \* requests received so far
    fpc,         \* server_client_task f: its next step
    fqueue,      \* server_client_task f: the queue it receives from
    fbuf,        \* server_client_task f: buf, the readings in the printed JSON
    ipc,         \* init_handlers: its next step
    inits,       \* calls of init_handlers so far
    panicked,    \* has a task crashed on freed memory?
    acked,       \* history: readings answered with 200
    posted,      \* history: readings handed to https_post_server
    delivered,   \* history: readings the server received, in order
    late,        \* history: readings added while a flush was replacing the tree
    stray,       \* history: roots added to the array of a tree deleted already
    failures,    \* allocations that failed so far
    nomem        \* history: readings lost because an allocation failed

handlerVars == <<hpc, hitem, hevent, requests>>
flusherVars == <<fpc, fqueue, fbuf>>
initVars == <<ipc, inits, registered>>
treeVars == <<json, buffer, heap, freed, failures>>
rootVars == <<roots, stray>>
queueVars == <<queue, slot>>
historyVars == <<acked, posted, delivered, late, nomem>>
vars == <<handlerVars, flusherVars, initVars, treeVars, rootVars, queueVars,
          historyVars, panicked>>

(* A flush replaces the tree from the return of cJSON_Print to the         *)
(* assignment of server_send_buffer.                                       *)
Replacing(f) == fpc[f] \in {"delete", "create", "attach"}

Init ==
    /\ json = NULL /\ buffer = NULL /\ heap = <<>> /\ freed = {}
    /\ roots = {} /\ stray = {}
    /\ queue = NULL /\ slot = <<>> /\ registered = FALSE
    /\ hpc = "idle" /\ hitem = NULL /\ hevent = "BUFFER_NOT_FULL" /\ requests = 0
    /\ fpc = [f \in Flushers |-> "off"]
    /\ fqueue = [f \in Flushers |-> NULL]
    /\ fbuf = [f \in Flushers |-> <<>>]
    /\ ipc = "idle" /\ inits = 0
    /\ panicked = FALSE
    /\ acked = {} /\ posted = {} /\ delivered = <<>>
    /\ late = {} /\ failures = 0 /\ nomem = {}

(* The readings in the array of a tree.                                    *)
Array(o) == IF o = NULL THEN <<>> ELSE heap[o]

-----------------------------------------------------------------------------
(* cJSON.                                                                  *)

OutOfMemory ==
    /\ failures < MaxFailures
    /\ failures' = failures + 1

(* server_send_json = cJSON_CreateObject()                                 *)
Create ==
    \/ /\ heap' = Append(heap, <<>>)
       /\ json' = Len(heap) + 1
       /\ UNCHANGED failures
    \/ /\ OutOfMemory
       /\ json' = NULL
       /\ UNCHANGED heap

(* server_send_buffer = cJSON_AddArrayToObject(server_send_json, "data"),  *)
(* NULL if the object is NULL.                                             *)
Attach ==
    \/ buffer' = json /\ UNCHANGED failures
    \/ OutOfMemory /\ buffer' = NULL

-----------------------------------------------------------------------------
(* init_handlers, run by the event task at every got-ip event.             *)

(* Mutant: a re-initialisation that frees the tree it replaces.            *)
InitCreateJsonFreeingOld ==
    /\ ipc = "idle" /\ inits < MaxInits
    /\ Create
    /\ freed' = freed \cup ({json} \ {NULL})
    /\ inits' = inits + 1
    /\ ipc' = "array"
    /\ UNCHANGED <<handlerVars, flusherVars, registered, buffer, rootVars,
                   queueVars, historyVars>>

InitCreateJson ==
    /\ ipc = "idle" /\ inits < MaxInits
    /\ Create
    /\ inits' = inits + 1
    /\ ipc' = "array"
    /\ UNCHANGED <<handlerVars, flusherVars, registered, buffer, freed,
                   rootVars, queueVars, historyVars>>

InitAddArray ==
    /\ ipc = "array"
    /\ Attach
    /\ ipc' = "queue"
    /\ UNCHANGED <<handlerVars, flusherVars, inits, registered, json, heap,
                   freed, rootVars, queueVars, historyVars>>

(* Mutant: the handle of the new queue is not stored.                      *)
InitCreateQueueHandleLost ==
    /\ ipc = "queue"
    /\ slot' = Append(slot, "none")
    /\ ipc' = "task"
    /\ UNCHANGED <<handlerVars, flusherVars, inits, registered, treeVars,
                   rootVars, queue, historyVars>>

(* send_buffer_event_queue = xQueueCreate(1, ...)                          *)
InitCreateQueue ==
    /\ ipc = "queue"
    /\ slot' = Append(slot, "none")
    /\ queue' = Len(slot) + 1
    /\ ipc' = "task"
    /\ UNCHANGED <<handlerVars, flusherVars, inits, registered, treeVars,
                   rootVars, historyVars>>

(* xTaskCreate(&server_client_task), then httpd_register_uri_handler, whose*)
(* failure on an already registered URI is only logged.                    *)
InitStartTask ==
    /\ ipc = "task"
    /\ fpc' = [fpc EXCEPT ![inits] = "load"]
    /\ registered' = TRUE
    /\ ipc' = "idle"
    /\ UNCHANGED <<handlerVars, fqueue, fbuf, inits, treeVars, rootVars,
                   queueVars, historyVars>>

-----------------------------------------------------------------------------
(* device_post_handler, run by the httpd task for one request at a time.   *)

(* httpd_req_recv fails: the request ends without an answer of 200.        *)
RecvFails ==
    /\ registered /\ hpc = "idle" /\ requests < MaxRequests
    /\ requests' = requests + 1
    /\ UNCHANGED <<hpc, hitem, hevent, flusherVars, initVars, treeVars,
                   rootVars, queueVars, historyVars>>

(* httpd_req_recv and cJSON_Parse; a body that does not parse is NULL.     *)
RecvAndParse ==
    /\ registered /\ hpc = "idle" /\ requests < MaxRequests
    /\ requests' = requests + 1
    /\ hitem' \in {requests + 1, NULL}
    /\ roots' = roots \cup ({hitem'} \ {NULL})
    /\ hpc' = "check"
    /\ UNCHANGED <<hevent, flusherVars, initVars, treeVars, stray, queueVars,
                   historyVars>>

(* The test server_send_buffer != NULL.  The tree of a reading that is not *)
(* buffered is not deleted.                                                *)
CheckBuffer ==
    /\ hpc = "check"
    /\ hpc' = IF buffer = NULL THEN "respond" ELSE "add"
    /\ nomem' = IF buffer = NULL THEN nomem \cup ({hitem} \ {NULL}) ELSE nomem
    /\ UNCHANGED <<hitem, hevent, requests, flusherVars, initVars, treeVars,
                   rootVars, queueVars, acked, posted, delivered, late>>

(* cJSON_AddItemToArray(server_send_buffer, root): the global is read once *)
(* more, and a NULL array or root is ignored.  An array of a deleted tree  *)
(* takes the root, but nothing will delete it there.                       *)
AddItemToArray ==
    /\ hpc = "add"
    /\ hpc' = "size"
    /\ heap' = IF buffer = NULL \/ hitem = NULL THEN heap
               ELSE [heap EXCEPT ![buffer] = Append(@, hitem)]
    /\ late' = IF \E f \in Flushers : Replacing(f)
               THEN late \cup ({hitem} \ {NULL}) ELSE late
    /\ stray' = IF \E f \in Flushers : fpc[f] \in {"create", "attach"}
                THEN stray \cup ({hitem} \ {NULL}) ELSE stray
    /\ nomem' = IF buffer = NULL THEN nomem \cup ({hitem} \ {NULL}) ELSE nomem
    /\ UNCHANGED <<hitem, hevent, requests, flusherVars, initVars, json,
                   buffer, freed, failures, roots, queueVars, acked, posted,
                   delivered>>

(* cJSON_GetArraySize(server_send_buffer) >= MAX_SERVER_SEND_BUFFER_SIZE:  *)
(* the global is read again, and the size of a freed array is anything.    *)
ChooseEvent ==
    /\ hpc = "size"
    /\ hevent' \in
         IF buffer \in freed THEN Events
         ELSE IF Len(Array(buffer)) >= MaxBuffer THEN {"BUFFER_FULL"}
         ELSE {"BUFFER_NOT_FULL"}
    /\ hpc' = "send"
    /\ UNCHANGED <<hitem, requests, flusherVars, initVars, treeVars, rootVars,
                   queueVars, historyVars>>

(* xQueueSend(send_buffer_event_queue, ..., 0): dropped if the queue of    *)
(* length 1 is full.                                                       *)
SendEvent ==
    /\ hpc = "send"
    /\ slot' = IF slot[queue] = "none" THEN [slot EXCEPT ![queue] = hevent]
               ELSE slot
    /\ hpc' = "respond"
    /\ UNCHANGED <<hitem, hevent, requests, flusherVars, initVars, treeVars,
                   rootVars, queue, historyVars>>

(* httpd_resp_send, whatever became of the reading.                        *)
Respond ==
    /\ hpc = "respond"
    /\ acked' = IF hitem = NULL THEN acked ELSE acked \cup {hitem}
    /\ hitem' = NULL
    /\ hpc' = "idle"
    /\ UNCHANGED <<hevent, requests, flusherVars, initVars, treeVars, rootVars,
                   queueVars, posted, delivered, late, nomem>>

-----------------------------------------------------------------------------
(* server_client_task f.                                                   *)

(* The call xQueueReceive(send_buffer_event_queue, ...) reads the handle.  *)
LoadQueue(f) ==
    /\ fpc[f] = "load"
    /\ fqueue' = [fqueue EXCEPT ![f] = queue]
    /\ fpc' = [fpc EXCEPT ![f] = "receive"]
    /\ UNCHANGED <<handlerVars, fbuf, initVars, treeVars, rootVars, queueVars,
                   historyVars>>

(* Mutant: the default case leaves the loop instead of the switch.         *)
ReceiveEventLeaving(f) ==
    /\ fpc[f] = "receive" /\ slot[fqueue[f]] # "none"
    /\ fpc' = [fpc EXCEPT ![f] =
                 IF slot[fqueue[f]] = "BUFFER_FULL" /\ json # NULL
                 THEN "print" ELSE "off"]
    /\ slot' = [slot EXCEPT ![fqueue[f]] = "none"]
    /\ UNCHANGED <<handlerVars, fqueue, fbuf, initVars, treeVars, rootVars,
                   queue, historyVars>>

(* xQueueReceive with portMAX_DELAY, the switch on the event and the test  *)
(* of server_send_json.                                                    *)
ReceiveEvent(f) ==
    /\ fpc[f] = "receive" /\ slot[fqueue[f]] # "none"
    /\ fpc' = [fpc EXCEPT ![f] =
                 IF slot[fqueue[f]] = "BUFFER_FULL" /\ json # NULL
                 THEN "print" ELSE "load"]
    /\ slot' = [slot EXCEPT ![fqueue[f]] = "none"]
    /\ UNCHANGED <<handlerVars, fqueue, fbuf, initVars, treeVars, rootVars,
                   queue, historyVars>>

(* buf = cJSON_Print(server_send_json)                                     *)
PrintJson(f) ==
    /\ fpc[f] = "print"
    /\ fbuf' = [fbuf EXCEPT ![f] = Array(json)]
    /\ fpc' = [fpc EXCEPT ![f] = "delete"]
    /\ UNCHANGED <<handlerVars, fqueue, initVars, treeVars, rootVars,
                   queueVars, historyVars>>

(* cJSON_Print returns NULL (out of memory); the tree is deleted all the   *)
(* same and nothing is posted.                                             *)
PrintFails(f) ==
    /\ fpc[f] = "print" /\ OutOfMemory
    /\ fbuf' = [fbuf EXCEPT ![f] = <<>>]
    /\ nomem' = nomem \cup ToSet(Array(json))
    /\ fpc' = [fpc EXCEPT ![f] = "delete"]
    /\ UNCHANGED <<handlerVars, fqueue, initVars, json, buffer, heap, freed,
                   rootVars, queueVars, acked, posted, delivered, late>>

(* Mutant: the printed tree is not deleted.                                *)
DeleteJsonForgotten(f) ==
    /\ fpc[f] = "delete"
    /\ fpc' = [fpc EXCEPT ![f] = "create"]
    /\ UNCHANGED <<handlerVars, fqueue, fbuf, initVars, treeVars, rootVars,
                   queueVars, historyVars>>

(* cJSON_Delete(server_send_json), which ignores NULL, and deletes what is *)
(* in the array by then along with it.                                     *)
DeleteJson(f) ==
    /\ fpc[f] = "delete"
    /\ freed' = freed \cup ({json} \ {NULL})
    /\ roots' = roots \ ToSet(Array(json))
    /\ fpc' = [fpc EXCEPT ![f] = "create"]
    /\ UNCHANGED <<handlerVars, fqueue, fbuf, initVars, json, buffer, heap,
                   failures, stray, queueVars, historyVars>>

CreateJson(f) ==
    /\ fpc[f] = "create"
    /\ Create
    /\ fpc' = [fpc EXCEPT ![f] = "attach"]
    /\ UNCHANGED <<handlerVars, fqueue, fbuf, initVars, buffer, freed,
                   rootVars, queueVars, historyVars>>

(* Mutant: the flush leaves server_send_buffer alone.                      *)
AttachBufferForgotten(f) ==
    /\ fpc[f] = "attach"
    /\ fpc' = [fpc EXCEPT ![f] = "post"]
    /\ UNCHANGED <<handlerVars, fqueue, fbuf, initVars, treeVars, rootVars,
                   queueVars, historyVars>>

AttachBuffer(f) ==
    /\ fpc[f] = "attach"
    /\ Attach
    /\ fpc' = [fpc EXCEPT ![f] = "post"]
    /\ UNCHANGED <<handlerVars, fqueue, fbuf, initVars, json, heap, freed,
                   rootVars, queueVars, historyVars>>

(* Mutant: a post that is not answered is made again.                      *)
PostServerRetrying(f) ==
    /\ fpc[f] = "post"
    /\ posted' = posted \cup ToSet(fbuf[f])
    /\ \/ /\ fbuf' = [fbuf EXCEPT ![f] = <<>>]
          /\ fpc' = [fpc EXCEPT ![f] = "load"]
          /\ delivered' = delivered \o fbuf[f]
       \/ /\ Len(delivered) < MaxRequests
          /\ delivered' = delivered \o fbuf[f]
          /\ UNCHANGED <<fbuf, fpc>>
    /\ UNCHANGED <<handlerVars, fqueue, initVars, treeVars, rootVars,
                   queueVars, acked, late, nomem>>

(* https_post_server(buf): one attempt, its error is only logged.  It may  *)
(* fail after the server has taken the request.                            *)
PostServer(f) ==
    /\ fpc[f] = "post"
    /\ posted' = posted \cup ToSet(fbuf[f])
    /\ delivered' \in {delivered, delivered \o fbuf[f]}
    /\ fbuf' = [fbuf EXCEPT ![f] = <<>>]
    /\ fpc' = [fpc EXCEPT ![f] = "load"]
    /\ UNCHANGED <<handlerVars, fqueue, initVars, treeVars, rootVars,
                   queueVars, acked, late, nomem>>

-----------------------------------------------------------------------------
(* A task about to dereference a freed tree.                               *)
DeadAccess ==
    \/ /\ (hpc = "add" /\ hitem # NULL) \/ hpc = "size"
       /\ buffer \in freed
    \/ ipc = "array" /\ json \in freed
    \/ \E f \in Flushers : fpc[f] \in {"print", "delete", "attach"} /\ json \in freed

(* ... may find its links overwritten and panic; the chip reboots.         *)
Panic ==
    /\ DeadAccess
    /\ panicked' = TRUE
    /\ UNCHANGED <<handlerVars, flusherVars, initVars, treeVars, rootVars,
                   queueVars, historyVars>>

InitHandlers ==
    InitCreateJson \/ InitAddArray \/ InitCreateQueue \/ InitStartTask

DevicePostHandler ==
    CheckBuffer \/ AddItemToArray \/ ChooseEvent \/ SendEvent \/ Respond

ServerClientTask(f) ==
    \/ LoadQueue(f) \/ ReceiveEvent(f) \/ PrintJson(f) \/ PrintFails(f)
    \/ DeleteJson(f) \/ CreateJson(f) \/ AttachBuffer(f) \/ PostServer(f)

TaskStep ==
    /\ panicked' = panicked
    /\ \/ InitHandlers
       \/ RecvFails \/ RecvAndParse
       \/ DevicePostHandler
       \/ \E f \in Flushers : ServerClientTask(f)

Next ==
    /\ ~panicked
    /\ TaskStep \/ Panic

Spec == Init /\ [][Next]_vars

(* Every task that is ready runs eventually: the tasks of higher priority  *)
(* block on the network, and there are two cores.  Nothing makes a sensor  *)
(* send another request, or the router another address.                    *)
Fairness ==
    /\ WF_vars(/\ ~panicked /\ panicked' = panicked
               /\ InitAddArray \/ InitCreateQueue \/ InitStartTask)
    /\ WF_vars(~panicked /\ panicked' = panicked /\ DevicePostHandler)
    /\ \A f \in Flushers :
         WF_vars(~panicked /\ panicked' = panicked /\ ServerClientTask(f))

FairSpec == Spec /\ Fairness

-----------------------------------------------------------------------------
Trees == 1..Len(heap)

(* Shape of the state.                                                     *)
TypeOK ==
    /\ heap \in Seq(Seq(Requests))
    /\ json \in {NULL} \cup Trees /\ buffer \in {NULL} \cup Trees
    /\ freed \subseteq Trees
    /\ roots \subseteq Requests /\ stray \subseteq Requests
    /\ slot \in Seq(Events \cup {"none"})
    /\ queue = Len(slot)
    /\ registered \in BOOLEAN /\ panicked \in BOOLEAN
    /\ hpc \in {"idle", "check", "add", "size", "send", "respond"}
    /\ hitem \in {NULL} \cup Requests
    /\ hevent \in Events
    /\ requests \in 0..MaxRequests
    /\ fpc \in [Flushers -> {"off", "load", "receive", "print", "delete",
                             "create", "attach", "post"}]
    /\ fqueue \in [Flushers -> 0..Len(slot)]
    /\ fbuf \in [Flushers -> Seq(Requests)]
    /\ ipc \in {"idle", "array", "queue", "task"}
    /\ inits \in 0..MaxInits
    /\ acked \subseteq Requests /\ posted \subseteq Requests
    /\ delivered \in Seq(Requests)
    /\ late \subseteq Requests /\ nomem \subseteq Requests
    /\ failures \in 0..MaxFailures

InFlight(r) == \E f \in Flushers : r \in ToSet(fbuf[f])
Held(r) == \E o \in Trees \ freed : r \in ToSet(heap[o])
Handed(r) == hpc \in {"check", "add"} /\ hitem = r

(* No reading that a sensor got its 200 for vanishes: it sits in a tree    *)
(* that is not freed, or in a printed buffer, or was handed to             *)
(* https_post_server, unless it was added while a flush was replacing the  *)
(* tree, or lost to a failed allocation (device_post_handler against       *)
(* server_client_task and init_handlers).                                  *)
AccountedFor ==
    \A r \in acked :
        r \in late \cup nomem \cup posted \/ InFlight(r) \/ Held(r)

(* server_send_buffer points to freed memory only between a flush's        *)
(* cJSON_Delete and its assignment of the new array, also when several     *)
(* server_client_tasks and a second init_handlers interleave.              *)
DanglingOnlyWhileReplacing ==
    buffer \in freed => \E f \in Flushers : fpc[f] \in {"create", "attach"}

(* The queue that gets the events has a flusher that will come to it, also *)
(* after another init_handlers, when flushers of the earlier ones may wait *)
(* at queues that get no event any more (server_client_task).              *)
QueueIsServed ==
    queue # NULL /\ ipc # "task" =>
        \E f \in Flushers :
            fpc[f] # "off" /\ (fpc[f] = "receive" => fqueue[f] = queue)

(* With one call of init_handlers the flush leaks no tree of its own.  Of  *)
(* the trees that cJSON_Parse made for the handler, those leak that were   *)
(* added to an array after its cJSON_Delete and before the next array was  *)
(* in place, and those for which there was no array after an allocation    *)
(* had failed; every other one is in the handler's hand or in a tree that  *)
(* a flush will delete (device_post_handler against server_client_task).   *)
OnlyStrayRootsLeak ==
    /\ Trees \ freed \subseteq {json}
    /\ \A r \in roots : Handed(r) \/ Held(r) \/ r \in stray \cup nomem
    /\ nomem # {} => failures > 0

(* With one call of init_handlers the server gets the readings in the      *)
(* order the gateway received them, and none of them twice.                *)
DeliveredInOrder ==
    \A i, j \in 1..Len(delivered) : i < j => delivered[i] < delivered[j]

(* With one call of init_handlers the tasks, the two trees and the event   *)
(* queue together are a relay that keeps the order of the readings and     *)
(* delivers none twice (device_post_handler, server_client_task,           *)
(* https_post_server).  Pending are the readings that the handler is about *)
(* to add, that sit in a tree, or that a flusher has printed.              *)
Pending ==
    {r \in Requests : Held(r) \/ InFlight(r) \/ Handed(r)}

Relayed == INSTANCE Relay WITH arrived <- requests, pending <- Pending

ImplementsRelay == Relayed!Spec

(* A BUFFER_FULL event that made it into the queue empties the buffer: all *)
(* that is in the buffer is posted, or lost to a failed allocation or to a *)
(* flush that was replacing the tree.                                      *)
FullEventFlushes ==
    \A r \in Requests :
        (/\ queue # NULL /\ slot[queue] = "BUFFER_FULL"
         /\ r \in ToSet(Array(json)))
        ~> (r \in posted \cup nomem \cup late \/ panicked)

(* README.md: server_client_task "empties out the buffer and flushes the   *)
(* JSON array to the server": what leaves the buffer has been printed      *)
(* (cJSON_Print, cJSON_Delete against cJSON_AddItemToArray).               *)
EmptiedIsFlushed ==
    \A r \in acked \ nomem : r \in posted \/ InFlight(r) \/ Held(r)
=============================================================================
