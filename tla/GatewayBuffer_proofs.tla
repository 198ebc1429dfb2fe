----------------------- MODULE GatewayBuffer_proofs -----------------------
(***************************************************************************)
(* Proofs about GatewayBuffer, for every buffer size and any number of     *)
(* requests, got-ip events and failed allocations: type correctness, that  *)
(* server_send_buffer dangles only while a flush replaces the tree, and    *)
(* that no acknowledged reading vanishes otherwise.                        *)
(***************************************************************************)
EXTENDS GatewayBuffer, SequenceFacts

(***************************************************************************)
(* Type correctness                                                        *)
(***************************************************************************)

USE MaxBufferAssumption, MaxRequestsAssumption, MaxInitsAssumption,
    MaxFailuresAssumption
USE DEF NULL, Requests, Flushers, Events

(* What cJSON finds in a tree, or in none, is a list of readings.          *)
LEMMA ArrayType ==
    ASSUME TypeOK, NEW o \in {NULL} \cup Trees
    PROVE  Array(o) \in Seq(Requests)
<1>1. CASE o = NULL
  BY <1>1, EmptySeq DEF Array
<1>2. CASE o # NULL
  <2>1. o \in 1..Len(heap) /\ heap \in Seq(Seq(Requests))
    BY <1>2 DEF TypeOK, Trees
  <2>2. heap[o] \in Seq(Requests)
    BY <2>1, ElementOfSeq
  <2> QED
    BY <1>2, <2>2 DEF Array
<1> QED
  BY <1>1, <1>2

(* cJSON_CreateObject yields a tree that is new, or NULL.                  *)
LEMMA CreateTree ==
    ASSUME TypeOK, Create
    PROVE  /\ heap' \in Seq(Seq(Requests))
           /\ Trees \subseteq Trees'
           /\ \A o \in Trees : heap'[o] = heap[o]
           /\ json' \in {NULL} \cup Trees'
           /\ json' \notin Trees
           /\ Array(json)' = <<>>
           /\ failures' \in 0..MaxFailures
<1> DEFINE n == Len(heap) + 1
<1>1. heap \in Seq(Seq(Requests)) /\ Len(heap) \in Nat /\ <<>> \in Seq(Requests)
  BY DEF TypeOK
<1>2. CASE heap' = Append(heap, <<>>) /\ json' = n /\ UNCHANGED failures
  <2>1. /\ heap' \in Seq(Seq(Requests)) /\ Len(heap') = n /\ heap'[n] = <<>>
        /\ \A o \in 1..Len(heap) : heap'[o] = heap[o]
    BY <1>1, <1>2, AppendElements
  <2> QED
    BY <1>1, <1>2, <2>1 DEF TypeOK, Trees, Array
<1>3. CASE OutOfMemory /\ json' = NULL /\ UNCHANGED heap
  BY <1>1, <1>3 DEF TypeOK, Trees, Array, OutOfMemory
<1> QED
  BY <1>2, <1>3 DEF Create

(* An array is attached, or an allocation has failed.                      *)
LEMMA AttachType ==
    ASSUME TypeOK, Attach
    PROVE  /\ buffer' \in {NULL, json}
           /\ failures' \in 0..MaxFailures
BY DEF Attach, OutOfMemory, TypeOK

(* The types hold when the gateway starts.                                 *)
LEMMA TypeInit == Init => TypeOK
<1> SUFFICES ASSUME Init PROVE TypeOK
  OBVIOUS
<1>1. /\ heap \in Seq(Seq(Requests)) /\ Len(slot) = 0
      /\ slot \in Seq(Events \cup {"none"})
      /\ delivered \in Seq(Requests) /\ <<>> \in Seq(Requests)
  BY EmptySeq DEF Init
<1>2. fbuf \in [Flushers -> Seq(Requests)]
  BY <1>1 DEF Init
<1>3. fqueue \in [Flushers -> 0..Len(slot)]
  BY <1>1 DEF Init
<1>4. /\ fpc \in [Flushers -> {"off", "load", "receive", "print", "delete",
                             "create", "attach", "post"}]
      /\ requests \in 0..MaxRequests /\ inits \in 0..MaxInits
      /\ failures \in 0..MaxFailures /\ queue = Len(slot)
  BY <1>1 DEF Init
<1>5. /\ json = NULL /\ buffer = NULL /\ freed = {} /\ hitem = NULL
      /\ roots = {} /\ stray = {}
      /\ registered = FALSE /\ panicked = FALSE /\ hpc = "idle"
      /\ ipc = "idle" /\ hevent = "BUFFER_NOT_FULL"
      /\ acked = {} /\ posted = {} /\ late = {} /\ nomem = {}
  BY DEF Init
<1> QED
  BY <1>1, <1>2, <1>3, <1>4, <1>5 DEF TypeOK

(* The types are inductive.                                                *)
LEMMA TypeNext ==
    ASSUME TypeOK, [Next]_vars
    PROVE  TypeOK'
<1> USE DEF TypeOK, Trees, handlerVars, flusherVars, initVars, treeVars,
            rootVars, queueVars, historyVars
<1>1. CASE UNCHANGED vars
  BY <1>1, ZenonT(60) DEF vars
<1>2. CASE Panic
  BY <1>2, ZenonT(60) DEF Panic
<1>3. ASSUME panicked' = panicked, InitHandlers
      PROVE  TypeOK'
  <2>1. CASE InitCreateJson
    <3>1. inits' \in 0..MaxInits
      BY <2>1 DEF InitCreateJson
    <3> QED
      BY <1>3, <2>1, <3>1, CreateTree DEF InitCreateJson
  <2>2. CASE InitAddArray
    <3>1. buffer' \in {NULL} \cup Trees /\ failures' \in 0..MaxFailures
      BY <2>2, AttachType DEF InitAddArray
    <3> QED
      BY <1>3, <2>2, <3>1, SMTT(30) DEF InitAddArray
  <2>3. CASE InitCreateQueue
    BY <1>3, <2>3, SMTT(30) DEF InitCreateQueue
  <2>4. CASE InitStartTask
    BY <1>3, <2>4 DEF InitStartTask
  <2> QED
    BY <1>3, <2>1, <2>2, <2>3, <2>4 DEF InitHandlers
<1>4. ASSUME panicked' = panicked, RecvFails \/ RecvAndParse
      PROVE  TypeOK'
  <2>1. requests' \in 0..MaxRequests /\ hitem' \in {NULL} \cup Requests
    BY <1>4, SMTT(30) DEF RecvFails, RecvAndParse
  <2>2. roots' \subseteq Requests /\ stray' = stray
    BY <1>4, <2>1 DEF RecvFails, RecvAndParse
  <2> QED
    BY <1>4, <2>1, <2>2 DEF RecvFails, RecvAndParse
<1>5. ASSUME panicked' = panicked, DevicePostHandler
      PROVE  TypeOK'
  <2>1. CASE AddItemToArray
    <3>1. heap' \in Seq(Seq(Requests)) /\ Len(heap') = Len(heap)
      <4>1. CASE heap' = heap
        BY <4>1
      <4>2. CASE /\ buffer # NULL /\ hitem # NULL
                 /\ heap' = [heap EXCEPT ![buffer] = Append(@, hitem)]
        <5>1. buffer \in 1..Len(heap) /\ hitem \in Requests
          BY <4>2
        <5>2. Append(heap[buffer], hitem) \in Seq(Requests)
          BY <5>1, ElementOfSeq, AppendElements
        <5> QED
          BY <4>2, <5>1, <5>2, ExceptSeq
      <4> QED
        BY <2>1, <4>1, <4>2 DEF AddItemToArray
    <3> QED
      BY <1>5, <2>1, <3>1 DEF AddItemToArray
  <2>2. CASE ChooseEvent
    BY <1>5, <2>2 DEF ChooseEvent
  <2>3. CASE SendEvent
    <3>1. slot' \in Seq(Events \cup {"none"}) /\ Len(slot') = Len(slot)
      <4>1. slot' \in {slot, [slot EXCEPT ![queue] = hevent]}
        BY <2>3 DEF SendEvent
      <4>2. slot \in Seq(Events \cup {"none"}) /\ hevent \in Events \cup {"none"}
        OBVIOUS
      <4>3. ASSUME NEW S, S = Events \cup {"none"}
            PROVE  /\ [slot EXCEPT ![queue] = hevent] \in Seq(S)
                   /\ Len([slot EXCEPT ![queue] = hevent]) = Len(slot)
        BY <4>2, <4>3, ExceptElements
      <4> QED
        BY <4>1, <4>2, <4>3
    <3> QED
      BY <1>5, <2>3, <3>1 DEF SendEvent
  <2>4. CASE Respond
    BY <1>5, <2>4 DEF Respond
  <2>5. CASE CheckBuffer
    BY <1>5, <2>5 DEF CheckBuffer
  <2> QED
    BY <1>5, <2>1, <2>2, <2>3, <2>4, <2>5 DEF DevicePostHandler
<1>6. ASSUME panicked' = panicked, NEW f \in Flushers, ServerClientTask(f)
      PROVE  TypeOK'
  <2>1. CASE LoadQueue(f)
    BY <1>6, <2>1, SMTT(30) DEF LoadQueue
  <2>2. CASE ReceiveEvent(f)
    <3>1. slot' \in Seq(Events \cup {"none"}) /\ Len(slot') = Len(slot)
      BY <2>2, ExceptElements DEF ReceiveEvent
    <3>2. fpc' \in [Flushers -> {"off", "load", "receive", "print", "delete",
                                "create", "attach", "post"}]
      BY <2>2 DEF ReceiveEvent
    <3> QED
      BY <1>6, <2>2, <3>1, <3>2, SMTT(30) DEF ReceiveEvent
  <2>3. CASE PrintJson(f)
    <3>1. Array(json) \in Seq(Requests)
      BY ArrayType
    <3>2. fbuf' \in [Flushers -> Seq(Requests)]
      BY <2>3, <3>1 DEF PrintJson
    <3> QED
      BY <1>6, <2>3, <3>2, SMTT(30) DEF PrintJson
  <2>4. CASE PrintFails(f)
    <3>1. ToSet(Array(json)) \subseteq Requests
      BY ArrayType, ToSetType
    <3>2. fbuf' \in [Flushers -> Seq(Requests)]
      BY <2>4, EmptySeq DEF PrintFails
    <3>3. failures' \in 0..MaxFailures
      BY <2>4 DEF PrintFails, OutOfMemory
    <3>4. late' \subseteq Requests /\ nomem' \subseteq Requests
      BY <2>4, <3>1 DEF PrintFails
    <3>5. fpc' \in [Flushers -> {"off", "load", "receive", "print", "delete",
                                "create", "attach", "post"}]
      BY <2>4 DEF PrintFails
    <3> QED
      BY <1>6, <2>4, <3>2, <3>3, <3>4, <3>5, SMTT(30) DEF PrintFails
  <2>5. CASE DeleteJson(f)
    <3>1. fpc' \in [Flushers -> {"off", "load", "receive", "print", "delete",
                                "create", "attach", "post"}]
      BY <2>5 DEF DeleteJson
    <3>2. roots' \subseteq Requests /\ freed' \subseteq Trees
      BY <2>5 DEF DeleteJson
    <3> QED
      BY <1>6, <2>5, <3>1, <3>2, SMTT(30) DEF DeleteJson
  <2>6. CASE CreateJson(f)
    <3>1. /\ heap' \in Seq(Seq(Requests)) /\ json' \in {NULL} \cup Trees'
          /\ buffer' \in {NULL} \cup Trees' /\ freed' \subseteq Trees'
          /\ failures' \in 0..MaxFailures
      BY <2>6, CreateTree DEF CreateJson
    <3>2. fpc' \in [Flushers -> {"off", "load", "receive", "print", "delete",
                                "create", "attach", "post"}]
      BY <2>6 DEF CreateJson
    <3> QED
      BY <1>6, <2>6, <3>1, <3>2, SMTT(30) DEF CreateJson
  <2>7. CASE AttachBuffer(f)
    <3>1. buffer' \in {NULL} \cup Trees /\ failures' \in 0..MaxFailures
      BY <2>7, AttachType DEF AttachBuffer
    <3> QED
      BY <1>6, <2>7, <3>1, SMTT(30) DEF AttachBuffer
  <2>8. CASE PostServer(f)
    <3>1. fbuf[f] \in Seq(Requests)
      OBVIOUS
    <3>2. ToSet(fbuf[f]) \subseteq Requests
      BY <3>1, ToSetType
    <3>3. delivered \o fbuf[f] \in Seq(Requests)
      BY <3>1, ConcatProperties
    <3>4. fbuf' \in [Flushers -> Seq(Requests)]
      BY <2>8, EmptySeq DEF PostServer
    <3>5. posted' \subseteq Requests /\ delivered' \in Seq(Requests)
      BY <2>8, <3>2, <3>3 DEF PostServer
    <3> QED
      BY <1>6, <2>8, <3>4, <3>5, SMTT(30) DEF PostServer
  <2> QED
    BY <1>6, <2>1, <2>2, <2>3, <2>4, <2>5, <2>6, <2>7, <2>8
       DEF ServerClientTask
<1> QED
  BY <1>1, <1>2, <1>3, <1>4, <1>5, <1>6 DEF Next, TaskStep

(* The state of the gateway's buffer always has its shape: the handles are *)
(* NULL or refer to trees and queues that were created, and no more        *)
(* allocations, requests and tasks exist than the program made.            *)
THEOREM TypeCorrect == Spec => []TypeOK
<1> QED
  BY TypeInit, TypeNext, PTL DEF Spec

(***************************************************************************)
(* The inductive invariant                                                 *)
(***************************************************************************)

(* A server_client_task that init_handlers has not started yet is off.     *)
NotStarted ==
    \A f \in Flushers :
        f > inits \/ (f = inits /\ ipc # "idle") => fpc[f] = "off"

(* server_send_json is dangling only until the flush that deleted the tree *)
(* creates the next one.                                                   *)
JsonDangling == json \in freed => \E f \in Flushers : fpc[f] = "create"

(* A task that holds no printed JSON has buf empty.                        *)
BufUsed ==
    \A f \in Flushers :
        fpc[f] \notin {"delete", "create", "attach", "post"} => fbuf[f] = <<>>

(* What a flush is about to delete has been printed by it, except for what *)
(* was added since or did not print.                                       *)
DeletedIsPrinted ==
    \A f \in Flushers :
        fpc[f] = "delete" =>
            ToSet(Array(json)) \subseteq ToSet(fbuf[f]) \cup late \cup nomem

Accounted(r) == r \in late \cup nomem \cup posted \/ InFlight(r) \/ Held(r)

(* A reading is accounted for from cJSON_AddItemToArray on, before the     *)
(* handler answers.                                                        *)
AddedAccountedFor ==
    hpc \in {"size", "send", "respond"} /\ hitem # NULL => Accounted(hitem)

DanglingInv ==
    TypeOK /\ NotStarted /\ JsonDangling /\ DanglingOnlyWhileReplacing

AccountInv ==
    /\ DanglingInv
    /\ BufUsed /\ DeletedIsPrinted /\ AddedAccountedFor /\ AccountedFor

(***************************************************************************)
(* server_send_buffer dangles only while a flush replaces the tree         *)
(***************************************************************************)

(* Nothing dangles when the gateway starts.                                *)
LEMMA DanglingInit == Init => DanglingInv
<1> SUFFICES ASSUME Init PROVE DanglingInv
  OBVIOUS
<1>1. TypeOK
  BY TypeInit
<1>2. NotStarted /\ JsonDangling /\ DanglingOnlyWhileReplacing
  BY DEF Init, NotStarted, JsonDangling, DanglingOnlyWhileReplacing
<1> QED
  BY <1>1, <1>2 DEF DanglingInv

(* The deletions and the witness of a dangling pointer are inductive.      *)
LEMMA DanglingNext ==
    ASSUME DanglingInv, [Next]_vars
    PROVE  DanglingInv'
<1> USE DEF handlerVars, flusherVars, initVars, treeVars, queueVars,
            historyVars
<1>1. TypeOK /\ TypeOK'
  BY TypeNext DEF DanglingInv
<1>2. /\ NotStarted /\ JsonDangling /\ DanglingOnlyWhileReplacing
      /\ fpc \in [Flushers -> {"off", "load", "receive", "print", "delete",
                               "create", "attach", "post"}]
      /\ inits \in 0..MaxInits
      /\ freed \subseteq Trees /\ NULL \notin freed
  <2>1. Len(heap) \in Nat /\ freed \subseteq 1..Len(heap)
    BY <1>1, LenProperties DEF TypeOK, Trees
  <2>2. NULL \notin freed
    BY <2>1 DEF NULL
  <2>3. /\ fpc \in [Flushers -> {"off", "load", "receive", "print", "delete",
                                "create", "attach", "post"}]
        /\ inits \in 0..MaxInits
    BY <1>1 DEF TypeOK
  <2> QED
    BY <2>1, <2>2, <2>3 DEF DanglingInv, Trees
<1>3. CASE UNCHANGED <<fpc, ipc, inits, json, buffer, freed>>
  BY <1>1, <1>2, <1>3
     DEF DanglingInv, NotStarted, JsonDangling, DanglingOnlyWhileReplacing
<1>4. ASSUME InitHandlers
      PROVE  DanglingInv'
  <2>1. CASE InitCreateJson
    <3>1. json' \notin freed'
      BY <1>1, <1>2, <2>1, CreateTree DEF InitCreateJson
    <3> QED
      BY <1>1, <1>2, <2>1, <3>1
         DEF InitCreateJson, DanglingInv, NotStarted, JsonDangling,
             DanglingOnlyWhileReplacing
  <2>2. CASE InitAddArray
    <3>1. buffer' \in {NULL, json}
      BY <1>1, <2>2, AttachType DEF InitAddArray
    <3> QED
      BY <1>1, <1>2, <2>2, <3>1
         DEF InitAddArray, DanglingInv, NotStarted, JsonDangling,
             DanglingOnlyWhileReplacing
  <2>3. CASE InitCreateQueue
    BY <1>1, <1>2, <2>3
       DEF InitCreateQueue, DanglingInv, NotStarted, JsonDangling,
           DanglingOnlyWhileReplacing
  <2>4. CASE InitStartTask
    <3>1. /\ inits \in Flushers => fpc[inits] = "off"
          /\ fpc' = [fpc EXCEPT ![inits] = "load"] /\ ipc' = "idle"
          /\ UNCHANGED <<inits, json, buffer, freed>>
      BY <1>2, <2>4 DEF InitStartTask, NotStarted
    <3>2. \A f \in Flushers : fpc[f] \in {"create", "attach"} => fpc'[f] = fpc[f]
      BY <1>2, <3>1
    <3>3. \A f \in Flushers : f > inits => fpc'[f] = fpc[f]
      BY <1>2, <3>1
    <3> QED
      BY <1>1, <1>2, <3>1, <3>2, <3>3
         DEF DanglingInv, NotStarted, JsonDangling, DanglingOnlyWhileReplacing
  <2> QED
    BY <1>4, <2>1, <2>2, <2>3, <2>4 DEF InitHandlers
<1>5. ASSUME NEW f \in Flushers, ServerClientTask(f)
      PROVE  DanglingInv'
  <2>1. /\ ipc' = ipc /\ inits' = inits /\ fpc[f] # "off"
        /\ \A g \in Flushers \ {f} : fpc'[g] = fpc[g]
    BY <1>2, <1>5
       DEF ServerClientTask, LoadQueue, ReceiveEvent, PrintJson, PrintFails,
           DeleteJson, CreateJson, AttachBuffer, PostServer
  <2>2. NotStarted'
    BY <1>2, <2>1 DEF NotStarted
  <2>3. CASE /\ fpc[f] \notin {"create", "attach"}
             /\ UNCHANGED <<json, buffer, freed>>
    BY <1>1, <1>2, <2>1, <2>2, <2>3
       DEF DanglingInv, JsonDangling, DanglingOnlyWhileReplacing
  <2>4. CASE DeleteJson(f)
    <3>1. fpc'[f] = "create"
      BY <1>2, <2>4 DEF DeleteJson
    <3> QED
      BY <1>1, <2>2, <3>1
         DEF DanglingInv, JsonDangling, DanglingOnlyWhileReplacing
  <2>5. CASE CreateJson(f)
    <3>1. json' \notin freed'
      BY <1>1, <1>2, <2>5, CreateTree DEF CreateJson
    <3>2. fpc'[f] = "attach"
      BY <1>2, <2>5 DEF CreateJson
    <3> QED
      BY <1>1, <2>2, <3>1, <3>2
         DEF DanglingInv, JsonDangling, DanglingOnlyWhileReplacing
  <2>6. CASE AttachBuffer(f)
    <3>1. buffer' \in {NULL, json}
      BY <1>1, <2>6, AttachType DEF AttachBuffer
    <3>2. fpc[f] = "attach" /\ UNCHANGED <<json, freed>>
      BY <2>6 DEF AttachBuffer
    <3>3. json \in freed => \E g \in Flushers : fpc'[g] = "create"
      BY <1>2, <2>1, <3>2 DEF JsonDangling
    <3> QED
      BY <1>1, <1>2, <2>2, <3>1, <3>2, <3>3
         DEF DanglingInv, JsonDangling, DanglingOnlyWhileReplacing
  <2>7. CASE LoadQueue(f) \/ ReceiveEvent(f) \/ PrintJson(f)
             \/ PrintFails(f) \/ PostServer(f)
    BY <2>3, <2>7
       DEF LoadQueue, ReceiveEvent, PrintJson, PrintFails, PostServer
  <2> QED
    BY <1>5, <2>4, <2>5, <2>6, <2>7 DEF ServerClientTask
<1>6. CASE UNCHANGED vars \/ Panic
  BY <1>3, <1>6 DEF vars, Panic
<1>7. CASE RecvFails \/ RecvAndParse \/ DevicePostHandler
  BY <1>3, <1>7
     DEF RecvFails, RecvAndParse, DevicePostHandler, CheckBuffer, AddItemToArray,
         ChooseEvent, SendEvent, Respond
<1> QED
  BY <1>4, <1>5, <1>6, <1>7 DEF Next, TaskStep

(* Whatever the number of flush tasks that reconnections have left, the    *)
(* handler finds server_send_buffer dangling only between a flush's        *)
(* cJSON_Delete and the assignment of the new array.                       *)
THEOREM DanglingCorrect == Spec => []DanglingOnlyWhileReplacing
<1>1. DanglingInv => DanglingOnlyWhileReplacing
  BY DEF DanglingInv
<1> QED
  BY DanglingInit, DanglingNext, <1>1, PTL DEF Spec

(***************************************************************************)
(* No acknowledged reading vanishes                                        *)
(***************************************************************************)

(* cJSON_AddItemToArray only adds to an array.                             *)
LEMMA AddItem ==
    ASSUME TypeOK, AddItemToArray
    PROVE  /\ Len(heap') = Len(heap)
           /\ \A o \in Trees :
                ToSet(heap'[o]) =
                    ToSet(heap[o]) \cup (IF o = buffer THEN {hitem} \ {NULL} ELSE {})
           /\ late \subseteq late' /\ nomem \subseteq nomem'
<1>1. /\ heap \in Seq(Seq(Requests)) /\ buffer \in {NULL} \cup 1..Len(heap)
      /\ hitem \in {NULL} \cup Requests /\ Trees = 1..Len(heap)
  BY DEF TypeOK, Trees
<1>2. CASE heap' = heap /\ (buffer = NULL \/ hitem = NULL)
  BY <1>1, <1>2 DEF AddItemToArray
<1>3. CASE /\ buffer # NULL /\ hitem # NULL
           /\ heap' = [heap EXCEPT ![buffer] = Append(@, hitem)]
  <2>1. heap[buffer] \in Seq(Requests) /\ hitem \in Requests
    BY <1>1, <1>3, ElementOfSeq
  <2>2. /\ Append(heap[buffer], hitem) \in Seq(Requests)
        /\ ToSet(Append(heap[buffer], hitem)) = ToSet(heap[buffer]) \cup {hitem}
    BY <2>1, AppendElements
  <2>3. /\ Len(heap') = Len(heap)
        /\ \A o \in 1..Len(heap) :
             heap'[o] = IF o = buffer THEN Append(heap[buffer], hitem) ELSE heap[o]
    BY <1>1, <1>3, <2>2, ExceptSeq
  <2> QED
    BY <1>1, <1>3, <2>2, <2>3 DEF AddItemToArray
<1> QED
  BY <1>2, <1>3 DEF AddItemToArray

(* A reading in a tree stays there until the tree is deleted.              *)
LEMMA HeldGrows ==
    ASSUME NEW r, Held(r), freed' = freed,
           \A o \in Trees : o \in Trees' /\ ToSet(heap[o]) \subseteq ToSet(heap'[o])
    PROVE  Held(r)'
<1>1. PICK o \in Trees \ freed : r \in ToSet(heap[o])
  BY DEF Held
<1>2. o \in Trees' \ freed' /\ r \in ToSet(heap'[o])
  BY <1>1
<1> QED
  BY <1>2 DEF Held

(* No step loses a reading that is accounted for.                          *)
LEMMA AccountedGrows ==
    ASSUME AccountInv, [Next]_vars, NEW r, Accounted(r)
    PROVE  Accounted(r)'
<1> USE DEF handlerVars, flusherVars, initVars, treeVars, queueVars,
            historyVars
<1>1. /\ TypeOK /\ BufUsed /\ DeletedIsPrinted
      /\ fbuf \in [Flushers -> Seq(Requests)]
      /\ json \in {NULL} \cup Trees
  BY DEF AccountInv, DanglingInv, TypeOK
<1>2. CASE UNCHANGED <<heap, freed, fbuf, late, posted>> /\ nomem \subseteq nomem'
  BY <1>2 DEF Accounted, InFlight, Held, Trees
<1>3. CASE InitCreateJson \/ \E f \in Flushers : CreateJson(f)
  <2>1. Create /\ UNCHANGED <<freed, fbuf, late, nomem, posted>>
    BY <1>3 DEF InitCreateJson, CreateJson
  <2>2. \A o \in Trees : o \in Trees' /\ heap'[o] = heap[o]
    BY <1>1, <2>1, CreateTree
  <2>3. Held(r) => Held(r)'
    BY <2>1, <2>2, HeldGrows
  <2> QED
    BY <2>1, <2>3 DEF Accounted, InFlight
<1>4. CASE AddItemToArray
  <2>1. UNCHANGED <<freed, fbuf, posted>>
    BY <1>4 DEF AddItemToArray
  <2>2. \A o \in Trees : o \in Trees' /\ ToSet(heap[o]) \subseteq ToSet(heap'[o])
    BY <1>1, <1>4, AddItem DEF Trees
  <2>3. Held(r) => Held(r)'
    BY <2>1, <2>2, HeldGrows
  <2>4. late \subseteq late' /\ nomem \subseteq nomem'
    BY <1>1, <1>4, AddItem
  <2> QED
    BY <2>1, <2>3, <2>4 DEF Accounted, InFlight
<1>5. ASSUME NEW f \in Flushers, PrintJson(f) \/ PrintFails(f)
      PROVE  Accounted(r)'
  <2>1. /\ UNCHANGED <<heap, freed, late, posted>> /\ nomem \subseteq nomem'
        /\ \A g \in Flushers \ {f} : fbuf'[g] = fbuf[g]
        /\ fbuf[f] = <<>>
    BY <1>1, <1>5 DEF PrintJson, PrintFails, BufUsed
  <2>2. InFlight(r) => InFlight(r)'
    BY <2>1, ToSetEmpty DEF InFlight
  <2>3. Held(r) => Held(r)'
    BY <2>1 DEF Held, Trees
  <2> QED
    BY <2>1, <2>2, <2>3 DEF Accounted
<1>6. ASSUME NEW f \in Flushers, DeleteJson(f)
      PROVE  Accounted(r)'
  <2>1. /\ UNCHANGED <<heap, fbuf, late, nomem, posted>>
        /\ freed' = freed \cup ({json} \ {NULL})
        /\ fpc[f] = "delete"
    BY <1>6 DEF DeleteJson
  <2>2. InFlight(r) => InFlight(r)'
    BY <2>1 DEF InFlight
  <2>3. ASSUME Held(r) PROVE Held(r)' \/ InFlight(r) \/ r \in late \cup nomem
    <3>1. PICK o \in Trees \ freed : r \in ToSet(heap[o])
      BY <2>3 DEF Held
    <3>2. CASE o = json
      BY <1>1, <2>1, <3>1, <3>2
         DEF DeletedIsPrinted, Array, InFlight, Trees
    <3>3. CASE o # json
      <4>1. o \in Trees' \ freed' /\ r \in ToSet(heap'[o])
        BY <2>1, <3>1, <3>3 DEF Trees
      <4> QED
        BY <4>1 DEF Held
    <3> QED
      BY <3>2, <3>3
  <2> QED
    BY <2>1, <2>2, <2>3 DEF Accounted
<1>7. ASSUME NEW f \in Flushers, PostServer(f)
      PROVE  Accounted(r)'
  <2>1. /\ UNCHANGED <<heap, freed, late, nomem>>
        /\ posted' = posted \cup ToSet(fbuf[f])
        /\ \A g \in Flushers \ {f} : fbuf'[g] = fbuf[g]
    BY <1>1, <1>7 DEF PostServer
  <2>2. InFlight(r) => InFlight(r)' \/ r \in posted'
    BY <2>1 DEF InFlight
  <2>3. Held(r) => Held(r)'
    BY <2>1 DEF Held, Trees
  <2> QED
    BY <2>1, <2>2, <2>3 DEF Accounted
<1>8. CASE UNCHANGED vars \/ Panic \/ InitAddArray \/ InitCreateQueue
           \/ InitStartTask \/ RecvFails \/ RecvAndParse \/ CheckBuffer \/ ChooseEvent
           \/ SendEvent \/ Respond
  BY <1>2, <1>8
     DEF vars, Panic, InitAddArray, InitCreateQueue, InitStartTask,
         RecvFails, RecvAndParse, CheckBuffer, ChooseEvent, SendEvent, Respond
<1>9. ASSUME NEW f \in Flushers,
             LoadQueue(f) \/ ReceiveEvent(f) \/ AttachBuffer(f)
      PROVE  Accounted(r)'
  BY <1>2, <1>9 DEF LoadQueue, ReceiveEvent, AttachBuffer
<1> QED
  BY <1>3, <1>4, <1>5, <1>6, <1>7, <1>8, <1>9
     DEF Next, TaskStep, InitHandlers, DevicePostHandler, ServerClientTask

(* There is nothing to account for when the gateway starts.                *)
LEMMA AccountInit == Init => AccountInv
<1> SUFFICES ASSUME Init PROVE AccountInv
  OBVIOUS
<1>1. DanglingInv
  BY DanglingInit
<1>2. BufUsed /\ DeletedIsPrinted /\ AddedAccountedFor /\ AccountedFor
  BY DEF Init, BufUsed, DeletedIsPrinted, AddedAccountedFor, AccountedFor
<1> QED
  BY <1>1, <1>2 DEF AccountInv

(* No flusher drops a printed text that it has not posted.                 *)
LEMMA BufUsedNext ==
    ASSUME AccountInv, [Next]_vars
    PROVE  BufUsed'
<1> USE DEF handlerVars, flusherVars, initVars, treeVars, queueVars,
            historyVars
<1>1. /\ BufUsed /\ NotStarted
      /\ fbuf \in [Flushers -> Seq(Requests)]
      /\ fpc \in [Flushers -> {"off", "load", "receive", "print", "delete",
                               "create", "attach", "post"}]
      /\ inits \in 0..MaxInits
  BY DEF AccountInv, DanglingInv, TypeOK
<1>2. CASE UNCHANGED <<fpc, fbuf>>
  BY <1>1, <1>2 DEF BufUsed
<1>3. CASE InitStartTask
  <2>1. /\ inits \in Flushers => fpc[inits] = "off"
        /\ fpc' = [fpc EXCEPT ![inits] = "load"] /\ fbuf' = fbuf
    BY <1>1, <1>3 DEF InitStartTask, NotStarted
  <2> QED
    BY <1>1, <2>1 DEF BufUsed
<1>4. ASSUME NEW f \in Flushers, ServerClientTask(f)
      PROVE  BufUsed'
  <2>1. \A g \in Flushers \ {f} : fpc'[g] = fpc[g] /\ fbuf'[g] = fbuf[g]
    BY <1>1, <1>4
       DEF ServerClientTask, LoadQueue, ReceiveEvent, PrintJson, PrintFails,
           DeleteJson, CreateJson, AttachBuffer, PostServer
  <2>2. \/ fpc'[f] \in {"delete", "create", "attach", "post"}
        \/ fbuf'[f] = <<>>
    BY <1>1, <1>4
       DEF ServerClientTask, LoadQueue, ReceiveEvent, PrintJson, PrintFails,
           DeleteJson, CreateJson, AttachBuffer, PostServer, BufUsed
  <2> QED
    BY <1>1, <2>1, <2>2 DEF BufUsed
<1>5. CASE UNCHANGED vars \/ Panic \/ InitCreateJson \/ InitAddArray
           \/ InitCreateQueue \/ RecvFails \/ RecvAndParse
           \/ DevicePostHandler
  BY <1>2, <1>5
     DEF vars, Panic, InitCreateJson, InitAddArray, InitCreateQueue,
         RecvFails, RecvAndParse, DevicePostHandler, CheckBuffer, AddItemToArray,
         ChooseEvent, SendEvent, Respond
<1> QED
  BY <1>3, <1>4, <1>5 DEF Next, TaskStep, InitHandlers

(* What a flusher is about to delete stays printed, late or lost.          *)
LEMMA DeletedIsPrintedNext ==
    ASSUME AccountInv, [Next]_vars
    PROVE  DeletedIsPrinted'
<1> USE DEF handlerVars, flusherVars, initVars, treeVars, queueVars,
            historyVars
<1>1. /\ TypeOK /\ DeletedIsPrinted
      /\ fbuf \in [Flushers -> Seq(Requests)]
      /\ fpc \in [Flushers -> {"off", "load", "receive", "print", "delete",
                               "create", "attach", "post"}]
      /\ json \in {NULL} \cup Trees
  BY DEF AccountInv, DanglingInv, TypeOK

(* Steps that leave the trees alone and bring no task to cJSON_Delete.     *)
<1>2. CASE /\ UNCHANGED <<json, heap, late>> /\ nomem \subseteq nomem'
           /\ \A f \in Flushers :
                fpc'[f] = "delete" => fpc[f] = "delete" /\ fbuf'[f] = fbuf[f]
  BY <1>1, <1>2 DEF DeletedIsPrinted, Array
<1>3. CASE InitCreateJson \/ \E f \in Flushers : CreateJson(f)
  <2>1. Create
    BY <1>3 DEF InitCreateJson, CreateJson
  <2>2. Array(json)' = <<>>
    BY <1>1, <2>1, CreateTree
  <2> QED
    BY <2>2, ToSetEmpty DEF DeletedIsPrinted
<1>4. CASE AddItemToArray
  <2>1. UNCHANGED <<json, fpc, fbuf>>
    BY <1>4 DEF AddItemToArray
  <2>2. ToSet(Array(json)') \subseteq ToSet(Array(json)) \cup ({hitem} \ {NULL})
    BY <1>1, <1>4, <2>1, AddItem DEF Array
  <2>3. late \subseteq late' /\ nomem \subseteq nomem'
    BY <1>1, <1>4, AddItem
  <2>4. ASSUME NEW f \in Flushers, fpc[f] = "delete"
        PROVE  {hitem} \ {NULL} \subseteq late'
    BY <1>4, <2>4 DEF AddItemToArray, Replacing
  <2> QED
    BY <1>1, <2>1, <2>2, <2>3, <2>4 DEF DeletedIsPrinted
<1>5. ASSUME NEW f \in Flushers, PrintJson(f) \/ PrintFails(f)
      PROVE  DeletedIsPrinted'
  <2>1. /\ UNCHANGED <<json, heap, late>> /\ nomem \subseteq nomem'
        /\ \A g \in Flushers \ {f} : fpc'[g] = fpc[g] /\ fbuf'[g] = fbuf[g]
    BY <1>1, <1>5 DEF PrintJson, PrintFails
  <2>2. \/ fbuf'[f] = Array(json)
        \/ ToSet(Array(json)) \subseteq nomem'
    BY <1>1, <1>5 DEF PrintJson, PrintFails
  <2>3. Array(json)' = Array(json)
    BY <2>1 DEF Array
  <2> QED
    BY <1>1, <2>1, <2>2, <2>3 DEF DeletedIsPrinted
<1>6. ASSUME NEW f \in Flushers,
             \/ LoadQueue(f) \/ ReceiveEvent(f) \/ DeleteJson(f)
             \/ AttachBuffer(f) \/ PostServer(f)
      PROVE  DeletedIsPrinted'
  <2>1. /\ UNCHANGED <<json, heap, late, nomem>>
        /\ \A g \in Flushers :
             fpc'[g] = "delete" => fpc[g] = "delete" /\ fbuf'[g] = fbuf[g]
    BY <1>1, <1>6
       DEF LoadQueue, ReceiveEvent, DeleteJson, AttachBuffer, PostServer
  <2> QED
    BY <1>2, <2>1
<1>7. CASE InitStartTask
  <2>1. /\ UNCHANGED <<json, heap, late, nomem, fbuf>>
        /\ fpc' = [fpc EXCEPT ![inits] = "load"]
    BY <1>7 DEF InitStartTask
  <2> QED
    BY <1>1, <1>2, <2>1
<1>8. CASE UNCHANGED vars \/ Panic \/ InitAddArray \/ InitCreateQueue
           \/ RecvFails \/ RecvAndParse \/ CheckBuffer \/ ChooseEvent \/ SendEvent
           \/ Respond
  BY <1>2, <1>8
     DEF vars, Panic, InitAddArray, InitCreateQueue, RecvFails, RecvAndParse,
         CheckBuffer, ChooseEvent, SendEvent, Respond
<1> QED
  BY <1>3, <1>4, <1>5, <1>6, <1>7, <1>8
     DEF Next, TaskStep, InitHandlers, DevicePostHandler, ServerClientTask

(* A reading that has been added stays accounted for.                      *)
LEMMA AccountedForNext ==
    ASSUME AccountInv, [Next]_vars
    PROVE  AddedAccountedFor' /\ AccountedFor'
<1> USE DEF handlerVars, flusherVars, initVars, treeVars, queueVars,
            historyVars
<1>1. /\ TypeOK /\ AddedAccountedFor /\ DanglingOnlyWhileReplacing
      /\ \A r \in acked : Accounted(r)
  BY DEF AccountInv, DanglingInv, AccountedFor, Accounted
<1>2. \A r : Accounted(r) => Accounted(r)'
  BY AccountedGrows
<1>3. AccountedFor' <=> \A r \in acked' : Accounted(r)'
  BY DEF AccountedFor, Accounted
<1>4. CASE Respond
  <2>1. hpc = "respond" /\ hitem' = NULL /\ acked' \subseteq acked \cup ({hitem} \ {NULL})
    BY <1>4 DEF Respond
  <2> QED
    BY <1>1, <1>2, <1>3, <2>1 DEF AddedAccountedFor
<1>5. CASE AddItemToArray
  <2>1. acked' = acked /\ hitem' = hitem
    BY <1>5 DEF AddItemToArray
  <2>2. ASSUME hitem # NULL PROVE Accounted(hitem)'
    <3>1. CASE buffer = NULL
      BY <1>5, <2>2, <3>1 DEF AddItemToArray, Accounted
    <3>2. CASE buffer \in freed
      <4>1. \E f \in Flushers : Replacing(f)
        BY <1>1, <3>2 DEF DanglingOnlyWhileReplacing, Replacing
      <4>2. hitem \in late'
        BY <1>5, <2>2, <4>1 DEF AddItemToArray
      <4> QED
        BY <2>1, <4>2 DEF Accounted
    <3>3. CASE buffer # NULL /\ buffer \notin freed
      <4>1. buffer \in Trees
        BY <1>1, <3>3 DEF TypeOK
      <4>2. buffer \in Trees' \ freed' /\ hitem \in ToSet(heap'[buffer])
        BY <1>1, <1>5, <2>2, <3>3, <4>1, AddItem DEF Trees, AddItemToArray
      <4> QED
        BY <2>1, <4>2 DEF Accounted, Held
    <3> QED
      BY <3>1, <3>2, <3>3
  <2> QED
    BY <1>1, <1>2, <1>3, <2>1, <2>2 DEF AddedAccountedFor
<1>6. CASE /\ acked' = acked
           /\ hpc' \in {"size", "send", "respond"} =>
                /\ hpc \in {"size", "send", "respond"} \/ hitem \in nomem' \cup {NULL}
                /\ hitem' = hitem
  BY <1>1, <1>2, <1>3, <1>6 DEF AddedAccountedFor, Accounted
<1>7. CASE UNCHANGED vars \/ Panic \/ InitHandlers \/ RecvFails
           \/ RecvAndParse \/ CheckBuffer \/ ChooseEvent \/ SendEvent
  BY <1>6, <1>7
     DEF vars, Panic, InitHandlers, InitCreateJson, InitAddArray,
         InitCreateQueue, InitStartTask, RecvFails, RecvAndParse,
         CheckBuffer, ChooseEvent, SendEvent
<1>8. CASE \E f \in Flushers : ServerClientTask(f)
  BY <1>6, <1>8
     DEF ServerClientTask, LoadQueue, ReceiveEvent, PrintJson, PrintFails,
         DeleteJson, CreateJson, AttachBuffer, PostServer
<1> QED
  BY <1>4, <1>5, <1>7, <1>8 DEF Next, TaskStep, DevicePostHandler

(* The account of the readings is inductive.                               *)
LEMMA AccountNext ==
    ASSUME AccountInv, [Next]_vars
    PROVE  AccountInv'
BY DanglingNext, BufUsedNext, DeletedIsPrintedNext, AccountedForNext DEF AccountInv

(* A reading that the gateway answered with 200 is still in a tree, in a   *)
(* printed buffer or was handed to https_post_server, unless it was added  *)
(* while a flush replaced the tree or an allocation failed; for any number *)
(* of reconnections, each with its init_handlers and server_client_task.   *)
THEOREM AccountCorrect == Spec => []AccountedFor
<1>1. AccountInv => AccountedFor
  BY DEF AccountInv
<1> QED
  BY AccountInit, AccountNext, <1>1, PTL DEF Spec

(***************************************************************************)
(* The queue in use is served                                              *)
(***************************************************************************)

(* Queues and flushers are started in pairs, and the last flusher never    *)
(* waits at an older queue: it reads the handle after the queue is made.   *)
FlusherServes ==
    /\ queue = IF ipc \in {"array", "queue"} THEN inits - 1 ELSE inits
    /\ queue # NULL /\ ipc # "task" =>
         /\ fpc[queue] # "off"
         /\ fpc[queue] = "receive" => fqueue[queue] = queue

(* Every step keeps the last flusher at its queue or on its way to it.     *)
LEMMA ServesNext ==
    ASSUME TypeOK, FlusherServes, [Next]_vars
    PROVE  FlusherServes'
<1> USE DEF handlerVars, flusherVars, initVars, treeVars, queueVars, historyVars,
            FlusherServes
<1>1. /\ fpc \in [Flushers -> {"off", "load", "receive", "print", "delete",
                               "create", "attach", "post"}]
      /\ fqueue \in [Flushers -> 0..Len(slot)]
      /\ inits \in 0..MaxInits /\ Flushers = 1..MaxInits
      /\ ipc \in {"idle", "array", "queue", "task"}
      /\ queue = Len(slot) /\ slot \in Seq(Events \cup {"none"})
  BY DEF TypeOK, Flushers
<1>2. CASE InitCreateJson
  BY <1>1, <1>2 DEF InitCreateJson, Create
<1>3. CASE InitAddArray
  BY <1>3 DEF InitAddArray
<1>4. CASE InitCreateQueue
  BY <1>1, <1>4 DEF InitCreateQueue
<1>5. CASE InitStartTask
  BY <1>1, <1>5 DEF InitStartTask
<1>6. CASE RecvFails \/ RecvAndParse \/ DevicePostHandler \/ Panic \/ UNCHANGED vars
  BY <1>6
     DEF RecvFails, RecvAndParse, DevicePostHandler, CheckBuffer, AddItemToArray,
         ChooseEvent, SendEvent, Respond, Panic, vars
<1>7. ASSUME NEW f \in Flushers, ServerClientTask(f)
      PROVE  FlusherServes'
  <2>1. UNCHANGED <<queue, ipc, inits>>
    BY <1>7
       DEF ServerClientTask, LoadQueue, ReceiveEvent, PrintJson, PrintFails,
           DeleteJson, CreateJson, AttachBuffer, PostServer
  <2>2. CASE LoadQueue(f)
    <3>1. /\ fqueue' = [fqueue EXCEPT ![f] = queue]
          /\ fpc' = [fpc EXCEPT ![f] = "receive"]
      BY <2>2 DEF LoadQueue
    <3> QED
      BY <1>1, <2>1, <3>1
  <2>3. CASE ~LoadQueue(f)
    <3>1. /\ fqueue' = fqueue
          /\ \E p \in {"load", "print", "delete", "create", "attach", "post"} :
               fpc' = [fpc EXCEPT ![f] = p]
      BY <1>7, <2>3
         DEF ServerClientTask, ReceiveEvent, PrintJson, PrintFails, DeleteJson,
             CreateJson, AttachBuffer, PostServer
    <3> QED
      BY <1>1, <2>1, <3>1
  <2> QED
    BY <2>2, <2>3
<1> QED
  BY <1>2, <1>3, <1>4, <1>5, <1>6, <1>7 DEF Next, TaskStep, InitHandlers

(* The queue that gets the events has a flusher that will come to it, for  *)
(* any number of reconnections whose flushers may be stranded at theirs.   *)
THEOREM ServedCorrect == Spec => []QueueIsServed
<1>1. Init => FlusherServes
  BY DEF Init, FlusherServes
<1>2. TypeOK /\ FlusherServes => QueueIsServed
  <2> SUFFICES ASSUME TypeOK, FlusherServes, queue # NULL, ipc # "task"
               PROVE  \E f \in Flushers :
                          fpc[f] # "off" /\ (fpc[f] = "receive" => fqueue[f] = queue)
    BY DEF QueueIsServed
  <2>1. queue \in Flushers
    BY DEF TypeOK, FlusherServes, Flushers
  <2> QED
    BY <2>1 DEF FlusherServes
<1> QED
  BY TypeInit, TypeNext, ServesNext, <1>1, <1>2, PTL DEF Spec
=============================================================================
