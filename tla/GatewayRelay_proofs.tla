------------------------- MODULE GatewayRelay_proofs -------------------------
(***************************************************************************)
(* Proofs about GatewayBuffer while only one init_handlers has run: the    *)
(* flush leaks no tree of its own, and of the handler's only those that it *)
(* adds to an array deleted already or has no array for; and the handler,  *)
(* the trees and the flusher together implement the relay of module Relay, *)
(* which delivers in order.                                                *)
(***************************************************************************)
EXTENDS GatewayBuffer_proofs

USE MaxBufferAssumption, MaxRequestsAssumption, MaxInitsAssumption
USE DEF NULL, Requests, Flushers

Increasing(s) == Relayed!Increasing(s)

(***************************************************************************)
(* The inductive invariants                                                *)
(***************************************************************************)

NoTreeLeaks == Trees \ freed \subseteq {json}

(* The flush has deleted every tree by the time it creates one.            *)
LeakInv ==
    inits <= 1 =>
        /\ NoTreeLeaks
        /\ inits = 0 => Trees = {}
        /\ \A f \in Flushers : fpc[f] = "create" => Trees \subseteq freed

(* The readings that cJSON_AddItemToArray may have added already.          *)
Seen == {r \in 1..requests : ~Handed(r)}

ReadingsSeen ==
    /\ hpc \in {"check", "add"} => hitem \in {NULL, requests}
    /\ \A o \in Trees : ToSet(heap[o]) \subseteq Seen
    /\ \A f \in Flushers : ToSet(fbuf[f]) \subseteq Seen

Sorted ==
    /\ \A o \in Trees : Increasing(heap[o])
    /\ \A f \in Flushers : Increasing(fbuf[f])

(* What was printed before the tree was replaced is older than what is in  *)
(* the tree that replaces it.                                              *)
PrintedFirst ==
    inits <= 1 =>
        \A f \in Flushers, o \in Trees \ freed :
            fpc[f] \in {"create", "attach", "post"} =>
                \A r \in ToSet(fbuf[f]), s \in ToSet(heap[o]) : r < s

RelayInv == AccountInv /\ LeakInv /\ ReadingsSeen /\ Sorted /\ PrintedFirst

(***************************************************************************)
(* One init_handlers starts one server_client_task                         *)
(***************************************************************************)

(* After one init_handlers no two server_client_tasks run.                 *)
LEMMA OneFlusher ==
    ASSUME AccountInv, inits <= 1, NEW f \in Flushers, fpc[f] # "off",
           NEW g \in Flushers \ {f}
    PROVE  fpc[g] = "off"
BY DEF AccountInv, DanglingInv, NotStarted, TypeOK

(* While no second init_handlers has begun, a step that counts one is the  *)
(* first, and creates the first tree.                                      *)
LEMMA InitsGrow ==
    ASSUME TypeOK, [Next]_vars, inits' <= 1
    PROVE  /\ inits <= 1
           /\ ~UNCHANGED inits => inits = 0 /\ InitCreateJson
<1> USE DEF handlerVars, flusherVars, initVars, treeVars, queueVars, historyVars
<1>1. CASE InitCreateJson
  BY <1>1 DEF InitCreateJson, TypeOK
<1>2. CASE UNCHANGED inits
  BY <1>2
<1>3. CASE ~InitCreateJson
  BY <1>3
     DEF Next, TaskStep, Panic, InitHandlers, InitAddArray, InitCreateQueue,
         InitStartTask, RecvFails, RecvAndParse, DevicePostHandler,
         CheckBuffer, AddItemToArray, ChooseEvent, SendEvent, Respond, ServerClientTask,
         LoadQueue, ReceiveEvent, PrintJson, PrintFails, DeleteJson,
         CreateJson, AttachBuffer, PostServer, vars
<1> QED
  BY <1>1, <1>3

(***************************************************************************)
(* The flush leaks no tree                                                 *)
(***************************************************************************)

(* A creation adds no tree but the one server_send_json gets.              *)
LEMMA CreateAddsOne ==
    ASSUME TypeOK, Create
    PROVE  Trees' \subseteq Trees \cup {json'}
BY DEF Create, Trees, TypeOK

(* No step makes a tree leak before a second init_handlers.                *)
LEMMA LeakNext ==
    ASSUME AccountInv, LeakInv, [Next]_vars
    PROVE  LeakInv'
<1> SUFFICES ASSUME inits' <= 1
             PROVE  /\ NoTreeLeaks'
                    /\ inits' = 0 => Trees' = {}
                    /\ \A f \in Flushers : fpc'[f] = "create" => Trees' \subseteq freed'
  BY DEF LeakInv
<1> USE DEF handlerVars, flusherVars, initVars, treeVars, queueVars, historyVars
<1>1. /\ TypeOK /\ NotStarted /\ inits <= 1 /\ inits \in Nat
      /\ ~UNCHANGED inits => inits = 0 /\ InitCreateJson
      /\ NoTreeLeaks
      /\ inits = 0 => Trees = {}
      /\ \A f \in Flushers : fpc[f] = "create" => Trees \subseteq freed
      /\ fpc \in [Flushers -> {"off", "load", "receive", "print", "delete",
                               "create", "attach", "post"}]
  <2>1. TypeOK /\ NotStarted
    BY DEF AccountInv, DanglingInv
  <2>2. inits <= 1 /\ (~UNCHANGED inits => inits = 0 /\ InitCreateJson)
    BY <2>1, InitsGrow
  <2> QED
    BY <2>1, <2>2 DEF LeakInv, TypeOK
<1>2. CASE InitCreateJson
  <2>1. inits = 0 /\ inits' = 1 /\ Create /\ UNCHANGED <<fpc, freed>>
    BY <1>1, <1>2 DEF InitCreateJson
  <2>2. \A f \in Flushers : fpc[f] = "off"
    BY <1>1, <2>1 DEF NotStarted
  <2> QED
    BY <1>1, <2>1, <2>2, CreateAddsOne DEF NoTreeLeaks
<1>3. ASSUME NEW f \in Flushers, CreateJson(f)
      PROVE  /\ NoTreeLeaks'
             /\ inits' = 0 => Trees' = {}
             /\ \A g \in Flushers : fpc'[g] # "create"
  <2>1. /\ fpc[f] = "create" /\ fpc' = [fpc EXCEPT ![f] = "attach"]
        /\ Create /\ UNCHANGED <<freed, inits>>
    BY <1>3 DEF CreateJson
  <2>2. Trees \subseteq freed /\ Trees' \subseteq Trees \cup {json'}
    BY <1>1, <2>1, CreateAddsOne
  <2>3. \A g \in Flushers \ {f} : fpc[g] = "off"
    BY <1>1, <2>1, OneFlusher
  <2>4. inits # 0
    BY <1>1, <2>1 DEF NotStarted
  <2> QED
    BY <1>1, <2>1, <2>2, <2>3, <2>4 DEF NoTreeLeaks
<1>4. ASSUME NEW f \in Flushers, DeleteJson(f)
      PROVE  /\ UNCHANGED <<heap, json, inits>> /\ Trees \subseteq freed'
  <2>1. freed' = freed \cup ({json} \ {NULL}) /\ NULL \notin Trees
    BY <1>4 DEF DeleteJson, Trees
  <2> QED
    BY <1>1, <1>4, <2>1 DEF DeleteJson, NoTreeLeaks
<1>5. CASE AddItemToArray
  <2>1. Trees' = Trees /\ UNCHANGED <<json, freed, fpc, inits>>
    BY <1>1, <1>5, AddItem DEF AddItemToArray, Trees
  <2> QED
    BY <1>1, <2>1 DEF NoTreeLeaks
<1>6. CASE /\ UNCHANGED <<heap, json, freed, inits>>
           /\ \A f \in Flushers : fpc'[f] = "create" => fpc[f] = "create"
  BY <1>1, <1>6 DEF NoTreeLeaks, Trees
<1>7. CASE InitStartTask
  <2>1. /\ UNCHANGED <<heap, json, freed, inits>>
        /\ fpc' = [fpc EXCEPT ![inits] = "load"]
    BY <1>7 DEF InitStartTask
  <2> QED
    BY <1>1, <1>6, <2>1
<1>8. ASSUME NEW f \in Flushers,
             LoadQueue(f) \/ ReceiveEvent(f) \/ PrintJson(f) \/ PrintFails(f)
             \/ AttachBuffer(f) \/ PostServer(f)
      PROVE  /\ UNCHANGED <<heap, json, freed, inits>>
             /\ \A g \in Flushers : fpc'[g] = "create" => fpc[g] = "create"
  BY <1>1, <1>8
     DEF LoadQueue, ReceiveEvent, PrintJson, PrintFails, AttachBuffer, PostServer
<1>9. CASE UNCHANGED vars \/ Panic \/ InitAddArray \/ InitCreateQueue
           \/ RecvFails \/ RecvAndParse \/ CheckBuffer \/ ChooseEvent \/ SendEvent
           \/ Respond
  BY <1>6, <1>9
     DEF vars, Panic, InitAddArray, InitCreateQueue, RecvFails, RecvAndParse,
         CheckBuffer, ChooseEvent, SendEvent, Respond
<1>10. CASE \E f \in Flushers : DeleteJson(f)
  BY <1>1, <1>4, <1>10 DEF NoTreeLeaks, Trees
<1> QED
  BY <1>2, <1>3, <1>5, <1>6, <1>7, <1>8, <1>9, <1>10
     DEF Next, TaskStep, InitHandlers, DevicePostHandler, ServerClientTask

(***************************************************************************)
(* The roots of the handler                                                *)
(***************************************************************************)

RootsOwned ==
    \A r \in roots : Handed(r) \/ Held(r) \/ r \in stray \cup nomem

(* While every allocation succeeds, the handler finds an array.            *)
BufferThere ==
    /\ ipc # "idle" \/ registered => inits # 0
    /\ hpc # "idle" => registered
    /\ failures = 0 =>
         /\ nomem = {}
         /\ inits # 0 => json # NULL
         /\ ipc \in {"queue", "task"} \/ registered => buffer # NULL

(* No step loses sight of a root, or deletes a tree and not the roots that *)
(* are in it.                                                              *)
LEMMA RootsNext ==
    ASSUME AccountInv, RootsOwned, [Next]_vars
    PROVE  RootsOwned'
<1> USE DEF handlerVars, flusherVars, initVars, treeVars, rootVars, queueVars,
            historyVars
<1>1. /\ TypeOK /\ DanglingOnlyWhileReplacing /\ RootsOwned
      /\ NULL \notin roots /\ json \in {NULL} \cup Trees
  <2>1. TypeOK /\ DanglingOnlyWhileReplacing
    BY DEF AccountInv, DanglingInv
  <2>2. roots \subseteq Requests /\ json \in {NULL} \cup Trees
    BY <2>1 DEF TypeOK
  <2> QED
    BY <2>1, <2>2
<1>2. CASE /\ UNCHANGED <<heap, freed, roots, stray, hpc, hitem>>
           /\ nomem \subseteq nomem'
  BY <1>1, <1>2 DEF RootsOwned, Handed, Held, Trees
<1>3. CASE InitCreateJson \/ \E f \in Flushers : CreateJson(f)
  <2>1. Create /\ UNCHANGED <<freed, roots, stray, hpc, hitem, nomem>>
    BY <1>3 DEF InitCreateJson, CreateJson
  <2>2. \A o \in Trees : o \in Trees' /\ heap'[o] = heap[o]
    BY <1>1, <2>1, CreateTree
  <2>3. \A r : Held(r) => Held(r)'
    BY <2>1, <2>2, HeldGrows
  <2> QED
    BY <1>1, <2>1, <2>3 DEF RootsOwned, Handed
<1>4. CASE RecvFails \/ RecvAndParse
  <2>1. /\ hpc = "idle" /\ UNCHANGED <<heap, freed, stray, nomem>>
        /\ \/ roots' = roots
           \/ hpc' = "check" /\ roots' = roots \cup ({hitem'} \ {NULL})
    BY <1>4 DEF RecvFails, RecvAndParse
  <2>2. \A r : Held(r) => Held(r)'
    BY <2>1 DEF Held, Trees
  <2> QED
    BY <1>1, <2>1, <2>2 DEF RootsOwned, Handed
<1>5. CASE CheckBuffer
  <2>1. /\ hpc = "check" /\ UNCHANGED <<heap, freed, roots, stray, hitem>>
        /\ \/ hpc' = "add" /\ nomem' = nomem
           \/ nomem' = nomem \cup ({hitem} \ {NULL})
    BY <1>5 DEF CheckBuffer
  <2>2. \A r : Held(r) => Held(r)'
    BY <2>1 DEF Held, Trees
  <2> QED
    BY <1>1, <2>1, <2>2 DEF RootsOwned, Handed
<1>6. CASE AddItemToArray
  <2>1. /\ hpc = "add" /\ UNCHANGED <<freed, roots, hitem>>
        /\ nomem \subseteq nomem' /\ stray \subseteq stray'
    BY <1>1, <1>6, AddItem DEF AddItemToArray
  <2>2. \A o \in Trees : o \in Trees' /\ ToSet(heap[o]) \subseteq ToSet(heap'[o])
    BY <1>1, <1>6, AddItem DEF Trees
  <2>3. \A r : Held(r) => Held(r)'
    BY <2>1, <2>2, HeldGrows
  <2>4. ASSUME hitem # NULL
        PROVE  Held(hitem)' \/ hitem \in stray' \cup nomem'
    <3>1. CASE buffer = NULL
      BY <1>6, <2>4, <3>1 DEF AddItemToArray
    <3>2. CASE buffer \in freed
      BY <1>1, <1>6, <2>4, <3>2 DEF AddItemToArray, DanglingOnlyWhileReplacing
    <3>3. CASE buffer # NULL /\ buffer \notin freed
      <4>1. buffer \in Trees
        BY <1>1, <3>3 DEF TypeOK
      <4>2. buffer \in Trees' \ freed' /\ hitem \in ToSet(heap'[buffer])
        BY <1>1, <1>6, <2>1, <2>4, <3>3, <4>1, AddItem DEF Trees
      <4> QED
        BY <2>1, <4>2 DEF Held
    <3> QED
      BY <3>1, <3>2, <3>3
  <2> QED
    BY <1>1, <2>1, <2>3, <2>4 DEF RootsOwned, Handed
<1>7. ASSUME NEW f \in Flushers, DeleteJson(f)
      PROVE  RootsOwned'
  <2>1. /\ UNCHANGED <<heap, hpc, hitem, stray, nomem>>
        /\ freed' = freed \cup ({json} \ {NULL})
        /\ roots' = roots \ ToSet(Array(json))
    BY <1>7 DEF DeleteJson
  <2>2. ASSUME NEW r \in roots', Held(r)
        PROVE  Held(r)'
    <3>1. PICK o \in Trees \ freed : r \in ToSet(heap[o])
      BY <2>2 DEF Held
    <3>2. o # json
      BY <2>1, <2>2, <3>1 DEF Array, Trees
    <3>3. o \in Trees' \ freed' /\ r \in ToSet(heap'[o])
      BY <2>1, <3>1, <3>2 DEF Trees
    <3> QED
      BY <3>3 DEF Held
  <2> QED
    BY <1>1, <2>1, <2>2 DEF RootsOwned, Handed
<1>8. CASE ChooseEvent \/ SendEvent \/ Respond
  <2>1. /\ hpc \notin {"check", "add"} /\ UNCHANGED <<heap, freed, roots, stray, nomem>>
    BY <1>8 DEF ChooseEvent, SendEvent, Respond
  <2> QED
    BY <1>1, <2>1 DEF RootsOwned, Handed, Held, Trees
<1>9. CASE UNCHANGED vars \/ Panic \/ InitAddArray \/ InitCreateQueue \/ InitStartTask
  BY <1>2, <1>9 DEF vars, Panic, InitAddArray, InitCreateQueue, InitStartTask
<1>10. ASSUME NEW f \in Flushers,
              \/ LoadQueue(f) \/ ReceiveEvent(f) \/ PrintJson(f)
              \/ PrintFails(f) \/ AttachBuffer(f) \/ PostServer(f)
       PROVE  RootsOwned'
  BY <1>2, <1>10
     DEF LoadQueue, ReceiveEvent, PrintJson, PrintFails, AttachBuffer, PostServer
<1> QED
  BY <1>3, <1>4, <1>5, <1>6, <1>7, <1>8, <1>9, <1>10
     DEF Next, TaskStep, InitHandlers, DevicePostHandler, ServerClientTask

(* Without a failed allocation the array of the handler stays.             *)
LEMMA BufferNext ==
    ASSUME AccountInv, BufferThere, [Next]_vars
    PROVE  BufferThere'
<1> USE DEF handlerVars, flusherVars, initVars, treeVars, rootVars, queueVars,
            historyVars, BufferThere
<1>1. /\ TypeOK /\ inits \in Nat /\ failures \in Nat
      /\ \A f \in Flushers : inits = 0 => fpc[f] = "off"
  BY DEF AccountInv, DanglingInv, NotStarted, TypeOK
<1>2. CASE UNCHANGED <<json, buffer, failures, nomem, hpc, ipc, inits, registered>>
  BY <1>2
<1>3. CASE InitCreateJson
  <2>1. failures' = 0 => failures = 0 /\ json' # NULL
    BY <1>1, <1>3 DEF InitCreateJson, Create, OutOfMemory, TypeOK
  <2> QED
    BY <1>1, <1>3, <2>1 DEF InitCreateJson
<1>4. CASE InitAddArray
  <2>1. failures' = 0 => failures = 0 /\ buffer' = json
    BY <1>1, <1>4 DEF InitAddArray, Attach, OutOfMemory
  <2> QED
    BY <1>1, <1>4, <2>1 DEF InitAddArray
<1>5. CASE InitCreateQueue \/ InitStartTask
  BY <1>5 DEF InitCreateQueue, InitStartTask
<1>6. CASE RecvFails \/ RecvAndParse
  BY <1>6 DEF RecvFails, RecvAndParse
<1>7. CASE DevicePostHandler
  <2>1. CASE CheckBuffer
    BY <2>1 DEF CheckBuffer
  <2>2. CASE AddItemToArray
    BY <2>2 DEF AddItemToArray
  <2>3. CASE ChooseEvent \/ SendEvent \/ Respond
    BY <2>3 DEF ChooseEvent, SendEvent, Respond
  <2> QED
    BY <1>7, <2>1, <2>2, <2>3 DEF DevicePostHandler
<1>8. ASSUME NEW f \in Flushers, ServerClientTask(f)
      PROVE  BufferThere'
  <2>1. CASE PrintFails(f)
    <3>1. failures' # 0
      BY <1>1, <2>1 DEF PrintFails, OutOfMemory
    <3> QED
      BY <2>1, <3>1 DEF PrintFails
  <2>2. CASE CreateJson(f)
    <3>1. failures' = 0 => failures = 0 /\ json' # NULL
      BY <1>1, <2>2 DEF CreateJson, Create, OutOfMemory, TypeOK
    <3> QED
      BY <2>2, <3>1 DEF CreateJson
  <2>3. CASE AttachBuffer(f)
    <3>1. failures' = 0 => failures = 0 /\ buffer' = json
      BY <1>1, <2>3 DEF AttachBuffer, Attach, OutOfMemory
    <3>2. inits # 0
      BY <1>1, <2>3 DEF AttachBuffer
    <3> QED
      BY <2>3, <3>1, <3>2 DEF AttachBuffer
  <2>4. CASE LoadQueue(f) \/ ReceiveEvent(f) \/ PrintJson(f) \/ DeleteJson(f)
             \/ PostServer(f)
    BY <1>2, <2>4 DEF LoadQueue, ReceiveEvent, PrintJson, DeleteJson, PostServer
  <2> QED
    BY <1>8, <2>1, <2>2, <2>3, <2>4 DEF ServerClientTask
<1>9. CASE UNCHANGED vars \/ Panic
  BY <1>2, <1>9 DEF vars, Panic
<1> QED
  BY <1>3, <1>4, <1>5, <1>6, <1>7, <1>8, <1>9 DEF Next, TaskStep, InitHandlers

(* Until a second got-ip event every tree but server_send_json's has been  *)
(* deleted, and with it every root the handler parsed, except for those it *)
(* added to an array whose tree a flush had deleted, or could not add      *)
(* after a failed allocation; however the flush and the handler interleave *)
(* (device_post_handler, server_client_task).                              *)
THEOREM LeakCorrect == Spec => [](inits <= 1 => OnlyStrayRootsLeak)
<1>1. Init => AccountInv /\ LeakInv /\ RootsOwned /\ BufferThere
  <2>1. Init => LeakInv
    BY DEF Init, LeakInv, NoTreeLeaks, Trees
  <2>2. Init => RootsOwned /\ BufferThere
    BY DEF Init, RootsOwned, BufferThere
  <2> QED
    BY <2>1, <2>2, AccountInit
<1>2. AccountInv /\ LeakInv /\ RootsOwned /\ BufferThere =>
        (inits <= 1 => OnlyStrayRootsLeak)
  <2>1. AccountInv => failures \in Nat
    BY DEF AccountInv, DanglingInv, TypeOK
  <2> QED
    BY <2>1 DEF LeakInv, NoTreeLeaks, RootsOwned, BufferThere, OnlyStrayRootsLeak
<1> QED
  BY <1>1, <1>2, AccountNext, LeakNext, RootsNext, BufferNext, PTL DEF Spec

(***************************************************************************)
(* The readings stay in the order of their arrival                         *)
(***************************************************************************)

(* A sequence to which something larger is appended stays increasing.      *)
LEMMA AppendIncreasingly ==
    ASSUME NEW s \in Seq(Nat), NEW e \in Nat, Increasing(s),
           \A r \in ToSet(s) : r < e
    PROVE  Increasing(Append(s, e))
<1>1. /\ Len(s) \in Nat /\ Len(Append(s, e)) = Len(s) + 1
      /\ \A i \in 1..Len(s) : Append(s, e)[i] = s[i] /\ s[i] \in ToSet(s)
      /\ Append(s, e)[Len(s) + 1] = e
  BY AppendElements DEF ToSet
<1> QED
  BY <1>1 DEF Increasing, Relayed!Increasing

(* Two increasing sequences, the second one all larger than the first,     *)
(* make one.                                                               *)
LEMMA ConcatIncreasingly ==
    ASSUME NEW s \in Seq(Nat), NEW t \in Seq(Nat), Increasing(s), Increasing(t),
           \A r \in ToSet(s), e \in ToSet(t) : r < e
    PROVE  Increasing(s \o t)
<1>1. /\ Len(s) \in Nat /\ Len(t) \in Nat /\ Len(s \o t) = Len(s) + Len(t)
      /\ \A i \in 1..(Len(s) + Len(t)) :
           (s \o t)[i] = IF i <= Len(s) THEN s[i] ELSE t[i - Len(s)]
      /\ \A i \in 1..Len(s) : s[i] \in ToSet(s)
      /\ \A i \in 1..Len(t) : t[i] \in ToSet(t)
  BY ConcatProperties DEF ToSet
<1> SUFFICES ASSUME NEW i \in 1..(Len(s) + Len(t)), NEW j \in 1..(Len(s) + Len(t)),
                    i < j
             PROVE  (s \o t)[i] < (s \o t)[j]
  BY <1>1 DEF Increasing, Relayed!Increasing
<1>2. CASE j <= Len(s)
  BY <1>1, <1>2 DEF Increasing, Relayed!Increasing
<1>3. CASE i <= Len(s) /\ j > Len(s)
  <2>1. j - Len(s) \in 1..Len(t)
    BY <1>1, <1>3
  <2> QED
    BY <1>1, <1>3, <2>1
<1>4. CASE i > Len(s)
  <2>1. /\ i - Len(s) \in 1..Len(t) /\ j - Len(s) \in 1..Len(t)
        /\ i - Len(s) < j - Len(s) /\ ~(i <= Len(s)) /\ ~(j <= Len(s))
    BY <1>1, <1>4
  <2> QED
    BY <1>1, <2>1 DEF Increasing, Relayed!Increasing
<1> QED
  BY <1>1, <1>2, <1>3, <1>4

(* The empty sequence is increasing.                                       *)
LEMMA EmptyIncreasing == Increasing(<<>>) /\ ToSet(<<>>) = {}
<1>1. Len(<<>>) = 0
  BY EmptySeq
<1> QED
  BY <1>1, ToSetEmpty DEF Increasing, Relayed!Increasing

(* The invariant of the relay holds when the gateway starts.               *)
LEMMA RelayInit == Init => RelayInv
<1> SUFFICES ASSUME Init PROVE RelayInv
  OBVIOUS
<1>1. AccountInv
  BY AccountInit
<1>2. Trees = {} /\ requests = 0 /\ hpc = "idle" /\ \A f \in Flushers : fbuf[f] = <<>>
  BY DEF Init, Trees
<1>3. LeakInv
  BY <1>2 DEF LeakInv, NoTreeLeaks, Init
<1>4. ReadingsSeen /\ Sorted /\ PrintedFirst
  BY <1>2, EmptyIncreasing DEF ReadingsSeen, Sorted, PrintedFirst
<1> QED
  BY <1>1, <1>3, <1>4 DEF RelayInv

(* What may have been added stays so, and the handler only adds the        *)
(* reading that arrived last.                                              *)
LEMMA SeenGrows ==
    ASSUME RelayInv, [Next]_vars
    PROVE  /\ Seen \subseteq Seen'
           /\ hpc' \in {"check", "add"} => hitem' \in {NULL, requests'}
<1> USE DEF handlerVars, flusherVars, initVars, treeVars, queueVars, historyVars
<1> USE DEF Handed
<1>1. requests \in Nat /\ (hpc \in {"check", "add"} => hitem \in {NULL, requests})
  BY DEF RelayInv, ReadingsSeen, AccountInv, DanglingInv, TypeOK
<1>2. CASE UNCHANGED <<hpc, hitem, requests>>
  BY <1>1, <1>2 DEF Seen
<1>3. CASE RecvFails \/ RecvAndParse
  <2>1. /\ requests' = requests + 1 /\ hpc = "idle"
        /\ \/ hpc' = "idle"
           \/ hpc' = "check" /\ hitem' \in {requests + 1, NULL}
    <3>1. CASE RecvFails
      BY <3>1 DEF RecvFails
    <3>2. CASE RecvAndParse
      BY <3>2 DEF RecvAndParse
    <3> QED
      BY <1>3, <3>1, <3>2
  <2> QED
    BY <1>1, <2>1 DEF Seen
<1>4. CASE DevicePostHandler
  <2>1. /\ requests' = requests
        /\ \/ hpc = "check" /\ hpc' = "add" /\ hitem' = hitem
           \/ hpc' \notin {"check", "add"}
    BY <1>4
       DEF DevicePostHandler, CheckBuffer, AddItemToArray, ChooseEvent, SendEvent,
           Respond
  <2> QED
    BY <1>1, <2>1 DEF Seen
<1>5. CASE UNCHANGED vars \/ Panic \/ InitHandlers \/ \E f \in Flushers : ServerClientTask(f)
  BY <1>2, <1>5
     DEF vars, Panic, InitHandlers, InitCreateJson, InitAddArray, InitCreateQueue,
         InitStartTask, ServerClientTask, LoadQueue, ReceiveEvent, PrintJson,
         PrintFails, DeleteJson, CreateJson, AttachBuffer, PostServer
<1> QED
  BY <1>3, <1>4, <1>5 DEF Next, TaskStep

(* What a step does to an array: nothing, or the handler's reading goes    *)
(* to its end; a new array is empty.                                       *)
ArraySame(o) == o \in Trees /\ heap'[o] = heap[o]
ArrayGrown(o) ==
    /\ o \in Trees /\ heap[o] \in Seq(Requests)
    /\ hpc = "add" /\ hpc' = "size" /\ hitem # NULL /\ hitem \in Requests
    /\ heap'[o] = Append(heap[o], hitem)
ArrayNew(o) == o \notin Trees /\ heap'[o] = <<>>

(* In one step the array of a tree stays as it is, gets the reading that   *)
(* the handler holds, or is new and empty.                                 *)
LEMMA ArrayChanges ==
    ASSUME TypeOK, [Next]_vars, NEW o \in Trees'
    PROVE  ArraySame(o) \/ ArrayGrown(o) \/ ArrayNew(o)
<1> USE DEF handlerVars, flusherVars, initVars, treeVars, queueVars, historyVars
<1>1. CASE heap' = heap
  BY <1>1 DEF ArraySame, Trees
<1>2. CASE AddItemToArray
  <2>1. CASE /\ buffer # NULL /\ hitem # NULL
             /\ heap' = [heap EXCEPT ![buffer] = Append(@, hitem)]
    <3>1. /\ heap \in Seq(Seq(Requests)) /\ buffer \in 1..Len(heap)
          /\ hitem \in Requests
      BY <2>1 DEF TypeOK, Trees
    <3>2. heap[buffer] \in Seq(Requests)
      BY <3>1, ElementOfSeq
    <3>3. Append(heap[buffer], hitem) \in Seq(Requests)
      BY <3>1, <3>2
    <3>4. /\ Len(heap') = Len(heap)
          /\ \A p \in 1..Len(heap) :
               heap'[p] = IF p = buffer THEN Append(heap[buffer], hitem) ELSE heap[p]
      BY <2>1, <3>1, <3>3, ExceptSeq
    <3>5. hpc = "add" /\ hpc' = "size"
      BY <1>2 DEF AddItemToArray
    <3> QED
      BY <2>1, <3>1, <3>2, <3>4, <3>5 DEF ArraySame, ArrayGrown, Trees
  <2> QED
    BY <1>1, <1>2, <2>1 DEF AddItemToArray
<1>3. CASE Create
  <2>1. heap' = heap \/ heap' = Append(heap, <<>>)
    BY <1>3 DEF Create
  <2>2. heap \in Seq(Seq(Requests)) /\ <<>> \in Seq(Requests)
    BY EmptySeq DEF TypeOK
  <2>3. CASE heap' = Append(heap, <<>>)
    <3>1. /\ Len(heap') = Len(heap) + 1 /\ Len(heap) \in Nat
          /\ \A p \in 1..Len(heap) : heap'[p] = heap[p]
          /\ heap'[Len(heap) + 1] = <<>>
      BY <2>2, <2>3, AppendElements
    <3> QED
      BY <3>1 DEF ArraySame, ArrayNew, Trees
  <2> QED
    BY <1>1, <2>1, <2>3
<1>4. CASE ~AddItemToArray /\ ~Create
  BY <1>1, <1>4
     DEF Next, TaskStep, Panic, InitHandlers, InitCreateJson, InitAddArray,
         InitCreateQueue, InitStartTask, RecvFails, RecvAndParse, DevicePostHandler,
         CheckBuffer,
         ChooseEvent, SendEvent, Respond, ServerClientTask, LoadQueue, ReceiveEvent,
         PrintJson, PrintFails, DeleteJson, CreateJson, AttachBuffer, PostServer, vars
<1> QED
  BY <1>2, <1>3, <1>4

(* What a step does to buf: nothing, the post empties it, or a print fills *)
(* it from an empty one.                                                   *)
LEMMA BufChanges ==
    ASSUME TypeOK, [Next]_vars, NEW f \in Flushers
    PROVE  \/ fbuf'[f] = fbuf[f] /\ (fpc'[f] # fpc[f] =>
                                       \/ fpc'[f] \notin {"create", "attach", "post"}
                                       \/ fpc[f] \in {"create", "attach"}
                                       \/ DeleteJson(f))
           \/ fbuf'[f] = <<>>
           \/ fbuf'[f] = Array(json) /\ fpc[f] = "print" /\ fpc'[f] = "delete"
<1> USE DEF handlerVars, flusherVars, initVars, treeVars, queueVars, historyVars
<1>1. /\ fpc \in [Flushers -> {"off", "load", "receive", "print", "delete",
                               "create", "attach", "post"}]
      /\ fbuf \in [Flushers -> Seq(Requests)]
  BY DEF TypeOK
<1>2. CASE UNCHANGED <<fpc, fbuf>>
  BY <1>2
<1>3. CASE InitStartTask
  BY <1>1, <1>3 DEF InitStartTask
<1>4. ASSUME NEW g \in Flushers \ {f}, ServerClientTask(g)
      PROVE  fbuf'[f] = fbuf[f] /\ fpc'[f] = fpc[f]
  BY <1>1, <1>4
     DEF ServerClientTask, LoadQueue, ReceiveEvent, PrintJson, PrintFails,
         DeleteJson, CreateJson, AttachBuffer, PostServer
<1>5. CASE PrintJson(f)
  BY <1>1, <1>5 DEF PrintJson
<1>6. CASE PrintFails(f) \/ PostServer(f)
  BY <1>1, <1>6 DEF PrintFails, PostServer
<1>7. CASE LoadQueue(f) \/ ReceiveEvent(f) \/ CreateJson(f) \/ AttachBuffer(f)
  BY <1>1, <1>7 DEF LoadQueue, ReceiveEvent, CreateJson, AttachBuffer
<1>8. CASE DeleteJson(f)
  BY <1>1, <1>8 DEF DeleteJson
<1>9. CASE UNCHANGED vars \/ Panic \/ InitCreateJson \/ InitAddArray \/ InitCreateQueue
           \/ RecvFails \/ RecvAndParse \/ DevicePostHandler
  BY <1>2, <1>9
     DEF vars, Panic, InitCreateJson, InitAddArray, InitCreateQueue, RecvFails,
         RecvAndParse, DevicePostHandler, CheckBuffer,
         AddItemToArray, ChooseEvent, SendEvent,
         Respond
<1> QED
  BY <1>3, <1>4, <1>5, <1>6, <1>7, <1>8, <1>9
     DEF Next, TaskStep, InitHandlers, ServerClientTask

(* Trees and printed texts keep their order, and hold nothing that has not *)
(* arrived yet.                                                            *)
LEMMA ReadingsNext ==
    ASSUME RelayInv, [Next]_vars
    PROVE  ReadingsSeen' /\ Sorted'
<1>1. /\ TypeOK /\ ReadingsSeen /\ Sorted
      /\ requests \in Nat /\ json \in {NULL} \cup Trees
  <2>1. TypeOK /\ ReadingsSeen /\ Sorted
    BY DEF RelayInv, AccountInv, DanglingInv
  <2>2. requests \in Nat /\ json \in {NULL} \cup Trees
    BY <2>1 DEF TypeOK
  <2> QED
    BY <2>1, <2>2
<1>2. Seen \subseteq Seen' /\ (hpc' \in {"check", "add"} => hitem' \in {NULL, requests'})
  BY SeenGrows
<1>3. ASSUME NEW o \in Trees'
      PROVE  ToSet(heap'[o]) \subseteq Seen' /\ Increasing(heap'[o])
  <2>1. CASE ArraySame(o)
    BY <1>1, <1>2, <2>1 DEF ArraySame, ReadingsSeen, Sorted
  <2>2. CASE ArrayGrown(o)
    <3>1. /\ hitem = requests /\ requests' = requests
          /\ \A r \in ToSet(heap[o]) : r < hitem
      <4>1. hitem = requests
        BY <1>1, <2>2 DEF ArrayGrown, ReadingsSeen
      <4>2. \A r \in ToSet(heap[o]) : r \in Seen
        BY <1>1, <2>2 DEF ArrayGrown, ReadingsSeen
      <4>3. requests' = requests
        BY <2>2
           DEF ArrayGrown, Next, TaskStep, Panic, InitHandlers, InitCreateJson,
               InitAddArray, InitCreateQueue, InitStartTask, RecvFails, RecvAndParse,
               DevicePostHandler, CheckBuffer,
               AddItemToArray, ChooseEvent, SendEvent, Respond,
               ServerClientTask, LoadQueue, ReceiveEvent, PrintJson, PrintFails,
               DeleteJson, CreateJson, AttachBuffer, PostServer, vars, handlerVars
      <4> QED
        BY <1>1, <2>2, <4>1, <4>2, <4>3 DEF ArrayGrown, Seen, Handed
    <3>2. /\ heap[o] \in Seq(Nat) /\ hitem \in Nat
          /\ ToSet(Append(heap[o], hitem)) = ToSet(heap[o]) \cup {hitem}
      BY <2>2, AppendElements DEF ArrayGrown
    <3>3. Increasing(heap'[o])
      BY <1>1, <2>2, <3>1, <3>2, AppendIncreasingly DEF ArrayGrown, Sorted
    <3>4. hitem \in Seen'
      BY <1>1, <2>2, <3>1 DEF ArrayGrown, Seen, Handed
    <3>5. ToSet(heap[o]) \subseteq Seen'
      BY <1>1, <1>2, <2>2 DEF ArrayGrown, ReadingsSeen
    <3>6. ToSet(heap'[o]) = ToSet(heap[o]) \cup {hitem}
      BY <2>2, <3>2 DEF ArrayGrown
    <3> QED
      BY <3>3, <3>4, <3>5, <3>6
  <2>3. CASE ArrayNew(o)
    BY <2>3, EmptyIncreasing DEF ArrayNew
  <2> QED
    BY <1>1, <1>3, <2>1, <2>2, <2>3, ArrayChanges
<1>4. ToSet(Array(json)) \subseteq Seen /\ Increasing(Array(json))
  BY <1>1, EmptyIncreasing DEF Array, ReadingsSeen, Sorted
<1>5. ASSUME NEW f \in Flushers
      PROVE  ToSet(fbuf'[f]) \subseteq Seen' /\ Increasing(fbuf'[f])
  <2>1. fbuf'[f] \in {fbuf[f], <<>>, Array(json)}
    BY <1>1, BufChanges
  <2> QED
    BY <1>1, <1>2, <1>4, <2>1, EmptyIncreasing DEF ReadingsSeen, Sorted
<1> QED
  BY <1>2, <1>3, <1>5 DEF ReadingsSeen, Sorted

(* What the flusher has printed stays older than what the handler adds to  *)
(* the next tree.                                                          *)
LEMMA PrintedFirstNext ==
    ASSUME RelayInv, [Next]_vars
    PROVE  PrintedFirst'
<1> SUFFICES ASSUME inits' <= 1,
                    NEW f \in Flushers, NEW o \in Trees' \ freed',
                    fpc'[f] \in {"create", "attach", "post"},
                    NEW r \in ToSet(fbuf'[f]), NEW s \in ToSet(heap'[o])
             PROVE  r < s
  BY DEF PrintedFirst
<1>1. /\ TypeOK /\ inits <= 1 /\ ReadingsSeen /\ NoTreeLeaks
  BY InitsGrow DEF RelayInv, AccountInv, DanglingInv, LeakInv
<1>2. ToSet(<<>>) = {}
  BY ToSetEmpty
<1>3. fbuf'[f] = fbuf[f]
  BY <1>1, <1>2, BufChanges
<1>4. ~DeleteJson(f)
  <2>1. DeleteJson(f) => Trees' \subseteq freed'
    BY <1>1 DEF DeleteJson, NoTreeLeaks, Trees, treeVars
  <2> QED
    BY <2>1
<1>5. fpc[f] \in {"create", "attach", "post"}
  BY <1>1, <1>2, <1>3, <1>4, BufChanges
<1>6. o \in Trees => o \notin freed
  <2>1. freed \subseteq freed'
    BY DEF Next, TaskStep, Panic, InitHandlers, InitCreateJson, InitAddArray,
           InitCreateQueue, InitStartTask, RecvFails, RecvAndParse,
           DevicePostHandler, CheckBuffer,
           AddItemToArray, ChooseEvent, SendEvent, Respond,
           ServerClientTask, LoadQueue, ReceiveEvent, PrintJson, PrintFails,
           DeleteJson, CreateJson, AttachBuffer, PostServer, vars, treeVars
  <2> QED
    BY <2>1
<1>7. CASE ArraySame(o)
  BY <1>1, <1>3, <1>5, <1>6, <1>7 DEF ArraySame, RelayInv, PrintedFirst
<1>8. CASE ArrayGrown(o)
  <2>1. s \in ToSet(heap[o]) \/ s = hitem
    BY <1>8, AppendElements DEF ArrayGrown
  <2>2. CASE s \in ToSet(heap[o])
    BY <1>1, <1>3, <1>5, <1>6, <1>8, <2>2 DEF ArrayGrown, RelayInv, PrintedFirst
  <2>3. CASE s = hitem
    <3>1. r \in Seen /\ hitem = requests /\ requests \in Nat
      BY <1>1, <1>3, <1>8 DEF ArrayGrown, ReadingsSeen, TypeOK
    <3> QED
      BY <1>8, <2>3, <3>1 DEF ArrayGrown, Seen, Handed
  <2> QED
    BY <2>1, <2>2, <2>3
<1>9. CASE ArrayNew(o)
  BY <1>2, <1>9 DEF ArrayNew
<1> QED
  BY <1>1, <1>7, <1>8, <1>9, ArrayChanges

(* The invariant of the relay is inductive.                                *)
LEMMA RelayNext ==
    ASSUME RelayInv, [Next]_vars
    PROVE  RelayInv'
BY AccountNext, LeakNext, ReadingsNext, PrintedFirstNext DEF RelayInv

(***************************************************************************)
(* Every step is a step of the relay                                       *)
(***************************************************************************)

(* No step but the arrival of a reading gives the relay one more.          *)
LEMMA PendingShrinks ==
    ASSUME RelayInv, [Next]_vars, inits <= 1, ~RecvFails, ~RecvAndParse
    PROVE  Pending' \subseteq Pending
<1>1. /\ TypeOK /\ JsonDangling /\ json \in {NULL} \cup Trees
      /\ freed \subseteq freed'
  <2>1. freed \subseteq freed'
    BY DEF Next, TaskStep, Panic, InitHandlers, InitCreateJson, InitAddArray,
           InitCreateQueue, InitStartTask, DevicePostHandler, CheckBuffer, AddItemToArray,
           ChooseEvent, SendEvent, Respond, ServerClientTask, LoadQueue,
           ReceiveEvent, PrintJson, PrintFails, DeleteJson, CreateJson,
           AttachBuffer, PostServer, vars, treeVars
  <2> QED
    BY <2>1 DEF RelayInv, AccountInv, DanglingInv, TypeOK
<1>2. ASSUME NEW r \in Requests, Handed(r)'
      PROVE  Handed(r)
  BY <1>2
     DEF Handed, Next, TaskStep, Panic, InitHandlers, InitCreateJson, InitAddArray,
         InitCreateQueue, InitStartTask, DevicePostHandler, CheckBuffer, AddItemToArray,
         ChooseEvent, SendEvent, Respond, ServerClientTask, LoadQueue, ReceiveEvent,
         PrintJson, PrintFails, DeleteJson, CreateJson, AttachBuffer, PostServer,
         vars, handlerVars
<1>3. ASSUME NEW r \in Requests, Held(r)'
      PROVE  Held(r) \/ Handed(r)
  <2>1. PICK o \in Trees' \ freed' : r \in ToSet(heap'[o])
    BY <1>3 DEF Held
  <2>2. CASE ArraySame(o)
    BY <1>1, <2>1, <2>2 DEF ArraySame, Held
  <2>3. CASE ArrayGrown(o)
    <3>1. r \in ToSet(heap[o]) \/ r = hitem
      BY <2>1, <2>3, AppendElements DEF ArrayGrown
    <3> QED
      BY <1>1, <2>1, <2>3, <3>1 DEF ArrayGrown, Held, Handed
  <2>4. CASE ArrayNew(o)
    BY <2>1, <2>4, ToSetEmpty DEF ArrayNew
  <2> QED
    BY <1>1, <2>1, <2>2, <2>3, <2>4, ArrayChanges
<1>4. ASSUME NEW r \in Requests, InFlight(r)'
      PROVE  InFlight(r) \/ Held(r)
  <2>1. PICK f \in Flushers : r \in ToSet(fbuf'[f])
    BY <1>4 DEF InFlight
  <2>2. CASE fbuf'[f] = fbuf[f]
    BY <2>1, <2>2 DEF InFlight
  <2>3. CASE fbuf'[f] = Array(json) /\ fpc[f] = "print"
    <3>1. \A g \in Flushers : fpc[g] # "create"
      BY <2>3, OneFlusher DEF RelayInv
    <3>2. json \notin freed
      BY <1>1, <3>1 DEF JsonDangling
    <3>3. json \in Trees
      BY <1>1, <2>1, <2>3, ToSetEmpty DEF Array
    <3> QED
      BY <2>1, <2>3, <3>2, <3>3 DEF Array, Held, Trees
  <2> QED
    BY <1>1, <2>1, <2>2, <2>3, BufChanges, ToSetEmpty
<1> QED
  BY <1>2, <1>3, <1>4 DEF Pending, Handed

(* A post that reaches the server delivers a batch of the relay.           *)
LEMMA DeliverStep ==
    ASSUME RelayInv, [Next]_vars, inits <= 1, NEW f \in Flushers, PostServer(f),
           delivered' = delivered \o fbuf[f]
    PROVE  Relayed!Deliver
<1> DEFINE batch == fbuf[f]
<1>1. /\ fpc[f] = "post" /\ batch \in Seq(Requests) /\ delivered \in Seq(Requests)
      /\ fbuf' = [fbuf EXCEPT ![f] = <<>>] /\ fbuf \in [Flushers -> Seq(Requests)]
      /\ UNCHANGED <<requests, heap, freed, hpc, hitem>>
      /\ TypeOK /\ ReadingsSeen /\ PrintedFirst /\ BufUsed /\ requests \in Nat
  <2>1. TypeOK /\ ReadingsSeen /\ PrintedFirst /\ BufUsed
    BY DEF RelayInv, AccountInv, DanglingInv
  <2>2. /\ fbuf \in [Flushers -> Seq(Requests)] /\ delivered \in Seq(Requests)
        /\ requests \in Nat
    BY <2>1 DEF TypeOK
  <2> QED
    BY <2>1, <2>2 DEF PostServer, handlerVars, treeVars
<1>2. batch = SubSeq(delivered', Len(delivered) + 1, Len(delivered'))
  BY <1>1, SubSeqOfConcat
<1>3. Relayed!Increasing(batch)
  BY DEF RelayInv, Sorted, Increasing
<1>4. ToSet(batch) \subseteq Pending
  BY <1>1, ToSetType DEF Pending, InFlight
<1>5. ASSUME NEW s \in Requests, InFlight(s)'
      PROVE  FALSE
  <2>1. PICK g \in Flushers : s \in ToSet(fbuf'[g])
    BY <1>5 DEF InFlight
  <2>2. g # f
    BY <1>1, <2>1, ToSetEmpty
  <2>3. fpc[g] = "off"
    BY <1>1, <2>2, OneFlusher DEF RelayInv
  <2> QED
    BY <1>1, <2>1, <2>2, <2>3, ToSetEmpty DEF BufUsed
<1>6. ASSUME NEW s \in Pending'
      PROVE  \A r \in ToSet(batch) : r < s
  <2>1. CASE Held(s)'
    <3>1. PICK o \in Trees \ freed : s \in ToSet(heap[o])
      BY <1>1, <2>1 DEF Held, Trees
    <3> QED
      BY <1>1, <3>1 DEF PrintedFirst
  <2>2. CASE Handed(s)'
    BY <1>1, <1>6, <2>2 DEF Handed, ReadingsSeen, Seen, Pending
  <2> QED
    BY <1>5, <1>6, <2>1, <2>2 DEF Pending, Handed
<1>7. Pending' = Pending \ ToSet(batch)
  <2>1. ~RecvFails /\ ~RecvAndParse
    BY <1>1 DEF RecvFails, RecvAndParse
  <2>2. Pending' \subseteq Pending \ ToSet(batch)
    <3>1. \A s \in Pending' : s \in Nat /\ ~(s < s)
      BY DEF Pending
    <3> QED
      BY <1>6, <2>1, <3>1, PendingShrinks
  <2>3. ASSUME NEW s \in Pending \ ToSet(batch)
        PROVE  s \in Pending'
    <3>1. InFlight(s) => InFlight(s)'
      BY <1>1, <2>3 DEF InFlight
    <3>2. Held(s) => Held(s)'
      BY <1>1 DEF Held, Trees
    <3> QED
      BY <1>1, <2>3, <3>1, <3>2 DEF Pending, Handed
  <2> QED
    BY <2>2, <2>3
<1>8. \A r \in ToSet(batch), s \in Pending' : r < s
  BY <1>6
<1>9. delivered' = delivered \o batch /\ UNCHANGED requests
  BY <1>1
<1>10. Relayed!ToSet(batch) = ToSet(batch)
  BY DEF ToSet, Relayed!ToSet
<1> HIDE DEF batch
<1> QED
  BY <1>2, <1>3, <1>4, <1>7, <1>8, <1>9, <1>10 DEF Relayed!Deliver

(* Each step of the gateway is a step of the relay, or none, until a       *)
(* second init_handlers.                                                   *)
LEMMA RelayStep ==
    ASSUME RelayInv, [Next]_vars, inits <= 1
    PROVE  [Relayed!Next]_(Relayed!vars)
<1>1. CASE RecvFails \/ RecvAndParse
  <2>1. /\ hpc = "idle" /\ requests' = requests + 1 /\ requests' \in Requests
        /\ UNCHANGED <<heap, freed, fbuf, delivered>>
        /\ \/ hpc' = "idle"
           \/ hpc' = "check" /\ hitem' \in {requests', NULL}
    <3>1. requests \in Nat
      BY DEF RelayInv, AccountInv, DanglingInv, TypeOK
    <3>2. CASE RecvFails
      BY <3>1, <3>2 DEF RecvFails, flusherVars, treeVars, historyVars
    <3>3. CASE RecvAndParse
      BY <3>1, <3>3 DEF RecvAndParse, flusherVars, treeVars, historyVars
    <3> QED
      BY <1>1, <3>2, <3>3
  <2>2. \A r : (Held(r)' <=> Held(r)) /\ (InFlight(r)' <=> InFlight(r))
    BY <2>1 DEF Held, InFlight, Trees
  <2>3. Pending' \in {Pending, Pending \cup {requests'}}
    <3>1. CASE hpc' = "check" /\ hitem' = requests'
      BY <2>1, <2>2, <3>1 DEF Pending, Handed
    <3>2. CASE hpc' = "idle" \/ hitem' = NULL
      BY <2>1, <2>2, <3>2 DEF Pending, Handed
    <3> QED
      BY <2>1, <3>1, <3>2
  <2> QED
    BY <2>1, <2>3 DEF Relayed!Next, Relayed!Arrive
<1>2. ASSUME NEW f \in Flushers, PostServer(f), delivered' = delivered \o fbuf[f]
      PROVE  Relayed!Next
  BY <1>2, DeliverStep DEF Relayed!Next
<1>3. CASE /\ ~RecvFails /\ ~RecvAndParse
           /\ \A f \in Flushers : ~(PostServer(f) /\ delivered' = delivered \o fbuf[f])
  <2>1. Pending' = Pending \ (Pending \ Pending')
    BY <1>3, PendingShrinks
  <2>2. requests' = requests /\ delivered' = delivered
    BY <1>3
       DEF Next, TaskStep, Panic, InitHandlers, InitCreateJson, InitAddArray,
           InitCreateQueue, InitStartTask, DevicePostHandler, CheckBuffer, AddItemToArray,
           ChooseEvent, SendEvent, Respond, ServerClientTask, LoadQueue, ReceiveEvent,
           PrintJson, PrintFails, DeleteJson, CreateJson, AttachBuffer, PostServer,
           vars, handlerVars, historyVars
  <2>3. Relayed!Lose
    BY <2>1, <2>2 DEF Relayed!Lose
  <2> QED
    BY <2>3 DEF Relayed!Next
<1> QED
  BY <1>1, <1>2, <1>3

(* With one call of init_handlers the gateway is a relay: whatever the     *)
(* handler and the flusher interleave, and whichever allocations and posts *)
(* fail, each of their steps is one of the relay's or none.                *)
THEOREM RelayCorrect ==
    ASSUME MaxInits = 1
    PROVE  Spec => ImplementsRelay
<1>1. Init => Relayed!Init
  BY ToSetEmpty DEF Init, Relayed!Init, Pending, Held, InFlight, Handed, Trees
<1>2. RelayInv => inits <= 1
  BY DEF RelayInv, AccountInv, DanglingInv, TypeOK
<1> QED
  BY <1>1, <1>2, RelayInit, RelayNext, RelayStep, PTL DEF Spec, ImplementsRelay, Relayed!Spec

(***************************************************************************)
(* What the relay promises                                                 *)
(***************************************************************************)

(* The relay's own invariant: what is delivered is older than what may     *)
(* still be.                                                               *)
DeliveredFirst ==
    /\ requests \in Nat /\ delivered \in Seq(Nat)
    /\ Pending \subseteq 1..requests
    /\ \A r \in ToSet(delivered) : r <= requests
    /\ \A r \in ToSet(delivered), s \in Pending : r < s
    /\ Increasing(delivered)

(* In the relay itself, what is delivered stays increasing and older than  *)
(* what is pending.                                                        *)
LEMMA DeliveredFirstNext ==
    ASSUME DeliveredFirst, delivered' \in Seq(Nat), [Relayed!Next]_(Relayed!vars)
    PROVE  DeliveredFirst'
<1>1. CASE Relayed!Arrive
  <2>1. /\ requests' = requests + 1 /\ delivered' = delivered
        /\ Pending' \subseteq Pending \cup {requests'}
    BY <1>1 DEF Relayed!Arrive
  <2>2. \A r \in ToSet(delivered) : r \in Nat
    BY ToSetType DEF DeliveredFirst
  <2> QED
    BY <2>1, <2>2 DEF DeliveredFirst
<1>2. CASE Relayed!Deliver
  <2> DEFINE batch == SubSeq(delivered', Len(delivered) + 1, Len(delivered'))
  <2>1. /\ delivered' = delivered \o batch
        /\ Relayed!Increasing(batch)
        /\ Relayed!ToSet(batch) \subseteq Pending
        /\ Pending' = Pending \ Relayed!ToSet(batch)
        /\ \A r \in Relayed!ToSet(batch), s \in Pending' : r < s
        /\ requests' = requests
    BY <1>2 DEF Relayed!Deliver
  <2>2. Relayed!ToSet(batch) = ToSet(batch)
    BY DEF ToSet, Relayed!ToSet
  <2>3. /\ delivered \in Seq(Nat) /\ Len(delivered) \in Nat /\ Len(delivered') \in Nat
        /\ \A i \in (Len(delivered) + 1)..Len(delivered') : delivered'[i] \in Nat
    BY LenProperties, ElementOfSeq DEF DeliveredFirst
  <2>4. batch \in Seq(Nat)
    BY <2>3, SubSeqProperties
  <2> HIDE DEF batch
  <2>5. ToSet(delivered') = ToSet(delivered) \cup ToSet(batch)
    BY <2>1, <2>3, <2>4, ConcatElements
  <2>6. \A r \in ToSet(delivered), s \in ToSet(batch) : r < s
    BY <2>1, <2>2 DEF DeliveredFirst
  <2>7. Increasing(delivered')
    BY <2>1, <2>3, <2>4, <2>6, ConcatIncreasingly DEF DeliveredFirst, Increasing
  <2>8. \A r \in ToSet(delivered'), s \in Pending' : r < s
    BY <2>1, <2>2, <2>5 DEF DeliveredFirst
  <2>9. \A r \in ToSet(delivered') : r <= requests'
    <3>1. \A r \in ToSet(batch) : r \in 1..requests
      BY <2>1, <2>2 DEF DeliveredFirst
    <3>2. \A r \in ToSet(batch) : r <= requests
      BY <3>1 DEF DeliveredFirst
    <3> QED
      BY <2>1, <2>5, <3>2 DEF DeliveredFirst
  <2> QED
    BY <2>1, <2>7, <2>8, <2>9 DEF DeliveredFirst
<1>3. CASE Relayed!Lose \/ UNCHANGED Relayed!vars
  <2>1. UNCHANGED <<requests, delivered>> /\ Pending' \subseteq Pending
    BY <1>3 DEF Relayed!Lose, Relayed!vars
  <2> QED
    BY <2>1 DEF DeliveredFirst
<1> QED
  BY <1>1, <1>2, <1>3 DEF Relayed!Next

(* The server gets the readings in the order in which the gateway received *)
(* them and none twice, because the relay does (https_post_server).        *)
THEOREM OrderCorrect ==
    ASSUME MaxInits = 1
    PROVE  Spec => []DeliveredInOrder
<1>1. Relayed!Init /\ TypeOK => DeliveredFirst
  <2> SUFFICES ASSUME Relayed!Init, TypeOK PROVE DeliveredFirst
    OBVIOUS
  <2>1. requests = 0 /\ Pending = {} /\ delivered = <<>>
    BY DEF Relayed!Init
  <2> QED
    BY <2>1, EmptyIncreasing, EmptySeq DEF DeliveredFirst
<1>2. TypeOK' => delivered' \in Seq(Nat)
  BY DEF TypeOK
<1>3. DeliveredFirst => DeliveredInOrder
  BY DEF DeliveredFirst, DeliveredInOrder, Increasing, Relayed!Increasing
<1> QED
  BY <1>1, <1>2, <1>3, DeliveredFirstNext, RelayCorrect, TypeCorrect, PTL
     DEF ImplementsRelay, Relayed!Spec
=============================================================================
