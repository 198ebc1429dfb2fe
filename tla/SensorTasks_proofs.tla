-------------------------- MODULE SensorTasks_proofs --------------------------
(***************************************************************************)
(* Proofs about SensorTasks, for every queue length and any number of      *)
(* readings and got-ip events: type correctness, that no reading is freed  *)
(* while it waits or is held, that readings leak only when their queue is  *)
(* full or replaced, that the gateway never gets one twice, and that the   *)
(* queue in use is served.                                                 *)
(***************************************************************************)
EXTENDS SensorTasks, SequenceFacts

USE QueueLengthAssumption, MaxReadingsAssumption, MaxConnectsAssumption
USE DEF NULL

(***************************************************************************)
(* The inductive invariants                                                *)
(***************************************************************************)

(* No task runs before the first queue has been created, and a client      *)
(* waits at a queue that exists, as a sensor task sends to one.            *)
QueueExists ==
    /\ cbpc # "idle" => queue >= 1
    /\ \A c \in Connections : spc[c] # "off" \/ cpc[c] # "off" => queue >= 1
    /\ \A c \in Connections : cpc[c] = "receive" => cqueue[c] >= 1
    /\ \A s \in Connections : spc[s] = "send" => squeue[s] >= 1

(* A client has a reading from the receive to the free, a sensor task from *)
(* the allocation on.  A task that has not been started is off.            *)
TasksHold ==
    /\ \A c \in Connections : chas[c] # NULL <=> cpc[c] \in {"post", "free"}
    /\ \A s \in Connections : spc[s] \in {"load", "send", "log"} => shas[s] # NULL
    /\ \A c \in Connections :
         c > connects \/ (c = connects /\ cbpc = "client") => cpc[c] = "off"
    /\ \A s \in Connections :
         s > connects \/ (s = connects /\ cbpc # "idle") => spc[s] = "off"

(* What waits in a queue has been made.                                    *)
QueuedIsMade == \A q \in DOMAIN queues : Waiting(q) \subseteq 1..made

TypeInv == TypeOK /\ QueueExists /\ TasksHold /\ QueuedIsMade

Carries(s) == spc[s] \in {"load", "send"}
Carried == {shas[s] : s \in {s \in Connections : Carries(s)}}
Holding == {chas[c] : c \in Connections} \ {NULL}
Queued == UNION {Waiting(q) : q \in DOMAIN queues}

(* An address is in one place only: once in one queue, with one task, or   *)
(* with none any more.                                                     *)
OneOwner ==
    /\ \A q \in DOMAIN queues : IsInjective(queues[q])
    /\ \A p, q \in DOMAIN queues : p # q => Waiting(p) \cap Waiting(q) = {}
    /\ \A s, t \in Connections :
         Carries(s) /\ Carries(t) /\ shas[s] = shas[t] => s = t
    /\ \A c, d \in Connections : chas[c] # NULL /\ chas[c] = chas[d] => c = d

OnePlace ==
    /\ Queued \cap (Carried \cup Holding \cup freed \cup dropped) = {}
    /\ Carried \cap (Holding \cup freed \cup dropped) = {}
    /\ Holding \cap (freed \cup dropped) = {}
    /\ freed \cap dropped = {}

(* Every reading is somewhere.                                             *)
SomePlace == 1..made = Queued \cup Carried \cup Holding \cup freed \cup dropped

(* What the gateway has got is freed, or with the client that posted it.   *)
DeliveredIsBehind ==
    /\ IsInjective(delivered)
    /\ \A r \in ToSet(delivered) :
         r \in freed \/ \E c \in Connections : cpc[c] = "free" /\ chas[c] = r

OwnerInv == TypeInv /\ OneOwner /\ OnePlace /\ SomePlace /\ DeliveredIsBehind

(***************************************************************************)
(* Type correctness                                                        *)
(***************************************************************************)

(* The types, and what they rest on, hold when the sensor starts.          *)
LEMMA TypeInit == Init => TypeInv
<1> SUFFICES ASSUME Init PROVE TypeInv
  OBVIOUS
<1>1. /\ queues \in Seq(Seq(Readings)) /\ Len(queues) = 0 /\ DOMAIN queues = {}
      /\ delivered \in Seq(Readings)
  BY EmptySeq DEF Init
<1>2. /\ spc \in [Connections -> {"off", "make", "load", "send", "log"}]
      /\ cpc \in [Connections -> {"off", "load", "receive", "post", "free"}]
      /\ shas \in [Connections -> 0..made] /\ chas \in [Connections -> 0..made]
      /\ squeue \in [Connections -> 0..Len(queues)]
      /\ cqueue \in [Connections -> 0..Len(queues)]
  BY <1>1 DEF Init
<1>3. /\ connects \in 0..MaxConnects /\ made \in 0..MaxReadings /\ queue = Len(queues)
      /\ freed = {} /\ dropped = {} /\ posted = {} /\ replaced = {}
      /\ panicked = FALSE /\ cbpc = "idle"
  BY <1>1 DEF Init
<1>4. TypeOK
  BY <1>1, <1>2, <1>3 DEF TypeOK
<1>5. QueueExists /\ TasksHold /\ QueuedIsMade
  BY <1>1 DEF Init, QueueExists, TasksHold, QueuedIsMade
<1> QED
  BY <1>4, <1>5 DEF TypeInv

(* What one queue may hold; the rest of the queues is as it was.           *)
LEMMA QueuesType ==
    ASSUME TypeOK, NEW q \in DOMAIN queues, NEW w \in Seq(Readings)
    PROVE  /\ queues[q] \in Seq(Readings)
           /\ [queues EXCEPT ![q] = w] \in Seq(Seq(Readings))
           /\ Len([queues EXCEPT ![q] = w]) = Len(queues)
           /\ DOMAIN [queues EXCEPT ![q] = w] = DOMAIN queues
           /\ [queues EXCEPT ![q] = w][q] = w
           /\ \A p \in DOMAIN queues : p # q => [queues EXCEPT ![q] = w][p] = queues[p]
<1>1. queues \in Seq(Seq(Readings)) /\ q \in 1..Len(queues) /\ DOMAIN queues = 1..Len(queues)
  BY DEF TypeOK
<1>2. queues[q] \in Seq(Readings)
  BY <1>1, ElementOfSeq
<1> QED
  BY <1>1, <1>2, ExceptSeq

(* The types, with what they rest on, are inductive.                       *)
LEMMA TypeNext ==
    ASSUME TypeInv, [Next]_vars
    PROVE  TypeInv'
<1> USE DEF queueVars, callbackVars, sensorVars, clientVars
<1>0. /\ queues \in Seq(Seq(Readings)) /\ queue = Len(queues) /\ queue \in Nat
      /\ DOMAIN queues = 1..queue
      /\ \A q \in DOMAIN queues : Len(queues[q]) <= QueueLength
      /\ cbpc \in {"idle", "client", "sensor"} /\ connects \in 0..MaxConnects
      /\ spc \in [Connections -> {"off", "make", "load", "send", "log"}]
      /\ shas \in [Connections -> 0..made]
      /\ squeue \in [Connections -> 0..Len(queues)]
      /\ cpc \in [Connections -> {"off", "load", "receive", "post", "free"}]
      /\ cqueue \in [Connections -> 0..Len(queues)]
      /\ chas \in [Connections -> 0..made]
      /\ made \in 0..MaxReadings /\ made \in Nat
      /\ panicked \in BOOLEAN
      /\ freed \subseteq 1..made /\ dropped \subseteq 1..made
      /\ replaced \subseteq 1..made
      /\ posted \subseteq 1..made /\ delivered \in Seq(Readings)
      /\ QueueExists /\ TasksHold /\ QueuedIsMade
  BY LenProperties DEF TypeInv, TypeOK
<1>1. CASE UNCHANGED vars
  BY <1>1 DEF vars, TypeInv, TypeOK, QueueExists, TasksHold, QueuedIsMade, Waiting
<1>2. CASE Panic
  BY <1>2 DEF Panic, TypeInv, TypeOK, QueueExists, TasksHold, QueuedIsMade, Waiting
<1>3. ASSUME panicked' = panicked, CreateQueue
      PROVE  TypeInv'
  <2>1. /\ queues' \in Seq(Seq(Readings)) /\ Len(queues') = Len(queues) + 1
        /\ \A q \in 1..Len(queues) : queues'[q] = queues[q]
        /\ queues'[Len(queues) + 1] = <<>>
        /\ queue' = Len(queues) + 1
    <3>1. <<>> \in Seq(Readings)
      BY EmptySeq
    <3> QED
      BY <1>0, <1>3, <3>1, AppendElements DEF CreateQueue
  <2>2. DOMAIN queues' = 1..(Len(queues) + 1) /\ Len(<<>>) = 0
    BY <2>1, LenProperties
  <2>3. \A q \in DOMAIN queues' : q \in DOMAIN queues \/ q = Len(queues) + 1
    BY <1>0, <2>2
  <2>4. ASSUME NEW q \in DOMAIN queues'
        PROVE  Len(queues'[q]) <= QueueLength
    <3>1. CASE q \in DOMAIN queues
      BY <1>0, <2>1, <3>1
    <3>2. CASE q = Len(queues) + 1
      BY <2>1, <2>2, <3>2
    <3> QED
      BY <2>3, <3>1, <3>2
  <2>5. QueuedIsMade'
    BY <1>0, <1>3, <2>1, <2>2, <2>3, ToSetEmpty DEF QueuedIsMade, Waiting, CreateQueue
  <2>6. /\ cqueue' \in [Connections -> 0..Len(queues')]
        /\ squeue' \in [Connections -> 0..Len(queues')]
    BY <1>0, <1>3, <2>1 DEF CreateQueue
  <2>7. QueueExists' /\ TasksHold'
    <3>1. /\ connects \in Nat /\ connects' = connects + 1 /\ queue' = queue + 1
          /\ cbpc = "idle" /\ cbpc' = "client"
          /\ UNCHANGED <<spc, squeue, shas, cpc, cqueue, chas>>
      BY <1>0, <1>3 DEF CreateQueue
    <3>2. QueueExists'
      BY <1>0, <3>1 DEF QueueExists
    <3>3. ASSUME NEW c \in Connections, c > connects' \/ c = connects'
          PROVE  cpc'[c] = "off" /\ spc'[c] = "off"
      <4>1. c > connects
        BY <3>1, <3>3 DEF Connections
      <4> QED
        BY <1>0, <3>1, <4>1 DEF TasksHold
    <3> QED
      BY <1>0, <3>1, <3>2, <3>3 DEF TasksHold
  <2>8. connects' \in 0..MaxConnects
    BY <1>0, <1>3 DEF CreateQueue
  <2>9. replaced' \subseteq 1..made
    <3>1. InUse \subseteq 1..made
      <4>1. queue # NULL => queue \in DOMAIN queues
        BY <1>0
      <4> QED
        BY <1>0, <4>1 DEF InUse, QueuedIsMade, Waiting
    <3>2. Sending \subseteq 1..made
      BY <1>0 DEF Sending, TasksHold
    <3> QED
      BY <1>0, <1>3, <3>1, <3>2 DEF CreateQueue
  <2> QED
    BY <1>0, <1>3, <2>1, <2>4, <2>5, <2>6, <2>7, <2>8, <2>9
       DEF CreateQueue, TypeInv, TypeOK
<1>4. ASSUME panicked' = panicked, StartClient
      PROVE  TypeInv'
  <2>1. /\ cpc' = [cpc EXCEPT ![connects] = "load"] /\ cbpc = "client"
        /\ cbpc' = "sensor" /\ connects \in Nat
        /\ UNCHANGED <<queue, connects, spc, squeue, shas, cqueue, chas>>
    BY <1>0, <1>4 DEF StartClient
  <2>2. QueueExists'
    BY <1>0, <2>1 DEF QueueExists
  <2>3. TasksHold'
    <3>1. \A c \in Connections : cpc'[c] = IF c = connects THEN "load" ELSE cpc[c]
      BY <1>0, <2>1
    <3>2. connects \in Connections => cpc[connects] = "off"
      BY <1>0, <2>1 DEF TasksHold
    <3>3. \A c \in Connections : chas'[c] # NULL <=> cpc'[c] \in {"post", "free"}
      BY <1>0, <2>1, <3>1, <3>2 DEF TasksHold
    <3>4. \A c \in Connections :
            c > connects' \/ (c = connects' /\ cbpc' = "client") => cpc'[c] = "off"
      BY <1>0, <2>1, <3>1 DEF TasksHold, Connections
    <3> QED
      BY <1>0, <2>1, <3>3, <3>4 DEF TasksHold
  <2> QED
    BY <1>0, <1>4, <2>2, <2>3 DEF StartClient, TypeInv, TypeOK, QueuedIsMade, Waiting
<1>5. ASSUME panicked' = panicked, StartSensor
      PROVE  TypeInv'
  <2>1. TasksHold' /\ QueueExists'
    BY <1>0, <1>5 DEF StartSensor, TasksHold, QueueExists, Connections
  <2> QED
    BY <1>0, <1>5, <2>1 DEF StartSensor, TypeInv, TypeOK, QueuedIsMade, Waiting
<1>6. ASSUME panicked' = panicked, NEW s \in Connections, MakeReading(s)
      PROVE  TypeInv'
  <2>1. made' = made + 1 /\ made' \in 0..MaxReadings
    BY <1>0, <1>6 DEF MakeReading
  <2>2. 0..made \subseteq 0..made' /\ 1..made \subseteq 1..made' /\ made + 1 \in 0..made'
    BY <1>0, <2>1
  <2>3. /\ shas' \in [Connections -> 0..made'] /\ chas' \in [Connections -> 0..made']
        /\ freed' \subseteq 1..made' /\ dropped' \subseteq 1..made'
        /\ posted' \subseteq 1..made' /\ replaced' \subseteq 1..made'
    BY <1>0, <1>6, <2>2 DEF MakeReading
  <2>4. QueueExists' /\ TasksHold'
    BY <1>0, <1>6 DEF MakeReading, QueueExists, TasksHold
  <2>5. QueuedIsMade'
    BY <1>0, <1>6, <2>2 DEF MakeReading, QueuedIsMade, Waiting
  <2> QED
    BY <1>0, <1>6, <2>1, <2>3, <2>4, <2>5 DEF MakeReading, TypeInv, TypeOK
<1>7. ASSUME panicked' = panicked, NEW s \in Connections, SendReading(s)
      PROVE  TypeInv'
  <2> DEFINE q == squeue[s]
  <2>1. /\ q \in DOMAIN queues /\ shas[s] \in 1..made /\ shas[s] \in Readings
    BY <1>0, <1>7 DEF SendReading, QueueExists, TasksHold, Readings
  <2>2. QueueExists' /\ TasksHold'
    BY <1>0, <1>7 DEF SendReading, QueueExists, TasksHold
  <2>3. CASE /\ Len(queues[q]) < QueueLength
             /\ queues' = [queues EXCEPT ![q] = Append(@, shas[s])]
             /\ UNCHANGED dropped
    <3> DEFINE w == Append(queues[q], shas[s])
    <3>1. queues[q] \in Seq(Readings)
      BY <1>0, <2>1, ElementOfSeq
    <3>2. /\ w \in Seq(Readings) /\ Len(w) <= QueueLength
          /\ ToSet(w) = ToSet(queues[q]) \cup {shas[s]}
      BY <2>1, <2>3, <3>1, AppendElements
    <3>3. queues' = [queues EXCEPT ![q] = w]
      BY <2>3
    <3> HIDE DEF w
    <3>4. /\ queues' \in Seq(Seq(Readings)) /\ Len(queues') = Len(queues)
          /\ DOMAIN queues' = DOMAIN queues /\ queues'[q] = w
          /\ \A p \in DOMAIN queues : p # q => queues'[p] = queues[p]
      BY <2>1, <3>2, <3>3, QueuesType DEF TypeInv
    <3>5. \A p \in DOMAIN queues' : Len(queues'[p]) <= QueueLength
      BY <1>0, <3>2, <3>4
    <3>6. QueuedIsMade'
      BY <1>0, <1>7, <2>1, <3>2, <3>4 DEF QueuedIsMade, Waiting, SendReading
    <3> QED
      BY <1>0, <1>7, <2>2, <2>3, <3>4, <3>5, <3>6 DEF SendReading, TypeInv, TypeOK
  <2>4. CASE /\ dropped' = dropped \cup {shas[s]}
             /\ UNCHANGED queues
    BY <1>0, <1>7, <2>1, <2>2, <2>4
       DEF SendReading, TypeInv, TypeOK, QueuedIsMade, Waiting
  <2> QED
    BY <1>7, <2>3, <2>4 DEF SendReading
<1>8. ASSUME panicked' = panicked, NEW s \in Connections, LogReading(s)
      PROVE  TypeInv'
  <2>1. QueueExists' /\ TasksHold'
    BY <1>0, <1>8 DEF LogReading, QueueExists, TasksHold
  <2> QED
    BY <1>0, <1>8, <2>1 DEF LogReading, TypeInv, TypeOK, QueuedIsMade, Waiting
<1>9. ASSUME panicked' = panicked, NEW c \in Connections, LoadQueue(c)
      PROVE  TypeInv'
  <2>1. QueueExists' /\ TasksHold'
    BY <1>0, <1>9 DEF LoadQueue, QueueExists, TasksHold
  <2>2. cqueue' \in [Connections -> 0..Len(queues')]
    BY <1>0, <1>9 DEF LoadQueue
  <2> QED
    BY <1>0, <1>9, <2>1, <2>2 DEF LoadQueue, TypeInv, TypeOK, QueuedIsMade, Waiting
<1>10. ASSUME panicked' = panicked, NEW c \in Connections, ReceiveReading(c)
       PROVE  TypeInv'
  <2> DEFINE q == cqueue[c]
             w == Tail(queues[q])
  <2>1. q \in DOMAIN queues
    BY <1>0, <1>10 DEF ReceiveReading, QueueExists
  <2>2. queues[q] \in Seq(Readings) /\ queues[q] # <<>> /\ Len(queues[q]) <= QueueLength
    BY <1>0, <1>10, <2>1, QueuesType DEF ReceiveReading, TypeInv
  <2>3. /\ w \in Seq(Readings) /\ Len(w) = Len(queues[q]) - 1 /\ Len(queues[q]) \in Nat
        /\ ToSet(queues[q]) = {Head(queues[q])} \cup ToSet(w)
    BY <2>2, TailElements
  <2>4. queues' = [queues EXCEPT ![q] = w]
    BY <1>10 DEF ReceiveReading
  <2>5. Len(w) <= QueueLength
    BY <2>2, <2>3
  <2> HIDE DEF w
  <2>6. /\ queues' \in Seq(Seq(Readings)) /\ Len(queues') = Len(queues)
        /\ DOMAIN queues' = DOMAIN queues /\ queues'[q] = w
        /\ \A p \in DOMAIN queues : p # q => queues'[p] = queues[p]
    BY <2>1, <2>3, <2>4, QueuesType DEF TypeInv
  <2>7. \A p \in DOMAIN queues' : Len(queues'[p]) <= QueueLength
    BY <1>0, <2>5, <2>6
  <2>8. Head(queues[q]) \in 1..made
    BY <1>0, <2>1, <2>3 DEF QueuedIsMade, Waiting
  <2>9. chas' = [chas EXCEPT ![c] = Head(queues[q])]
    BY <1>10 DEF ReceiveReading
  <2>10. chas' \in [Connections -> 0..made]
    BY <1>0, <2>8, <2>9
  <2>11. QueuedIsMade'
    BY <1>0, <1>10, <2>1, <2>3, <2>6 DEF QueuedIsMade, Waiting, ReceiveReading
  <2>12. TasksHold' /\ QueueExists'
    BY <1>0, <1>10, <2>8, <2>9 DEF TasksHold, QueueExists, ReceiveReading
  <2> QED
    BY <1>0, <1>10, <2>6, <2>7, <2>10, <2>11, <2>12 DEF ReceiveReading, TypeInv, TypeOK
<1>11. ASSUME panicked' = panicked, NEW c \in Connections, PostGateway(c)
       PROVE  TypeInv'
  <2>1. chas[c] \in 1..made /\ chas[c] \in Readings
    BY <1>0, <1>11 DEF PostGateway, TasksHold, Readings
  <2>2. delivered' \in Seq(Readings)
    <3>1. delivered' \in {delivered, Append(delivered, chas[c])}
      BY <1>11 DEF PostGateway
    <3>2. delivered \in Seq(Readings) /\ Append(delivered, chas[c]) \in Seq(Readings)
      BY <1>0, <2>1
    <3> QED
      BY <3>1, <3>2
  <2>3. QueueExists' /\ TasksHold'
    BY <1>0, <1>11 DEF PostGateway, QueueExists, TasksHold
  <2>4. posted' \subseteq 1..made
    BY <1>0, <1>11, <2>1 DEF PostGateway
  <2> QED
    BY <1>0, <1>11, <2>2, <2>3, <2>4
       DEF PostGateway, TypeInv, TypeOK, QueuedIsMade, Waiting
<1>12. ASSUME panicked' = panicked, NEW c \in Connections, FreeReading(c)
       PROVE  TypeInv'
  <2>1. freed' \subseteq 1..made
    <3>1. chas[c] \in 1..made
      BY <1>0, <1>12 DEF FreeReading, TasksHold
    <3> QED
      BY <1>0, <1>12, <3>1 DEF FreeReading
  <2>2. chas' \in [Connections -> 0..made]
    BY <1>0, <1>12 DEF FreeReading
  <2>3. QueueExists' /\ TasksHold'
    BY <1>0, <1>12 DEF FreeReading, QueueExists, TasksHold
  <2> QED
    BY <1>0, <1>12, <2>1, <2>2, <2>3
       DEF FreeReading, TypeInv, TypeOK, QueuedIsMade, Waiting
<1>13. ASSUME panicked' = panicked, NEW s \in Connections, LoadQueueToSend(s)
       PROVE  TypeInv'
  <2>1. queue >= 1 /\ queue \in 0..Len(queues)
    BY <1>0, <1>13 DEF LoadQueueToSend, QueueExists
  <2>2. squeue' \in [Connections -> 0..Len(queues')]
    BY <1>0, <1>13, <2>1 DEF LoadQueueToSend
  <2>3. QueueExists' /\ TasksHold'
    BY <1>0, <1>13, <2>1 DEF LoadQueueToSend, QueueExists, TasksHold
  <2> QED
    BY <1>0, <1>13, <2>2, <2>3
       DEF LoadQueueToSend, TypeInv, TypeOK, QueuedIsMade, Waiting
<1> QED
  BY <1>1, <1>2, <1>3, <1>4, <1>5, <1>6, <1>7, <1>8, <1>9, <1>10, <1>11, <1>12, <1>13
     DEF Next, TaskStep, ConnectionOk, SensorTask, GatewayClientTask

(* The state of a sensor always has its shape: handles refer to queues     *)
(* that exist, addresses to readings that were allocated, and no queue     *)
(* holds more than its length.                                             *)
THEOREM TypeCorrect == Spec => []TypeOK
<1>1. TypeInv => TypeOK
  BY DEF TypeInv
<1> QED
  BY TypeInit, TypeNext, <1>1, PTL DEF Spec

(***************************************************************************)
(* One place for every reading                                             *)
(***************************************************************************)

(* There are no readings when the sensor starts.                           *)
LEMMA OwnerInit == Init => OwnerInv
<1> SUFFICES ASSUME Init PROVE OwnerInv
  OBVIOUS
<1>1. DOMAIN queues = {} /\ DOMAIN delivered = {}
  BY DEF Init
<1>2. /\ Queued = {} /\ Carried = {} /\ Holding = {}
      /\ freed = {} /\ dropped = {} /\ made = 0
  BY <1>1 DEF Init, Queued, Carried, Carries, Holding
<1>3. OneOwner /\ OnePlace
  BY <1>1, <1>2 DEF Init, OneOwner, OnePlace, Carries
<1>4. SomePlace
  BY <1>2 DEF SomePlace
<1>5. DeliveredIsBehind
  BY <1>1 DEF DeliveredIsBehind, IsInjective, ToSet
<1> QED
  BY TypeInit, <1>3, <1>4, <1>5 DEF OwnerInv

(* A queue gets a reading that was in none.                                *)
LEMMA QueueGrows ==
    ASSUME TypeInv, OneOwner, NEW q \in DOMAIN queues, NEW r \in Readings,
           r \notin Queued, queues' = [queues EXCEPT ![q] = Append(@, r)]
    PROVE  /\ Queued' = Queued \cup {r}
           /\ \A p \in DOMAIN queues' : IsInjective(queues'[p])
           /\ \A p, o \in DOMAIN queues' : p # o => Waiting(p)' \cap Waiting(o)' = {}
<1> DEFINE w == Append(queues[q], r)
<1>1. queues[q] \in Seq(Readings)
  BY ElementOfSeq DEF TypeInv, TypeOK
<1>2. w \in Seq(Readings) /\ ToSet(w) = Waiting(q) \cup {r}
  BY <1>1, AppendElements DEF Waiting
<1>3. IsInjective(w)
  BY <1>1, AppendInjectively DEF OneOwner, Queued, Waiting
<1>4. queues' = [queues EXCEPT ![q] = w]
  OBVIOUS
<1> HIDE DEF w
<1>5. /\ DOMAIN queues' = DOMAIN queues /\ queues'[q] = w
      /\ \A p \in DOMAIN queues : p # q => queues'[p] = queues[p]
  BY <1>2, <1>4, QueuesType DEF TypeInv
<1>6. /\ Waiting(q)' = Waiting(q) \cup {r}
      /\ \A p \in DOMAIN queues : p # q => Waiting(p)' = Waiting(p)
  BY <1>2, <1>5 DEF Waiting
<1>7. Queued' = Queued \cup {r}
  BY <1>5, <1>6 DEF Queued
<1>8. \A p \in DOMAIN queues' : IsInjective(queues'[p])
  BY <1>3, <1>5 DEF OneOwner
<1>9. \A p, o \in DOMAIN queues' : p # o => Waiting(p)' \cap Waiting(o)' = {}
  BY <1>5, <1>6 DEF OneOwner, Queued
<1> QED
  BY <1>7, <1>8, <1>9

(* A queue gives its first reading away.                                   *)
LEMMA QueueShrinks ==
    ASSUME TypeInv, OneOwner, NEW q \in DOMAIN queues, queues[q] # <<>>,
           queues' = [queues EXCEPT ![q] = Tail(@)]
    PROVE  /\ Head(queues[q]) \in Queued
           /\ Queued' = Queued \ {Head(queues[q])}
           /\ \A p \in DOMAIN queues' : IsInjective(queues'[p])
           /\ \A p, o \in DOMAIN queues' : p # o => Waiting(p)' \cap Waiting(o)' = {}
<1> DEFINE w == Tail(queues[q])
           r == Head(queues[q])
<1>1. queues[q] \in Seq(Readings)
  BY ElementOfSeq DEF TypeInv, TypeOK
<1>2. w \in Seq(Readings) /\ Waiting(q) = {r} \cup ToSet(w)
  BY <1>1, TailElements DEF Waiting
<1>3. IsInjective(w) /\ r \notin ToSet(w)
  BY <1>1, TailInjectively DEF OneOwner
<1>4. queues' = [queues EXCEPT ![q] = w]
  OBVIOUS
<1> HIDE DEF w, r
<1>5. /\ DOMAIN queues' = DOMAIN queues /\ queues'[q] = w
      /\ \A p \in DOMAIN queues : p # q => queues'[p] = queues[p]
  BY <1>2, <1>4, QueuesType DEF TypeInv
<1>6. /\ Waiting(q)' = Waiting(q) \ {r}
      /\ \A p \in DOMAIN queues : p # q => Waiting(p)' = Waiting(p)
  BY <1>2, <1>3, <1>5 DEF Waiting
<1>7. r \in Waiting(q) /\ \A p \in DOMAIN queues : p # q => r \notin Waiting(p)
  BY <1>2 DEF OneOwner
<1>8. Queued' = Queued \ {r} /\ r \in Queued
  BY <1>5, <1>6, <1>7 DEF Queued
<1>9. \A p \in DOMAIN queues' : IsInjective(queues'[p])
  BY <1>3, <1>5 DEF OneOwner
<1>10. \A p, o \in DOMAIN queues' : p # o => Waiting(p)' \cap Waiting(o)' = {}
  BY <1>5, <1>6 DEF OneOwner
<1> QED
  BY <1>8, <1>9, <1>10 DEF r

(* Each step passes a reading from one owner to the next.                  *)
LEMMA OwnerNext ==
    ASSUME OwnerInv, [Next]_vars
    PROVE  OwnerInv'
<1> USE DEF queueVars, callbackVars, sensorVars, clientVars
<1>0. /\ TypeInv /\ TypeInv' /\ TypeOK
      /\ OneOwner /\ OnePlace /\ SomePlace /\ DeliveredIsBehind
  BY TypeNext DEF OwnerInv, TypeInv
<1>1. /\ spc \in [Connections -> {"off", "make", "load", "send", "log"}]
      /\ shas \in [Connections -> 0..made]
      /\ cpc \in [Connections -> {"off", "load", "receive", "post", "free"}]
      /\ chas \in [Connections -> 0..made]
      /\ made \in 0..MaxReadings
      /\ \A c \in Connections : chas[c] # NULL <=> cpc[c] \in {"post", "free"}
      /\ Queued \subseteq 1..made /\ freed \subseteq 1..made /\ dropped \subseteq 1..made
      /\ Carried \subseteq 1..made /\ Holding \subseteq 1..made
  BY <1>0 DEF TypeInv, TypeOK, TasksHold, SomePlace
<1>2. CASE UNCHANGED <<queues, spc, shas, cpc, chas, made, freed, dropped, delivered>>
  BY <1>0, <1>2
     DEF OwnerInv, OneOwner, OnePlace, SomePlace, DeliveredIsBehind, Queued, Waiting,
         Carried, Carries, Holding
<1>3. CASE CreateQueue
  <2>1. /\ DOMAIN queues = 1..Len(queues) /\ DOMAIN queues' = 1..(Len(queues) + 1)
        /\ Len(queues) \in Nat
        /\ \A q \in DOMAIN queues : queues'[q] = queues[q]
        /\ queues'[Len(queues) + 1] = <<>>
    <3>1. queues \in Seq(Seq(Readings)) /\ <<>> \in Seq(Readings)
      BY <1>0, EmptySeq DEF TypeOK
    <3> QED
      BY <1>3, <3>1, AppendElements DEF CreateQueue
  <2>2. \A q \in DOMAIN queues' : q \in DOMAIN queues \/ queues'[q] = <<>>
    BY <2>1
  <2>3. /\ DOMAIN queues \subseteq DOMAIN queues'
        /\ \A q \in DOMAIN queues : Waiting(q)' = Waiting(q)
        /\ \A q \in DOMAIN queues' \ DOMAIN queues : Waiting(q)' = {}
    BY <2>1, <2>2, ToSetEmpty DEF Waiting
  <2>4. Queued' = Queued
    BY <2>3 DEF Queued
  <2>5. IsInjective(<<>>)
    BY DEF IsInjective
  <2>6. OneOwner'
    BY <1>0, <1>3, <2>1, <2>2, <2>3, <2>5 DEF OneOwner, CreateQueue, Carries
  <2>7. UNCHANGED <<spc, shas, cpc, chas, made, freed, dropped, delivered>>
    BY <1>3 DEF CreateQueue
  <2>8. Carried' = Carried /\ Holding' = Holding
    BY <2>7 DEF Carried, Carries, Holding
  <2>9. OnePlace' /\ SomePlace'
    BY <1>0, <2>4, <2>7, <2>8 DEF OnePlace, SomePlace
  <2>10. DeliveredIsBehind'
    BY <1>0, <2>7 DEF DeliveredIsBehind
  <2> QED
    BY <1>0, <2>6, <2>9, <2>10 DEF OwnerInv
<1>4. CASE StartClient
  <2>1. connects \in Connections => cpc[connects] = "off"
    BY <1>0, <1>4 DEF TypeInv, TasksHold, StartClient
  <2>2. DeliveredIsBehind'
    BY <1>0, <1>1, <1>4, <2>1 DEF DeliveredIsBehind, StartClient
  <2> QED
    BY <1>0, <1>4, <2>2
       DEF OwnerInv, OneOwner, OnePlace, SomePlace, Queued, Waiting, Carried, Carries, Holding,
           StartClient
<1>5. ASSUME NEW s \in Connections, NEW p \in {"make", "send"},
             Carries(s) <=> p = "send", spc' = [spc EXCEPT ![s] = p],
             UNCHANGED <<queues, shas, cpc, chas, made, freed, dropped, delivered>>
      PROVE  OwnerInv'
  <2>1. \A t \in Connections : Carries(t)' <=> Carries(t)
    BY <1>1, <1>5 DEF Carries
  <2>2. Carried' = Carried
    BY <1>5, <2>1 DEF Carried
  <2>3. OneOwner'
    BY <1>0, <1>5, <2>1 DEF OneOwner, Waiting
  <2> QED
    BY <1>0, <1>5, <2>2, <2>3
       DEF OwnerInv, OnePlace, SomePlace, DeliveredIsBehind, Queued, Waiting, Holding
<1>6. ASSUME NEW s \in Connections, MakeReading(s)
      PROVE  OwnerInv'
  <2>1. made' = made + 1 /\ made' \notin 1..made /\ 1..made' = 1..made \cup {made'}
    BY <1>1, <1>6 DEF MakeReading
  <2>2. /\ shas'[s] = made' /\ Carries(s)'
        /\ \A t \in Connections \ {s} : shas'[t] = shas[t] /\ Carries(t)' = Carries(t)
        /\ ~Carries(s)
    BY <1>1, <1>6 DEF MakeReading, Carries
  <2>3. Carried' = Carried \cup {made'}
    BY <2>2 DEF Carried
  <2>4. OneOwner'
    <3>1. \A t \in Connections : Carries(t) => shas[t] # made'
      BY <1>1, <2>1 DEF Carried
    <3> QED
      BY <1>0, <1>6, <2>2, <3>1 DEF OneOwner, Waiting, MakeReading
  <2>5. UNCHANGED <<Queued, Holding, freed, dropped>>
    BY <1>6 DEF MakeReading, Queued, Waiting, Holding
  <2>6. OnePlace' /\ SomePlace'
    BY <1>0, <1>1, <2>1, <2>3, <2>5 DEF OnePlace, SomePlace
  <2>7. DeliveredIsBehind'
    BY <1>0, <1>6 DEF DeliveredIsBehind, MakeReading
  <2> QED
    BY <1>0, <2>4, <2>6, <2>7 DEF OwnerInv
<1>7. ASSUME NEW s \in Connections, SendReading(s)
      PROVE  OwnerInv'
  <2> DEFINE r == shas[s]
  <2>1. /\ Carries(s) /\ ~Carries(s)' /\ shas' = shas
        /\ \A t \in Connections \ {s} : Carries(t)' = Carries(t)
    BY <1>1, <1>7 DEF SendReading, Carries
  <2>2. r \in Carried /\ Carried' = Carried \ {r}
    BY <1>0, <2>1 DEF Carried, OneOwner
  <2>3. UNCHANGED <<Holding, freed, made>> /\ DeliveredIsBehind'
    BY <1>0, <1>7 DEF SendReading, Holding, DeliveredIsBehind
  <2>4. \A t, u \in Connections :
          Carries(t)' /\ Carries(u)' /\ shas'[t] = shas'[u] => t = u
    BY <1>0, <2>1 DEF OneOwner
  <2>5. \A c, d \in Connections : chas'[c] # NULL /\ chas'[c] = chas'[d] => c = d
    BY <1>0, <1>7 DEF OneOwner, SendReading
  <2>6. CASE queues' = [queues EXCEPT ![squeue[s]] = Append(@, r)] /\ dropped' = dropped
    <3>1. squeue[s] \in DOMAIN queues
      BY <1>0, <1>7, LenProperties DEF TypeInv, TypeOK, QueueExists, SendReading
    <3>2. r \in Readings /\ r \notin Queued
      BY <1>0, <1>1, <2>2 DEF OnePlace, Readings
    <3>3. Queued' = Queued \cup {r} /\ OneOwner'
      BY <1>0, <2>4, <2>5, <2>6, <3>1, <3>2, QueueGrows DEF OneOwner
    <3>4. OnePlace' /\ SomePlace'
      BY <1>0, <2>2, <2>3, <2>6, <3>3 DEF OnePlace, SomePlace
    <3> QED
      BY <1>0, <2>3, <3>3, <3>4 DEF OwnerInv
  <2>7. CASE queues' = queues /\ dropped' = dropped \cup {r}
    <3>1. UNCHANGED Queued /\ OneOwner'
      BY <1>0, <2>4, <2>5, <2>7 DEF Queued, Waiting, OneOwner
    <3>2. OnePlace' /\ SomePlace'
      BY <1>0, <2>2, <2>3, <2>7, <3>1 DEF OnePlace, SomePlace
    <3> QED
      BY <1>0, <2>3, <3>1, <3>2 DEF OwnerInv
  <2> QED
    BY <1>7, <2>6, <2>7 DEF SendReading
<1>8. ASSUME NEW c \in Connections, LoadQueue(c)
      PROVE  OwnerInv'
  <2>1. \A d \in Connections : cpc'[d] = "free" <=> cpc[d] = "free"
    BY <1>1, <1>8 DEF LoadQueue
  <2> QED
    BY <1>0, <1>8, <2>1
       DEF OwnerInv, OneOwner, OnePlace, SomePlace, DeliveredIsBehind, Queued, Waiting,
           Carried, Carries, Holding, LoadQueue
<1>9. ASSUME NEW c \in Connections, ReceiveReading(c)
      PROVE  OwnerInv'
  <2> DEFINE q == cqueue[c]
             r == Head(queues[q])
  <2>1. q \in DOMAIN queues
    BY <1>0, <1>9, LenProperties DEF ReceiveReading, TypeInv, TypeOK, QueueExists
  <2>2. /\ r \in Queued /\ Queued' = Queued \ {r}
        /\ \A p \in DOMAIN queues' : IsInjective(queues'[p])
        /\ \A p, o \in DOMAIN queues' : p # o => Waiting(p)' \cap Waiting(o)' = {}
    BY <1>0, <1>9, <2>1, QueueShrinks DEF ReceiveReading
  <2>3. /\ chas[c] = NULL /\ chas'[c] = r /\ r # NULL
        /\ \A d \in Connections \ {c} : chas'[d] = chas[d]
    <3>1. cpc[c] = "receive" /\ chas' = [chas EXCEPT ![c] = r]
      BY <1>9 DEF ReceiveReading
    <3>2. r \in 1..made
      BY <1>1, <2>2
    <3> HIDE DEF r
    <3> QED
      BY <1>1, <3>1, <3>2
  <2> HIDE DEF r
  <2>4. Holding' = Holding \cup {r} /\ r \notin Holding
    BY <1>0, <2>2, <2>3 DEF Holding, OnePlace
  <2>5. \A d \in Connections : chas[d] # r
    BY <2>3, <2>4 DEF Holding
  <2>6. OneOwner'
    BY <1>0, <1>9, <2>2, <2>3, <2>5 DEF OneOwner, ReceiveReading, Carries
  <2>7. UNCHANGED <<Carried, freed, dropped, made>>
    BY <1>9 DEF ReceiveReading, Carried, Carries
  <2>8. OnePlace' /\ SomePlace'
    BY <1>0, <2>2, <2>4, <2>7 DEF OnePlace, SomePlace
  <2>9. \A d \in Connections : cpc[d] = "free" => cpc'[d] = "free" /\ chas'[d] = chas[d]
    BY <1>1, <1>9, <2>3 DEF ReceiveReading
  <2>10. DeliveredIsBehind'
    BY <1>0, <1>9, <2>9 DEF DeliveredIsBehind, ReceiveReading
  <2> QED
    BY <1>0, <2>6, <2>8, <2>10 DEF OwnerInv
<1>10. ASSUME NEW c \in Connections, PostGateway(c)
       PROVE  OwnerInv'
  <2> DEFINE r == chas[c]
  <2>1. r \in Holding /\ r \in Readings
    BY <1>1, <1>10 DEF PostGateway, Holding, Readings
  <2>2. /\ cpc'[c] = "free" /\ chas'[c] = r
        /\ \A d \in Connections : cpc[d] = "free" => cpc'[d] = "free" /\ chas'[d] = chas[d]
    BY <1>1, <1>10 DEF PostGateway
  <2>3. r \notin ToSet(delivered)
    <3>1. r \notin freed
      BY <1>0, <2>1 DEF OnePlace
    <3>2. \A d \in Connections : cpc[d] = "free" => chas[d] # r
      BY <1>0, <1>1, <1>10 DEF OneOwner, PostGateway
    <3> QED
      BY <1>0, <3>1, <3>2 DEF DeliveredIsBehind
  <2>4. ASSUME delivered' = delivered
        PROVE  DeliveredIsBehind'
    <3>1. freed' = freed
      BY <1>10 DEF PostGateway
    <3> QED
      BY <1>0, <2>2, <2>4, <3>1 DEF DeliveredIsBehind
  <2>5. delivered \in Seq(Readings)
    BY <1>0 DEF TypeOK
  <2>6. ASSUME delivered' = Append(delivered, r)
        PROVE  DeliveredIsBehind'
    <3>1. ToSet(delivered') = ToSet(delivered) \cup {r}
      BY <2>1, <2>5, <2>6, AppendElements
    <3>2. IsInjective(delivered')
      BY <1>0, <2>1, <2>3, <2>5, <2>6, AppendInjectively DEF DeliveredIsBehind
    <3>3. freed' = freed
      BY <1>10 DEF PostGateway
    <3> HIDE DEF r
    <3> QED
      BY <1>0, <2>2, <3>1, <3>2, <3>3 DEF DeliveredIsBehind
  <2>7. UNCHANGED <<queues, spc, shas, chas, made, freed, dropped>>
    BY <1>10 DEF PostGateway
  <2>8. DeliveredIsBehind'
    <3>1. delivered' \in {delivered, Append(delivered, r)}
      BY <1>10 DEF PostGateway
    <3> QED
      BY <2>4, <2>6, <3>1
  <2> QED
    BY <1>0, <2>7, <2>8
       DEF OwnerInv, OneOwner, OnePlace, SomePlace, Queued, Waiting, Carried, Carries, Holding
<1>11. ASSUME NEW c \in Connections, FreeReading(c)
       PROVE  OwnerInv'
  <2> DEFINE r == chas[c]
  <2>1. /\ r # NULL /\ chas'[c] = NULL /\ freed' = freed \cup {r}
        /\ \A d \in Connections \ {c} : chas'[d] = chas[d] /\ cpc'[d] = cpc[d]
    BY <1>1, <1>11 DEF FreeReading
  <2>2. r \in Holding /\ Holding' = Holding \ {r}
    BY <1>0, <2>1 DEF Holding, OneOwner
  <2>3. UNCHANGED <<Queued, Carried, dropped, made>>
    BY <1>11 DEF FreeReading, Queued, Waiting, Carried, Carries
  <2>4. OnePlace' /\ SomePlace'
    BY <1>0, <2>1, <2>2, <2>3 DEF OnePlace, SomePlace
  <2>5. OneOwner'
    BY <1>0, <1>11, <2>1 DEF OneOwner, Waiting, FreeReading, Carries
  <2>6. DeliveredIsBehind'
    BY <1>0, <1>11, <2>1 DEF DeliveredIsBehind, FreeReading
  <2> QED
    BY <1>0, <2>4, <2>5, <2>6 DEF OwnerInv
<1>12. CASE StartSensor
  <2>1. CASE connects \in Connections
    <3>1. ~Carries(connects)
      BY <1>0, <1>12, <2>1 DEF TypeInv, TasksHold, StartSensor, Carries
    <3> QED
      BY <1>5, <1>12, <2>1, <3>1 DEF StartSensor
  <2>2. CASE connects \notin Connections
    <3>1. spc' = spc
      BY <1>1, <1>12, <2>2 DEF StartSensor
    <3> QED
      BY <1>2, <1>12, <3>1 DEF StartSensor
  <2> QED
    BY <2>1, <2>2
<1>13. ASSUME NEW s \in Connections, LogReading(s) \/ LoadQueueToSend(s)
       PROVE  OwnerInv'
  BY <1>5, <1>13 DEF LogReading, LoadQueueToSend, Carries
<1>14. CASE Panic \/ UNCHANGED vars
  BY <1>2, <1>14 DEF Panic, vars
<1> QED
  BY <1>3, <1>4, <1>6, <1>7, <1>8, <1>9, <1>10, <1>11, <1>12, <1>13, <1>14
     DEF Next, TaskStep, ConnectionOk, SensorTask, GatewayClientTask

(* No reading is freed while it waits in a queue or is with a client, for  *)
(* any number of connections and their tasks (FreeReading against the      *)
(* other clients).                                                         *)
THEOREM HeldCorrect == Spec => []HeldIsLive
<1>1. OwnerInv => HeldIsLive
  <2> SUFFICES ASSUME OwnerInv, NEW r \in freed
               PROVE  ~InQueue(r) /\ ~AtClient(r)
    BY DEF HeldIsLive
  <2>1. r \notin Queued /\ r \notin Holding /\ r # NULL
    BY DEF OwnerInv, OnePlace, TypeInv, TypeOK
  <2> QED
    BY <2>1 DEF Queued, Holding, InQueue, AtClient
<1> QED
  BY OwnerInit, OwnerNext, <1>1, PTL DEF Spec

(* What waits in a queue that was replaced, or is about to be sent to one, *)
(* was there when it was replaced: nothing enters such a queue unnoticed.  *)
ReplacedInv ==
    /\ \A q \in DOMAIN queues : q # queue => Waiting(q) \subseteq replaced
    /\ \A s \in Connections :
         spc[s] = "send" /\ squeue[s] # queue => shas[s] \in replaced

(* Every step keeps the account of the queues that were replaced.          *)
LEMMA ReplacedNext ==
    ASSUME TypeInv, ReplacedInv, [Next]_vars
    PROVE  ReplacedInv'
<1> USE DEF queueVars, callbackVars, sensorVars, clientVars
<1>1. /\ queues \in Seq(Seq(Readings)) /\ queue = Len(queues)
      /\ DOMAIN queues = 1..Len(queues) /\ Len(queues) \in Nat
      /\ spc \in [Connections -> {"off", "make", "load", "send", "log"}]
      /\ shas \in [Connections -> 0..made]
      /\ squeue \in [Connections -> 0..Len(queues)]
      /\ TypeInv'
  BY TypeNext, LenProperties DEF TypeInv, TypeOK
<1>2. CASE UNCHANGED <<queue, queues, spc, squeue, shas, replaced>>
  BY <1>2 DEF ReplacedInv, Waiting
<1>3. CASE CreateQueue
  <2>1. /\ DOMAIN queues' = 1..(Len(queues) + 1) /\ queue' = Len(queues) + 1
        /\ \A q \in DOMAIN queues : queues'[q] = queues[q]
    <3>1. <<>> \in Seq(Readings)
      BY EmptySeq
    <3> QED
      BY <1>1, <1>3, <3>1, AppendElements DEF CreateQueue
  <2>2. ASSUME NEW q \in DOMAIN queues', q # queue'
        PROVE  Waiting(q)' \subseteq replaced'
    <3>1. q \in DOMAIN queues /\ Waiting(q)' = Waiting(q)
      BY <1>1, <2>1, <2>2 DEF Waiting
    <3>2. CASE q = queue
      BY <1>1, <1>3, <3>1, <3>2 DEF CreateQueue, InUse, Waiting
    <3>3. CASE q # queue
      BY <1>3, <3>1, <3>3 DEF CreateQueue, ReplacedInv
    <3> QED
      BY <3>2, <3>3
  <2>3. ASSUME NEW s \in Connections, spc'[s] = "send"
        PROVE  shas'[s] \in replaced'
    BY <1>3, <2>3 DEF CreateQueue, Sending
  <2> QED
    BY <2>2, <2>3 DEF ReplacedInv
<1>4. CASE StartSensor
  BY <1>1, <1>4 DEF StartSensor, ReplacedInv, Waiting
<1>5. ASSUME NEW s \in Connections,
             MakeReading(s) \/ LoadQueueToSend(s) \/ LogReading(s)
      PROVE  ReplacedInv'
  <2>1. UNCHANGED <<queue, queues, replaced>>
    BY <1>5 DEF MakeReading, LoadQueueToSend, LogReading
  <2>2. ASSUME NEW t \in Connections, spc'[t] = "send", squeue'[t] # queue'
        PROVE  shas'[t] \in replaced'
    BY <1>1, <1>5, <2>1, <2>2
       DEF MakeReading, LoadQueueToSend, LogReading, ReplacedInv
  <2> QED
    BY <2>1, <2>2 DEF ReplacedInv, Waiting
<1>6. ASSUME NEW s \in Connections, SendReading(s)
      PROVE  ReplacedInv'
  <2> DEFINE q == squeue[s]
             w == Append(queues[q], shas[s])
  <2>1. /\ q \in DOMAIN queues /\ shas[s] \in Readings
        /\ spc[s] = "send" /\ spc' = [spc EXCEPT ![s] = "log"]
        /\ UNCHANGED <<queue, replaced, squeue, shas>>
        /\ queues' \in {queues, [queues EXCEPT ![q] = w]}
    <3>1. spc[s] = "send" /\ q >= 1 /\ shas[s] # NULL /\ q \in 0..Len(queues)
      BY <1>1, <1>6 DEF SendReading, TypeInv, QueueExists, TasksHold
    <3>2. made \in Nat /\ made <= MaxReadings
      BY MaxReadingsAssumption DEF TypeInv, TypeOK
    <3>3. shas[s] \in 0..made
      BY <1>1
    <3>4. shas[s] \in Readings
      BY <3>1, <3>2, <3>3, MaxReadingsAssumption DEF Readings, NULL
    <3>5. q \in DOMAIN queues
      BY <1>1, <3>1
    <3> QED
      BY <1>6, <3>1, <3>4, <3>5 DEF SendReading
  <2>2. queues[q] \in Seq(Readings)
    BY <1>1, <2>1, ElementOfSeq
  <2>3. w \in Seq(Readings) /\ ToSet(w) = Waiting(q) \cup {shas[s]}
    BY <2>1, <2>2, AppendElements DEF Waiting
  <2> HIDE DEF w
  <2>4. /\ DOMAIN queues' = DOMAIN queues
        /\ ToSet(queues'[q]) \subseteq Waiting(q) \cup {shas[s]}
        /\ \A p \in DOMAIN queues : p # q => ToSet(queues'[p]) = Waiting(p)
    <3>1. CASE queues' = queues
      BY <3>1 DEF Waiting
    <3>2. CASE queues' = [queues EXCEPT ![q] = w]
      BY <2>1, <2>3, <3>2, QueuesType DEF TypeInv, Waiting
    <3> QED
      BY <2>1, <3>1, <3>2
  <2>5. q # queue => shas[s] \in replaced
    BY <2>1 DEF ReplacedInv
  <2>6. \A t \in Connections : spc'[t] = "send" => spc[t] = "send"
    BY <1>1, <2>1
  <2> HIDE DEF q
  <2> QED
    BY <2>1, <2>4, <2>5, <2>6 DEF ReplacedInv, Waiting
<1>7. ASSUME NEW c \in Connections, ReceiveReading(c)
      PROVE  ReplacedInv'
  <2> DEFINE q == cqueue[c]
             w == Tail(queues[q])
  <2>1. /\ q \in DOMAIN queues /\ queues' = [queues EXCEPT ![q] = w]
        /\ queues[q] # <<>> /\ UNCHANGED <<queue, replaced, spc, squeue, shas>>
    BY <1>1, <1>7 DEF ReceiveReading, TypeInv, TypeOK, QueueExists
  <2>2. queues[q] \in Seq(Readings)
    BY <1>1, <2>1, ElementOfSeq
  <2>3. w \in Seq(Readings) /\ ToSet(w) \subseteq Waiting(q)
    BY <2>1, <2>2, TailElements DEF Waiting
  <2> HIDE DEF w
  <2>4. /\ DOMAIN queues' = DOMAIN queues
        /\ ToSet(queues'[q]) \subseteq Waiting(q)
        /\ \A p \in DOMAIN queues : p # q => ToSet(queues'[p]) = Waiting(p)
    BY <2>1, <2>3, QueuesType DEF TypeInv, Waiting
  <2> HIDE DEF q
  <2> QED
    BY <2>1, <2>4 DEF ReplacedInv, Waiting
<1>8. ASSUME NEW c \in Connections, LoadQueue(c) \/ PostGateway(c) \/ FreeReading(c)
      PROVE  ReplacedInv'
  BY <1>2, <1>8 DEF LoadQueue, PostGateway, FreeReading
<1>9. CASE StartClient \/ Panic \/ UNCHANGED vars
  BY <1>2, <1>9 DEF StartClient, Panic, vars
<1> QED
  BY <1>3, <1>4, <1>5, <1>6, <1>7, <1>8, <1>9
     DEF Next, TaskStep, ConnectionOk, SensorTask, GatewayClientTask

(* However many connections replace the queue: a reading leaks only when   *)
(* it found its queue full, or when it was in its queue, or on its way     *)
(* into it, as a connection replaced that (cb_connection_ok).  Each other  *)
(* one is freed, with a task, or in the queue in use.                      *)
THEOREM LeakCorrect == Spec => []LeakOnlyFullOrReplaced
<1>1. Init => ReplacedInv
  BY DEF Init, ReplacedInv
<1>2. OwnerInv /\ ReplacedInv => LeakOnlyFullOrReplaced
  <2> SUFFICES ASSUME OwnerInv, ReplacedInv, NEW r \in 1..made
               PROVE  \/ r \in freed \cup dropped \cup replaced \cup InUse
                      \/ AtClient(r) \/ AtSensor(r)
    BY DEF LeakOnlyFullOrReplaced
  <2>1. r \in Queued \cup Carried \cup Holding \cup freed \cup dropped
    BY DEF OwnerInv, SomePlace
  <2>2. CASE r \in Queued
    <3>1. PICK q \in DOMAIN queues : r \in Waiting(q)
      BY <2>2 DEF Queued
    <3>2. CASE q = queue
      <4>1. queue # NULL
        BY <3>2, LenProperties DEF OwnerInv, TypeInv, TypeOK
      <4> QED
        BY <3>1, <3>2, <4>1 DEF InUse, Waiting
    <3>3. CASE q # queue
      BY <3>1, <3>3 DEF ReplacedInv
    <3> QED
      BY <3>2, <3>3
  <2> QED
    BY <2>1, <2>2 DEF Carried, Carries, Holding, AtClient, AtSensor
<1>3. OwnerInv => TypeInv
  BY DEF OwnerInv
<1> QED
  BY OwnerInit, OwnerNext, ReplacedNext, <1>1, <1>2, <1>3, PTL DEF Spec

(* The gateway gets no reading twice, and none that was dropped, however   *)
(* many clients of earlier connections receive from the same queue.        *)
THEOREM DeliveredCorrect == Spec => []DeliveredOnce
<1>1. OwnerInv => DeliveredOnce
  <2> SUFFICES ASSUME OwnerInv PROVE DeliveredOnce
    OBVIOUS
  <2>1. ASSUME NEW r \in ToSet(delivered)
        PROVE  r \notin dropped
    <3>1. CASE r \in freed
      BY <3>1 DEF OwnerInv, OnePlace
    <3>2. CASE \E c \in Connections : cpc[c] = "free" /\ chas[c] = r
      <4>1. r \in Holding
        BY <3>2 DEF OwnerInv, TypeInv, TasksHold, Holding
      <4> QED
        BY <4>1 DEF OwnerInv, OnePlace
    <3> QED
      BY <3>1, <3>2 DEF OwnerInv, DeliveredIsBehind
  <2> QED
    BY <2>1 DEF OwnerInv, DeliveredIsBehind, DeliveredOnce
<1> QED
  BY OwnerInit, OwnerNext, <1>1, PTL DEF Spec

(***************************************************************************)
(* The queue in use is served                                              *)
(***************************************************************************)

(* The client of the last connection never waits at an older queue: what   *)
(* it finds in sensor_data_queue is the queue of its connection.           *)
ClientServes ==
    /\ queue # NULL => connects \in Connections
    /\ queue # NULL /\ cbpc # "client" =>
         /\ cpc[connects] # "off"
         /\ cpc[connects] = "receive" => cqueue[connects] = queue

(* Every step keeps the last client at its queue or on its way to it.      *)
LEMMA ServesNext ==
    ASSUME TypeInv, ClientServes, [Next]_vars
    PROVE  ClientServes'
<1> USE DEF queueVars, callbackVars, sensorVars, clientVars, ClientServes
<1>1. /\ cpc \in [Connections -> {"off", "load", "receive", "post", "free"}]
      /\ cqueue \in [Connections -> 0..Len(queues)]
      /\ connects \in 0..MaxConnects /\ Connections = 1..MaxConnects
      /\ cbpc \in {"idle", "client", "sensor"}
  BY DEF TypeInv, TypeOK, Connections
<1>2. CASE CreateQueue
  BY <1>1, <1>2 DEF CreateQueue
<1>3. CASE StartClient
  <2>1. connects \in Connections
    BY <1>3 DEF StartClient, TypeInv, QueueExists, NULL
  <2>2. cpc'[connects'] = "load" /\ UNCHANGED <<queue, connects>>
    BY <1>1, <1>3, <2>1 DEF StartClient
  <2> QED
    BY <2>1, <2>2
<1>4. CASE StartSensor
  BY <1>1, <1>4 DEF StartSensor
<1>5. ASSUME NEW s \in Connections, SensorTask(s)
      PROVE  ClientServes'
  BY <1>5 DEF SensorTask, MakeReading, LoadQueueToSend, SendReading, LogReading
<1>6. ASSUME NEW c \in Connections, GatewayClientTask(c)
      PROVE  ClientServes'
  BY <1>1, <1>6
     DEF GatewayClientTask, LoadQueue, ReceiveReading, PostGateway, FreeReading
<1>7. CASE Panic \/ UNCHANGED vars
  BY <1>7 DEF Panic, vars
<1> QED
  BY <1>2, <1>3, <1>4, <1>5, <1>6, <1>7 DEF Next, TaskStep, ConnectionOk

(* The current queue has a client that will come to it, for any number of  *)
(* connections whose clients may be stranded at theirs.                    *)
THEOREM ServedCorrect == Spec => []QueueIsServed
<1>1. Init => ClientServes
  BY DEF Init, ClientServes
<1>2. ClientServes => QueueIsServed
  BY DEF ClientServes, QueueIsServed
<1> QED
  BY TypeInit, TypeNext, ServesNext, <1>1, <1>2, PTL DEF Spec
=============================================================================
