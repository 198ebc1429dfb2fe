--------------------------- MODULE HttpApp_proofs ---------------------------
(***************************************************************************)
(* Proofs about HttpApp, for any access points, any length of the list and *)
(* of the queue: who has the mutex of the JSON texts and what it protects, *)
(* that a started server has its URLs, and, by the invariants of the two   *)
(* loops of wifi_manager_filter_unique, what the list of networks is.      *)
(***************************************************************************)
EXTENDS HttpApp, SequenceFacts

USE RssisAssumption, MaxApsAssumption, QueueLengthAssumption, HiddenAssumption

(***************************************************************************)
(* The inductive invariants                                                *)
(***************************************************************************)

(* The steps of the manager with the mutex.                                *)
Writing == {"filter", "generate", "close", "text"}

(* Each side has the mutex in its critical section and nowhere else, and a *)
(* text is torn only in the critical section of the one that writes it.    *)
MutexInv ==
    /\ mutex = "httpd" <=> hpc = "send"
    /\ mutex = "manager" <=> mpc \in Writing
    /\ apJson = "torn" => mpc = "close"
    /\ ipJson = "torn" => mpc = "text" \/ (hpc = "send" /\ hkind = "connect")

(* The server changes only in http_app_stop and http_app_start, which are  *)
(* not called without reason; http_root_url stands for all the URLs.       *)
ServerInv ==
    /\ server \in {"off", "running", "stopping"}
    /\ {root, others} \subseteq BOOLEAN
    /\ root => others
    /\ mpc = "free" => server = "running"
    /\ mpc = "stop" => server \in {"running", "stopping"}
    /\ mpc = "start" => server = "off"
    /\ server = "stopping" => mpc = "stop"
    /\ server = "running" /\ mpc # "stop" => root

(* The filter runs from the lock of the list to the text.                  *)
FilterRuns ==
    /\ mpc = "filter" <=> loop # "none"
    /\ loop # "none" => Len(records) = Len(scanned) /\ ap >= 1
    /\ loop # "pack" => first_free = 0
    /\ loop # "merge" => ap1 = 0
    /\ loop = "none" => ap = 0 /\ total_unique = 0
    /\ loop = "merge" => ap1 > ap /\ ap <= Len(records) + 1 /\ total_unique = Len(records)

(* Every network scanned is in the list, with its best rssi so far, in a   *)
(* slot of `slots`.                                                        *)
Listed(b, slots) ==
    \E m \in slots : Alike(records[m], b) /\ records[m].rssi >= b.rssi

(* While the records are merged a slot has the network that was scanned    *)
(* there, the first slot of a network has the best rssi of the others that *)
(* are cleared, and the pairs that were compared are not alike.            *)
Merging ==
    loop = "merge" =>
        /\ \A k \in 1..Len(records) : Taken(records[k]) =>
             records[k] \in ToSet(scanned) /\ Alike(records[k], scanned[k])
        /\ \A k \in 1..Len(records) : Taken(scanned[k]) => Listed(scanned[k], 1..k)
        /\ \A p, q \in 1..Len(records) :
             p < ap \/ (p = ap /\ q < ap1) =>
                 ~(p < q /\ Taken(records[p]) /\ Alike(records[p], records[q]))

(* While they are packed those behind ap have no gap, but for one before ap*)
(* that starts at first_free and is what total_unique has been reduced by. *)
Packing ==
    loop = "pack" =>
        /\ \A k \in 1..Len(records) : Taken(records[k]) => records[k] \in ToSet(scanned)
        /\ \A k \in 1..Len(records) : Taken(scanned[k]) =>
             Listed(scanned[k], 1..Len(records))
        /\ \A p, q \in 1..Len(records) :
             p < q /\ Taken(records[p]) /\ Taken(records[q]) =>
                 FirstSeen(records[p], scanned) < FirstSeen(records[q], scanned)
        /\ first_free < ap
        /\ \A k \in 1..Len(records) : k < ap =>
             (Taken(records[k]) <=> first_free = 0 \/ k < first_free)
        /\ total_unique =
             IF first_free = 0 THEN Len(records) ELSE Len(records) - (ap - first_free)

FilterInv == FilterTypeOK /\ FilterRuns /\ Merging /\ Packing /\ ListIsUnique

(* The steps, texts and messages are those listed, and the queue never has *)
(* more messages than there is room for.                                   *)
TypeInv ==
    /\ panicked \in BOOLEAN
    /\ hpc \in {"idle", "compare", "lock", "send", "order"}
    /\ hkind \in Kinds
    /\ mutex \in {"free", "httpd", "manager"}
    /\ apJson \in Texts /\ ipJson \in Texts
    /\ queue \in Seq(Messages) /\ Len(queue) <= QueueLength
    /\ mpc \in {"idle", "list", "filter", "generate", "close", "status", "text",
                "send_connect", "send_start_ap", "free", "stop", "start"}

HttpInv == TypeInv /\ MutexInv /\ ServerInv /\ FilterInv

-----------------------------------------------------------------------------

(* The step of the manager or of the httpd task that moves it on.          *)
LEMMA MutexNext ==
    ASSUME MutexInv, [Next]_vars
    PROVE  MutexInv'
<1> USE DEF serverVars, jsonVars, httpdVars, managerVars, Goto, End, Writing
<1>1. CASE Receive
  <2>1. mpc = "idle" /\ mpc' \notin Writing /\ UNCHANGED <<jsonVars, httpdVars>>
    BY <1>1 DEF Receive, Stop
  <2> QED
    BY <2>1 DEF MutexInv
<1>2. CASE LockList
  BY <1>2 DEF LockList, MutexInv
<1>3. CASE FilterList \/ BeginList
  BY <1>3 DEF FilterList, BeginList, MutexInv
<1>4. CASE EndList
  BY <1>4 DEF EndList, MutexInv
<1>5. CASE BeginStatus
  BY <1>5 DEF BeginStatus, MutexInv
<1>6. CASE EndStatus
  BY <1>6 DEF EndStatus, MutexInv
<1>7. CASE Restart
  BY <1>7 DEF Restart, FreeUrls, StopServer, ServerStopped, StartServer, MutexInv
<1>8. CASE Request \/ Compare \/ CompareFreed
  BY <1>8 DEF Request, Compare, CompareFreed, MutexInv
<1>9. CASE LockJson
  BY <1>9 DEF LockJson, MutexInv
<1>10. CASE LockTimesOut \/ SendOrder
  BY <1>10 DEF LockTimesOut, SendOrder, MutexInv
<1>11. CASE SendJson
  BY <1>11 DEF SendJson, MutexInv
<1>12. CASE Event \/ UNCHANGED vars
  BY <1>12 DEF Event, vars, MutexInv
<1>13. CASE ManagerSends
  BY <1>13 DEF ManagerSends, MutexInv
<1> QED
  BY <1>1, <1>2, <1>3, <1>4, <1>5, <1>6, <1>7, <1>8, <1>9, <1>10, <1>11, <1>12, <1>13
     DEF Next, Manager, AccessPointList, Status, Handler

(* Stops and starts keep server and URLs together.                         *)
LEMMA ServerNext ==
    ASSUME ServerInv, [Next]_vars
    PROVE  ServerInv'
<1> USE DEF serverVars, jsonVars, httpdVars, managerVars, ServerInv
<1>1. CASE Receive
  BY <1>1 DEF Receive, Stop
<1>2. CASE FreeUrls
  BY <1>2 DEF FreeUrls
<1>3. CASE StopServer
  BY <1>3 DEF StopServer
<1>4. CASE ServerStopped
  BY <1>4 DEF ServerStopped
<1>5. CASE StartServer
  <2>1. /\ mpc = "start" /\ mpc' = "idle" /\ server' \in {"running", "off"}
        /\ others' = (others \/ ~root) /\ root' = TRUE
    BY <1>5 DEF StartServer
  <2>2. others' = TRUE
    <3>1. others \in BOOLEAN /\ root \in BOOLEAN /\ (root => others)
      OBVIOUS
    <3> QED
      BY <2>1, <3>1
  <2> QED
    BY <2>1, <2>2
<1>6. CASE AccessPointList \/ Status \/ ManagerSends
  BY <1>6
     DEF AccessPointList, LockList, FilterList, BeginList, EndList, Status,
         BeginStatus, EndStatus, ManagerSends
<1>7. CASE Event \/ Request \/ Handler \/ UNCHANGED vars
  BY <1>7
     DEF Event, Request, Handler, Compare, CompareFreed, LockJson, LockTimesOut,
         SendJson, SendOrder, vars
<1> QED
  BY <1>1, <1>2, <1>3, <1>4, <1>5, <1>6, <1>7 DEF Next, Manager, Restart

(***************************************************************************)
(* The operators of the filter                                             *)
(***************************************************************************)

(* What a slot holds: a network, or nothing.                               *)
LEMMA RecordFields ==
    ASSUME NEW r \in Records
    PROVE  /\ r.rssi \in Int
           /\ Taken(r) => r \in [ssid : Names, auth : Auths, rssi : Rssis]
           /\ ~Taken(r) => r = Cleared
           /\ ~Taken(Cleared) /\ Cleared \in Records
<1>1. CASE r \in [ssid : Names, auth : Auths, rssi : Rssis]
  <2>1. r.ssid \in Names /\ r.rssi \in Rssis
    BY <1>1
  <2> QED
    BY <1>1, <2>1 DEF Records, Taken, Cleared
<1>2. CASE r = Cleared
  BY <1>2 DEF Records, Taken, Cleared
<1> QED
  BY <1>1, <1>2 DEF Records

(* The record absorbed is cleared, and the other one is either of the two, *)
(* and the stronger one.                                                   *)
LEMMA Absorbed ==
    ASSUME NEW list \in Seq(Records), NEW i \in 1..Len(list), NEW j \in 1..Len(list),
           i # j, Taken(list[i])
    PROVE  /\ Absorb(list, i, j) \in Seq(Records)
           /\ Len(Absorb(list, i, j)) = Len(list)
           /\ Alike(list[i], list[j]) =>
                /\ Absorb(list, i, j)[j] = Cleared
                /\ Absorb(list, i, j)[i] \in {list[i], list[j]}
                /\ Absorb(list, i, j)[i].rssi >= list[i].rssi
                /\ Absorb(list, i, j)[i].rssi >= list[j].rssi
                /\ \A k \in (1..Len(list)) \ {i, j} : Absorb(list, i, j)[k] = list[k]
           /\ ~Alike(list[i], list[j]) => Absorb(list, i, j) = list
<1> DEFINE best == Stronger(list[i].rssi, list[j].rssi)
           new == [list EXCEPT ![i].rssi = best, ![j] = Cleared]
<1>1. CASE Alike(list[i], list[j])
  <2>1. Absorb(list, i, j) = new
    BY <1>1 DEF Absorb
  <2>2. list[i] \in Records /\ list[j] \in Records
    OBVIOUS
  <2>3. /\ list[i] \in [ssid : Names, auth : Auths, rssi : Rssis]
        /\ list[j] \in [ssid : Names, auth : Auths, rssi : Rssis]
    BY <1>1, <2>2, RecordFields DEF Alike, Taken
  <2>4. [list[i] EXCEPT !.rssi = best] \in {list[i], list[j]}
    BY <1>1, <2>3 DEF Alike, Stronger
  <2>5. best >= list[i].rssi /\ best >= list[j].rssi
    BY <2>2, RecordFields DEF Stronger
  <2>6. [list[i] EXCEPT !.rssi = best].rssi = best
    BY <2>3
  <2>7. /\ new = [[list EXCEPT ![i] = [list[i] EXCEPT !.rssi = best]] EXCEPT ![j] = Cleared]
    OBVIOUS
  <2> HIDE DEF best
  <2>8. /\ new \in Seq(Records) /\ Len(new) = Len(list)
        /\ new[j] = Cleared /\ new[i] = [list[i] EXCEPT !.rssi = best]
        /\ \A k \in (1..Len(list)) \ {i, j} : new[k] = list[k]
    BY <2>2, <2>4, <2>7, RecordFields
  <2> QED
    BY <1>1, <2>1, <2>4, <2>5, <2>6, <2>8
<1>2. CASE ~Alike(list[i], list[j])
  BY <1>2 DEF Absorb
<1> QED
  BY <1>1, <1>2

(* The least number of a set, if it has one.                               *)
LEMMA MinimumIs ==
    ASSUME NEW S \in SUBSET Int, NEW x \in S, \A y \in S : x <= y
    PROVE  Min(S) = x
<1>1. Min(S) \in S /\ \A y \in S : Min(S) <= y
  <2>1. \E m \in S : \A y \in S : m <= y
    OBVIOUS
  <2> QED
    BY <2>1, Zenon DEF Min
<1>2. Min(S) \in Int /\ x \in Int /\ Min(S) <= x /\ x <= Min(S)
  BY <1>1
<1> HIDE DEF Min
<1> QED
  BY <1>2

(* The first record of a network is the first in a scan that is like it.   *)
LEMMA FirstSeenIs ==
    ASSUME NEW s \in Seq(Records), NEW a, NEW p \in 1..Len(s), Alike(a, s[p]),
           \A k \in 1..Len(s) : Alike(a, s[k]) => p <= k
    PROVE  FirstSeen(a, s) = p
<1> DEFINE S == {i \in 1..Len(s) : Alike(a, s[i])}
<1>1. S \in SUBSET Int /\ p \in S /\ \A y \in S : p <= y
  OBVIOUS
<1>2. Min(S) = p
  BY <1>1, MinimumIs
<1> QED
  BY <1>1, <1>2 DEF FirstSeen, SelectInSeq

(* The first slot with no record is the first free one.                    *)
LEMMA FirstFreeIs ==
    ASSUME NEW s \in Seq(Records), NEW p \in 1..Len(s), ~Taken(s[p]),
           \A k \in 1..Len(s) : ~Taken(s[k]) => p <= k
    PROVE  FirstFree(s) = p
<1> DEFINE S == {i \in 1..Len(s) : ~Taken(s[i])}
<1>1. S \in SUBSET Int /\ p \in S /\ \A y \in S : p <= y
  OBVIOUS
<1>2. Min(S) = p
  BY <1>1, MinimumIs
<1> QED
  BY <1>1, <1>2 DEF FirstFree, SelectInSeq

(* A scan reports no more records than there is room for.                  *)
LEMMA ScanFits ==
    ASSUME NEW s \in BoundedSeq(Records, MaxAps)
    PROVE  s \in Seq(Records) /\ Len(s) <= MaxAps
<1>1. PICK m \in 0..MaxAps : s \in [1..m -> Records]
  BY DEF BoundedSeq, SeqOf
<1>2. s \in Seq(Records) /\ Len(s) = m
  BY <1>1
<1> QED
  BY <1>1, <1>2

(***************************************************************************)
(* The steps of the filter                                                 *)
(***************************************************************************)

(* No list is made at first.                                               *)
LEMMA FilterStarts == Init => FilterInv
BY DEF Init, FilterInit, FilterInv, FilterTypeOK, FilterRuns, Merging, Packing, ListIsUnique

(* What was scanned is merged and listed as far as nothing was compared.   *)
LEMMA FilterBegins ==
    ASSUME FilterInv, NEW scan \in Seq(Records), Len(scan) <= MaxAps, Begin(scan),
           mpc' = "filter"
    PROVE  FilterInv'
<1> USE DEF Begin
<1>1. FilterTypeOK' /\ FilterRuns' /\ Packing' /\ ListIsUnique'
  BY DEF FilterTypeOK, FilterRuns, Packing, ListIsUnique
<1>2. Merging'
  <2>1. ASSUME NEW k \in 1..Len(scan)
        PROVE  scan[k] \in ToSet(scan) /\ scan[k].rssi \in Int
    BY RecordFields DEF ToSet
  <2>2. ASSUME NEW k \in 1..Len(scan)
        PROVE  Listed(scanned[k], 1..k)'
    BY <2>1 DEF Listed, Alike
  <2> QED
    BY <2>1, <2>2 DEF Merging, Alike
<1> QED
  BY <1>1, <1>2 DEF FilterInv

(* The pair that is compared is not alike any more; what was best is.      *)
LEMMA ComparesRecords ==
    ASSUME FilterInv, mpc = "filter", CompareRecords, mpc' = "filter"
    PROVE  FilterInv'
<1> DEFINE n == Len(records)
<1>1. /\ loop = "merge" /\ loop' = "merge" /\ ap' = ap /\ ap1' = ap1 + 1
      /\ ap < n /\ ap1 <= n /\ Taken(records[ap])
      /\ records' = Absorb(records, ap, ap1) /\ scanned' = scanned
      /\ first_free' = first_free /\ total_unique' = total_unique
  BY DEF CompareRecords
<1>2. /\ records \in Seq(Records) /\ scanned \in Seq(Records) /\ n = Len(scanned)
      /\ n \in Nat /\ ap \in 1..n /\ ap1 \in 1..n /\ ap < ap1
      /\ FilterTypeOK /\ FilterRuns /\ Merging
  BY <1>1 DEF FilterInv, FilterRuns, FilterTypeOK
<1>3. records' \in Seq(Records) /\ Len(records') = n
  BY <1>1, <1>2, Absorbed
<1>4. FilterTypeOK' /\ FilterRuns' /\ Packing' /\ ListIsUnique'
  <2>1. FilterTypeOK'
    BY <1>1, <1>2, <1>3 DEF FilterTypeOK
  <2>2. FilterRuns'
    BY <1>1, <1>2, <1>3 DEF FilterRuns
  <2> QED
    BY <1>1, <2>1, <2>2 DEF Packing, ListIsUnique
<1>5. CASE ~Alike(records[ap], records[ap1])
  <2>1. records' = records
    BY <1>1, <1>2, <1>5, Absorbed
  <2>2. ASSUME NEW k \in 1..n, Taken(scanned[k]) PROVE Listed(scanned[k], 1..k)'
    BY <1>1, <1>2, <2>1, <2>2 DEF Merging, Listed
  <2> QED
    BY <1>1, <1>2, <1>4, <1>5, <2>1, <2>2 DEF Merging, FilterInv
<1>6. CASE Alike(records[ap], records[ap1])
  <2>0. /\ records'[ap1] = Cleared
        /\ records'[ap] \in {records[ap], records[ap1]}
        /\ records'[ap].rssi >= records[ap].rssi
        /\ records'[ap].rssi >= records[ap1].rssi
        /\ \A k \in (1..n) \ {ap, ap1} : records'[k] = records[k]
    BY <1>1, <1>2, <1>6, Absorbed
  <2>1. ~Taken(records'[ap1])
    BY <2>0 DEF Taken, Cleared
  <2>2. Alike(records'[ap], records[ap]) /\ Alike(records'[ap], records[ap1])
    BY <1>6, <2>0, <2>1 DEF Alike
  <2>3. Taken(records[ap1])
    BY <1>1, <1>6 DEF Alike, Taken
  <2>4. \A k \in 1..n : records[k].rssi \in Int /\ scanned[k].rssi \in Int
                        /\ records'[k].rssi \in Int
    BY <1>2, <1>3, RecordFields
  <2>5. ASSUME NEW k \in 1..n, Taken(records'[k])
        PROVE  records'[k] \in ToSet(scanned) /\ Alike(records'[k], scanned[k])
    <3>1. k # ap1
      BY <2>0, <2>1, <2>5
    <3>2. CASE k = ap
      BY <1>1, <1>2, <2>0, <2>1, <2>2, <2>3, <3>2 DEF Merging, Alike
    <3>3. CASE k # ap
      BY <1>1, <1>2, <2>0, <2>1, <2>5, <3>1, <3>3 DEF Merging
    <3> QED
      BY <3>2, <3>3
  <2>6. ASSUME NEW k \in 1..n, Taken(scanned[k])
        PROVE  \E m \in 1..k : Alike(records'[m], scanned[k])
                               /\ records'[m].rssi >= scanned[k].rssi
    <3>1. PICK m \in 1..k : Alike(records[m], scanned[k]) /\ records[m].rssi >= scanned[k].rssi
      BY <1>1, <1>2, <2>6 DEF Merging, Listed
    <3>2. CASE m \in {ap, ap1}
      <4>1. ap \in 1..k /\ m \in 1..n
        BY <1>2, <3>1, <3>2
      <4>2. Alike(records'[ap], scanned[k])
        BY <2>2, <3>1, <3>2 DEF Alike
      <4>3. records'[ap].rssi >= scanned[k].rssi
        BY <1>2, <2>0, <2>1, <2>4, <3>1, <3>2
      <4> QED
        BY <4>1, <4>2, <4>3
    <3>3. CASE m \notin {ap, ap1}
      BY <2>0, <2>1, <3>1, <3>3
    <3> QED
      BY <3>2, <3>3
  <2>7. ASSUME NEW p \in 1..n, NEW q \in 1..n, p < ap \/ (p = ap /\ q < ap1 + 1), p < q,
               Taken(records'[p]), Alike(records'[p], records'[q])
        PROVE  FALSE
    <3>1. p # ap1 /\ q # ap1
      BY <2>0, <2>1, <2>7 DEF Alike, Taken
    <3>2. Taken(records[p]) /\ Alike(records[p], records[q])
      BY <2>0, <2>1, <2>2, <2>7, <3>1 DEF Alike, Taken
    <3>3. p < ap \/ (p = ap /\ q < ap1)
      BY <1>2, <2>7, <3>1
    <3> QED
      BY <1>1, <1>2, <2>7, <3>2, <3>3 DEF Merging
  <2>8. Merging'
    BY <1>1, <1>3, <2>5, <2>6, <2>7 DEF Merging, Listed
  <2> QED
    BY <1>4, <2>8 DEF FilterInv
<1> QED
  BY <1>5, <1>6

(* A record that is empty, or was compared with all, has no more like it.  *)
LEMMA TakesNextRecord ==
    ASSUME FilterInv, mpc = "filter", NextRecord, mpc' = "filter"
    PROVE  FilterInv'
<1>1. /\ loop = "merge" /\ loop' = "merge" /\ ap' = ap + 1 /\ ap1' = ap + 2
      /\ ap < Len(records) /\ (~Taken(records[ap]) \/ ap1 > Len(records))
      /\ records' = records /\ scanned' = scanned
      /\ first_free' = first_free /\ total_unique' = total_unique
  BY DEF NextRecord
<1>2. /\ Len(records) = Len(scanned) /\ Len(records) \in Nat /\ ap \in Nat /\ ap1 \in Nat
      /\ ap >= 1 /\ FilterTypeOK /\ FilterRuns /\ Merging
  BY <1>1 DEF FilterInv, FilterRuns, FilterTypeOK
<1>3. FilterTypeOK' /\ FilterRuns'
  BY <1>1, <1>2 DEF FilterTypeOK, FilterRuns
<1>4. ASSUME NEW p \in 1..Len(records), NEW q \in 1..Len(records), p < q,
             p < ap + 1 \/ (p = ap + 1 /\ q < ap + 2),
             Taken(records[p]), Alike(records[p], records[q])
      PROVE  FALSE
  <2>1. p < ap \/ (p = ap /\ q < ap1)
    BY <1>1, <1>2, <1>4
  <2> QED
    BY <1>1, <1>2, <1>4, <2>1 DEF Merging
<1>5. ASSUME NEW k \in 1..Len(records), Taken(scanned[k]) PROVE Listed(scanned[k], 1..k)'
  BY <1>1, <1>2, <1>5 DEF Merging, Listed
<1>6. Merging'
  BY <1>1, <1>2, <1>4, <1>5 DEF Merging
<1> QED
  BY <1>1, <1>3, <1>6 DEF FilterInv, Packing, ListIsUnique

(* When no pair is alike a network is in the slot where it was seen first. *)
LEMMA EndsMerge ==
    ASSUME FilterInv, mpc = "filter", EndMerge, mpc' = "filter"
    PROVE  FilterInv'
<1> DEFINE n == Len(records)
<1>1. /\ loop = "merge" /\ loop' = "pack" /\ ap' = 1 /\ ap1' = 0 /\ ap >= n
      /\ records' = records /\ scanned' = scanned
      /\ first_free' = first_free /\ total_unique' = total_unique
  BY DEF EndMerge
<1>2. /\ records \in Seq(Records) /\ scanned \in Seq(Records) /\ n = Len(scanned)
      /\ n \in Nat /\ ap \in Nat /\ first_free = 0 /\ total_unique = n
      /\ FilterTypeOK /\ FilterRuns /\ Merging
  BY <1>1 DEF FilterInv, FilterRuns, FilterTypeOK
<1>3. FilterTypeOK' /\ FilterRuns'
  BY <1>1, <1>2 DEF FilterTypeOK, FilterRuns
<1>4. ASSUME NEW p \in 1..n, Taken(records[p])
      PROVE  FirstSeen(records[p], scanned) = p
  <2>1. Alike(records[p], scanned[p])
    BY <1>1, <1>2, <1>4 DEF Merging
  <2>2. ASSUME NEW k \in 1..n, Alike(records[p], scanned[k]), k < p
        PROVE  FALSE
    <3>1. Taken(scanned[k])
      BY <1>4, <2>2 DEF Alike, Taken
    <3>2. PICK m \in 1..k : Alike(records[m], scanned[k])
      BY <1>1, <1>2, <3>1 DEF Merging, Listed
    <3>3. Taken(records[m]) /\ Alike(records[m], records[p])
      BY <2>2, <3>1, <3>2 DEF Alike, Taken
    <3>4. m \in 1..n /\ m < p /\ m < ap
      BY <1>1, <1>2, <2>2
    <3> QED
      BY <1>1, <1>2, <3>3, <3>4 DEF Merging
  <2>3. \A k \in 1..n : Alike(records[p], scanned[k]) => p <= k
    BY <1>2, <2>2
  <2> QED
    BY <1>2, <2>1, <2>3, FirstSeenIs
<1>5. ASSUME NEW k \in 1..n, Taken(scanned[k]) PROVE Listed(scanned[k], 1..n)'
  <2>1. PICK m \in 1..k : Alike(records[m], scanned[k]) /\ records[m].rssi >= scanned[k].rssi
    BY <1>1, <1>2, <1>5 DEF Merging, Listed
  <2> QED
    BY <1>1, <1>2, <2>1 DEF Listed
<1>6. \A k \in 1..n : Taken(records[k]) => records[k] \in ToSet(scanned)
  BY <1>1, <1>2 DEF Merging
<1>7. Packing'
  BY <1>1, <1>2, <1>4, <1>5, <1>6 DEF Packing
<1> QED
  BY <1>1, <1>3, <1>7 DEF FilterInv, Merging, ListIsUnique

(* A slot that is empty makes the gap longer by one.                       *)
LEMMA SkipsCleared ==
    ASSUME FilterInv, mpc = "filter", SkipCleared, mpc' = "filter"
    PROVE  FilterInv'
<1> DEFINE n == Len(records)
<1>1. /\ loop = "pack" /\ loop' = "pack" /\ ap <= n /\ ~Taken(records[ap])
      /\ first_free' = (IF first_free = 0 THEN ap ELSE first_free)
      /\ total_unique' = total_unique - 1 /\ ap' = ap + 1 /\ ap1' = ap1
      /\ records' = records /\ scanned' = scanned
  BY DEF SkipCleared
<1>2. /\ records \in Seq(Records) /\ scanned \in Seq(Records) /\ n = Len(scanned)
      /\ n \in Nat /\ ap \in 1..n /\ first_free \in Nat /\ total_unique \in Int
      /\ FilterTypeOK /\ FilterRuns /\ Packing
  BY <1>1 DEF FilterInv, FilterRuns, FilterTypeOK
<1>3. /\ first_free < ap
      /\ \A k \in 1..n : k < ap => (Taken(records[k]) <=> first_free = 0 \/ k < first_free)
      /\ total_unique = IF first_free = 0 THEN n ELSE n - (ap - first_free)
  BY <1>1, <1>2 DEF Packing
<1>4. /\ first_free' \in 1..ap /\ total_unique' = n - (ap' - first_free')
      /\ total_unique' \in 0..n
  BY <1>1, <1>2, <1>3
<1>5. ASSUME NEW k \in 1..n, k < ap'
      PROVE  Taken(records[k]) <=> k < first_free'
  BY <1>1, <1>2, <1>3, <1>5
<1>6. FilterTypeOK' /\ FilterRuns'
  BY <1>1, <1>2, <1>4 DEF FilterTypeOK, FilterRuns
<1>7. ASSUME NEW k \in 1..n, Taken(scanned[k]) PROVE Listed(scanned[k], 1..n)'
  BY <1>1, <1>2, <1>7 DEF Packing, Listed
<1>8. Packing'
  <2>1. \A k \in 1..n : Taken(records[k]) => records[k] \in ToSet(scanned)
    BY <1>1, <1>2 DEF Packing
  <2>2. \A p, q \in 1..n : p < q /\ Taken(records[p]) /\ Taken(records[q]) =>
          FirstSeen(records[p], scanned) < FirstSeen(records[q], scanned)
    BY <1>1, <1>2 DEF Packing
  <2> QED
    BY <1>1, <1>2, <1>4, <1>5, <1>7, <2>1, <2>2 DEF Packing
<1> QED
  BY <1>1, <1>6, <1>8 DEF FilterInv, Merging, ListIsUnique

(* A record that fills the start of the gap moves the gap by one.          *)
LEMMA MovesForward ==
    ASSUME FilterInv, mpc = "filter", MoveForward, mpc' = "filter"
    PROVE  FilterInv'
<1> DEFINE n == Len(records)
           gap == first_free
<1>1. /\ loop = "pack" /\ loop' = "pack" /\ ap <= n /\ Taken(records[ap])
      /\ total_unique' = total_unique /\ ap' = ap + 1 /\ ap1' = ap1
      /\ scanned' = scanned
      /\ first_free = 0 => records' = records /\ first_free' = first_free
      /\ first_free # 0 => /\ records' = Moved(records, ap, first_free)
                           /\ first_free' = FirstFree(Moved(records, ap, first_free))
  BY DEF MoveForward, NextFree
<1>2. /\ records \in Seq(Records) /\ scanned \in Seq(Records) /\ n = Len(scanned)
      /\ n \in Nat /\ ap \in 1..n /\ first_free \in 0..n /\ total_unique \in 0..n
      /\ FilterTypeOK /\ FilterRuns /\ Packing
  BY <1>1 DEF FilterInv, FilterRuns, FilterTypeOK
<1>3. /\ first_free < ap
      /\ \A k \in 1..n : k < ap => (Taken(records[k]) <=> first_free = 0 \/ k < first_free)
      /\ total_unique = IF first_free = 0 THEN n ELSE n - (ap - first_free)
      /\ \A k \in 1..n : Taken(records[k]) => records[k] \in ToSet(scanned)
      /\ \A k \in 1..n : Taken(scanned[k]) => Listed(scanned[k], 1..n)
      /\ \A p, q \in 1..n : p < q /\ Taken(records[p]) /\ Taken(records[q]) =>
           FirstSeen(records[p], scanned) < FirstSeen(records[q], scanned)
  BY <1>1, <1>2 DEF Packing
<1>4. CASE first_free = 0
  <2>1. FilterTypeOK' /\ FilterRuns'
    BY <1>1, <1>2, <1>4 DEF FilterTypeOK, FilterRuns
  <2>2. \A k \in 1..n : Taken(scanned[k]) => Listed(scanned[k], 1..n)'
    BY <1>1, <1>3, <1>4 DEF Listed
  <2>3. Packing'
    BY <1>1, <1>2, <1>3, <1>4, <2>2 DEF Packing
  <2> QED
    BY <1>1, <2>1, <2>3 DEF FilterInv, Merging, ListIsUnique
<1>5. CASE first_free # 0
  <2>1. /\ records' \in Seq(Records) /\ Len(records') = n
        /\ records'[ap] = Cleared /\ records'[gap] = records[ap]
        /\ \A k \in (1..n) \ {ap, gap} : records'[k] = records[k]
    <3>1. /\ gap \in 1..n /\ gap # ap /\ records[ap] \in Records
          /\ Cleared \in Records
      BY <1>2, <1>3, <1>5, RecordFields
    <3>2. records' = [[records EXCEPT ![gap] = records[ap]] EXCEPT ![ap] = Cleared]
      BY <1>1, <1>5, <3>1 DEF Moved
    <3> QED
      BY <1>2, <3>1, <3>2
  <2>2. ~Taken(records'[ap]) /\ Taken(records'[gap])
    BY <1>1, <2>1 DEF Taken, Cleared
  <2>3. /\ \A k \in 1..n : k <= gap => Taken(records'[k])
        /\ \A k \in 1..n : gap < k /\ k <= ap => ~Taken(records'[k])
    BY <1>2, <1>3, <1>5, <2>1, <2>2
  <2>4. first_free' = gap + 1
    <3>1. gap + 1 \in 1..n /\ ~Taken(records'[gap + 1])
      BY <1>2, <1>3, <2>3
    <3>2. \A k \in 1..n : ~Taken(records'[k]) => gap + 1 <= k
      BY <1>2, <2>3
    <3> QED
      BY <1>1, <1>5, <2>1, <3>1, <3>2, FirstFreeIs
  <2>5. FilterTypeOK' /\ FilterRuns'
    BY <1>1, <1>2, <1>3, <2>1, <2>4 DEF FilterTypeOK, FilterRuns
  <2>6. ASSUME NEW k \in 1..n, Taken(records'[k])
        PROVE  \E m \in 1..n : /\ Taken(records[m]) /\ records'[k] = records[m]
                               /\ \/ k = gap /\ m = ap
                                  \/ k # gap /\ k # ap /\ m = k
    <3>1. CASE k = gap
      BY <1>1, <1>2, <2>1, <3>1
    <3>2. CASE k # gap
      BY <2>1, <2>2, <2>6, <3>2
    <3> QED
      BY <3>1, <3>2
  <2>7. ASSUME NEW k \in 1..n, Taken(records'[k]) PROVE records'[k] \in ToSet(scanned)
    BY <1>3, <2>6, <2>7
  <2>8. ASSUME NEW k \in 1..n, Taken(scanned[k])
        PROVE  \E m \in 1..n : Alike(records'[m], scanned[k])
                               /\ records'[m].rssi >= scanned[k].rssi
    <3>1. PICK m \in 1..n : Alike(records[m], scanned[k]) /\ records[m].rssi >= scanned[k].rssi
      BY <1>3, <2>8 DEF Listed
    <3>2. m # gap
      <4>1. Taken(records[m])
        BY <2>8, <3>1 DEF Alike, Taken
      <4> QED
        BY <1>2, <1>3, <1>5, <4>1
    <3>3. CASE m = ap
      <4>1. gap \in 1..n /\ records'[gap] = records[m]
        BY <1>2, <1>5, <2>1, <3>3
      <4> QED
        BY <3>1, <4>1
    <3>4. CASE m # ap
      BY <2>1, <3>1, <3>2, <3>4
    <3> QED
      BY <3>3, <3>4
  <2>9. ASSUME NEW p \in 1..n, NEW q \in 1..n, p < q, Taken(records'[p]), Taken(records'[q])
        PROVE  FirstSeen(records'[p], scanned) < FirstSeen(records'[q], scanned)
    <3>1. PICK i \in 1..n : /\ Taken(records[i]) /\ records'[p] = records[i]
                            /\ \/ p = gap /\ i = ap
                               \/ p # gap /\ p # ap /\ i = p
      BY <2>6, <2>9
    <3>2. PICK j \in 1..n : /\ Taken(records[j]) /\ records'[q] = records[j]
                            /\ \/ q = gap /\ j = ap
                               \/ q # gap /\ q # ap /\ j = q
      BY <2>6, <2>9
    <3>3. i < j
      BY <1>2, <1>3, <2>3, <2>9, <3>1, <3>2
    <3> QED
      BY <1>3, <3>1, <3>2, <3>3
  <2>10. Packing'
    <3>1. first_free' < ap' /\ first_free' # 0
          /\ total_unique' = n - (ap' - first_free')
      BY <1>1, <1>2, <1>3, <1>5, <2>4
    <3>2. \A k \in 1..n : k < ap' => (Taken(records'[k]) <=> k < first_free')
      BY <1>1, <1>2, <2>3, <2>4
    <3> QED
      BY <1>1, <2>1, <2>7, <2>8, <2>9, <3>1, <3>2 DEF Packing, Listed
  <2> QED
    BY <1>1, <2>5, <2>10 DEF FilterInv, Merging, ListIsUnique
<1> QED
  BY <1>4, <1>5

(* What is before the gap when the loop ends is the list.                  *)
LEMMA EndsPack ==
    ASSUME FilterInv, mpc = "filter", EndPack, mpc' = "generate"
    PROVE  FilterInv'
<1> DEFINE n == Len(records)
           m == total_unique
<1>1. /\ loop = "pack" /\ loop' = "none" /\ ap > n
      /\ records' = SubSeq(records, 1, m) /\ scanned' = scanned
      /\ ap' = 0 /\ first_free' = 0 /\ total_unique' = 0 /\ ap1' = ap1
  BY DEF EndPack
<1>2. /\ records \in Seq(Records) /\ scanned \in Seq(Records) /\ n = Len(scanned)
      /\ n \in Nat /\ ap = n + 1 /\ first_free \in 0..n /\ m \in 0..n
      /\ FilterTypeOK /\ FilterRuns /\ Packing
  BY <1>1 DEF FilterInv, FilterRuns, FilterTypeOK
<1>3. /\ first_free < ap
      /\ \A k \in 1..n : k < ap => (Taken(records[k]) <=> first_free = 0 \/ k < first_free)
      /\ m = IF first_free = 0 THEN n ELSE n - (ap - first_free)
      /\ \A k \in 1..n : Taken(records[k]) => records[k] \in ToSet(scanned)
      /\ \A k \in 1..n : Taken(scanned[k]) => Listed(scanned[k], 1..n)
      /\ \A p, q \in 1..n : p < q /\ Taken(records[p]) /\ Taken(records[q]) =>
           FirstSeen(records[p], scanned) < FirstSeen(records[q], scanned)
  BY <1>1, <1>2 DEF Packing
<1>4. ASSUME NEW k \in 1..n PROVE Taken(records[k]) <=> k <= m
  <2>1. Taken(records[k]) <=> first_free = 0 \/ k < first_free
    BY <1>2, <1>3, <1>4
  <2>2. (first_free = 0 \/ k < first_free) <=> k <= m
    BY <1>2, <1>3
  <2> QED
    BY <2>1, <2>2
<1>5. /\ records' \in Seq(Records) /\ Len(records') = m /\ DOMAIN records' = 1..m
      /\ \A k \in 1..m : records'[k] = records[k]
  BY <1>1, <1>2
<1>6. FilterTypeOK' /\ FilterRuns'
  <2>1. ap1 = 0
    BY <1>1, <1>2 DEF FilterRuns
  <2> QED
    BY <1>1, <1>2, <1>5, <2>1 DEF FilterTypeOK, FilterRuns
<1>7. ASSUME NEW a \in ToSet(records')
      PROVE  Taken(a) /\ a \in ToSet(scanned)
  <2>1. PICK k \in 1..m : a = records[k]
    BY <1>5 DEF ToSet
  <2> QED
    BY <1>2, <1>3, <1>4, <2>1
<1>8. ASSUME NEW b \in ToSet(scanned), Taken(b)
      PROVE  \E a \in ToSet(records') : Alike(a, b) /\ a.rssi >= b.rssi
  <2>1. PICK k \in 1..n : b = scanned[k]
    BY <1>2 DEF ToSet
  <2>2. PICK i \in 1..n : Alike(records[i], b) /\ records[i].rssi >= b.rssi
    BY <1>3, <1>8, <2>1 DEF Listed
  <2>3. i \in 1..m
    BY <1>2, <1>8, <1>4, <2>2 DEF Alike, Taken
  <2>4. records[i] \in ToSet(records')
    BY <1>5, <2>3 DEF ToSet
  <2> QED
    BY <2>2, <2>4
<1>9. ASSUME NEW i \in 1..m, NEW j \in 1..m, i < j
      PROVE  FirstSeen(records'[i], scanned) < FirstSeen(records'[j], scanned)
  BY <1>2, <1>3, <1>5, <1>9, <1>4
<1>10. Represents(records', scanned')
  BY <1>1, <1>5, <1>7, <1>8, <1>9 DEF Represents
<1> QED
  BY <1>1, <1>6, <1>10 DEF FilterInv, Merging, Packing, ListIsUnique

(* Nothing but the manager's work on the list changes what the filter uses.*)
LEMMA FilterRests ==
    ASSUME FilterInv, UNCHANGED filterVars, mpc' = "filter" <=> mpc = "filter",
           mpc' \in {"generate", "close"} => mpc \in {"generate", "close"}
    PROVE  FilterInv'
<1> USE DEF filterVars
<1>1. FilterTypeOK' /\ FilterRuns'
  BY DEF FilterInv, FilterTypeOK, FilterRuns
<1>2. Merging' /\ Packing' /\ ListIsUnique'
  BY DEF FilterInv, Merging, Packing, ListIsUnique, Listed
<1> QED
  BY <1>1, <1>2 DEF FilterInv

(* The list is right after every step: the filter keeps its invariants,    *)
(* which start with the scan and end with the text.                        *)
LEMMA FilterNext ==
    ASSUME FilterInv, [Next]_vars
    PROVE  FilterInv'
<1> USE DEF managerVars
<1>1. CASE LockList
  <2>1. CASE UNCHANGED filterVars /\ mpc' = "idle"
    BY <1>1, <2>1, FilterRests DEF LockList
  <2>2. CASE mpc' = "filter" /\ \E scan \in BoundedSeq(Records, MaxAps) : Begin(scan)
    <3>1. PICK scan \in BoundedSeq(Records, MaxAps) : Begin(scan)
      BY <2>2
    <3> QED
      BY <2>2, <3>1, ScanFits, FilterBegins
  <2> QED
    BY <1>1, <2>1, <2>2 DEF LockList
<1>2. CASE FilterList
  <2>1. /\ mpc = "filter" /\ FilterUnique
        /\ mpc' = IF loop' = "none" THEN "generate" ELSE "filter"
    BY <1>2 DEF FilterList
  <2>2. CASE CompareRecords
    <3>1. mpc' = "filter"
      BY <2>1, <2>2 DEF CompareRecords
    <3> QED
      BY <2>1, <2>2, <3>1, ComparesRecords
  <2>3. CASE NextRecord
    <3>1. mpc' = "filter"
      BY <2>1, <2>3 DEF NextRecord
    <3> QED
      BY <2>1, <2>3, <3>1, TakesNextRecord
  <2>4. CASE EndMerge
    <3>1. mpc' = "filter"
      BY <2>1, <2>4 DEF EndMerge
    <3> QED
      BY <2>1, <2>4, <3>1, EndsMerge
  <2>5. CASE SkipCleared
    <3>1. mpc' = "filter"
      BY <2>1, <2>5 DEF SkipCleared
    <3> QED
      BY <2>1, <2>5, <3>1, SkipsCleared
  <2>6. CASE MoveForward
    <3>1. mpc' = "filter"
      BY <2>1, <2>6 DEF MoveForward
    <3> QED
      BY <2>1, <2>6, <3>1, MovesForward
  <2>7. CASE EndPack
    <3>1. mpc' = "generate"
      BY <2>1, <2>7 DEF EndPack
    <3> QED
      BY <2>1, <2>7, <3>1, EndsPack
  <2> QED
    BY <2>1, <2>2, <2>3, <2>4, <2>5, <2>6, <2>7 DEF FilterUnique
<1>3. CASE BeginList
  <2>1. mpc = "generate" /\ mpc' = "close" /\ UNCHANGED filterVars
    BY <1>3 DEF BeginList
  <2> QED
    BY <2>1, FilterRests
<1>4. CASE EndList
  <2>1. /\ mpc = "close" /\ mpc' = "idle" /\ records' = <<>> /\ scanned' = <<>>
        /\ UNCHANGED <<loop, ap, ap1, first_free, total_unique>>
    BY <1>4 DEF EndList
  <2>2. loop = "none" /\ ap = 0 /\ ap1 = 0 /\ first_free = 0 /\ total_unique = 0
    BY <2>1 DEF FilterInv, FilterRuns
  <2>3. FilterTypeOK' /\ FilterRuns'
    BY <2>1, <2>2 DEF FilterTypeOK, FilterRuns
  <2> QED
    BY <2>1, <2>2, <2>3 DEF FilterInv, Merging, Packing, ListIsUnique
<1>5. CASE Receive
  <2>1. mpc = "idle" /\ mpc' \notin {"filter", "generate", "close"} /\ UNCHANGED filterVars
    BY <1>5 DEF Receive, Stop
  <2> QED
    BY <2>1, FilterRests
<1>6. CASE Status \/ Restart \/ ManagerSends
  <2>1. /\ UNCHANGED filterVars
        /\ mpc \notin {"filter", "generate", "close"}
        /\ mpc' \notin {"filter", "generate", "close"}
    BY <1>6
       DEF Status, BeginStatus, EndStatus, Restart, FreeUrls, StopServer,
           ServerStopped, StartServer, ManagerSends
  <2> QED
    BY <2>1, FilterRests
<1>7. CASE Event \/ Request \/ Handler \/ UNCHANGED vars
  <2>1. UNCHANGED <<mpc, filterVars>>
    BY <1>7
       DEF Event, Request, Handler, Compare, CompareFreed, LockJson, LockTimesOut,
           SendJson, SendOrder, vars
  <2> QED
    BY <2>1, FilterRests
<1> QED
  BY <1>1, <1>2, <1>3, <1>4, <1>5, <1>6, <1>7 DEF Next, Manager, AccessPointList

(***************************************************************************)
(* The types of the rest                                                   *)
(***************************************************************************)

(* Every step of a task keeps its program counter, texts and queue in      *)
(* their types; who sends to the queue finds room there first.             *)
LEMMA TypeNext ==
    ASSUME TypeInv, [Next]_vars
    PROVE  TypeInv'
<1> USE DEF jsonVars, httpdVars, managerVars, Goto, End, TypeInv
<1>1. CASE Event
  <2>1. PICK m \in {"scan_done", "status", "order", "stop_ap"} :
          queue' = Append(queue, m) /\ Len(queue) < QueueLength
    BY <1>1 DEF Event
  <2>2. m \in Messages
    BY DEF Messages
  <2>3. queue' \in Seq(Messages) /\ Len(queue') <= QueueLength
    BY <2>1, <2>2
  <2> QED
    BY <1>1, <2>3 DEF Event
<1>2. CASE Receive
  <2>1. /\ queue # <<>> /\ queue' = Tail(queue)
        /\ UNCHANGED <<panicked, hpc, hkind, mutex, apJson, ipJson>>
    BY <1>2 DEF Receive
  <2>2. mpc' \in {"idle", "list", "status", "start", "free",
                  "send_connect", "send_start_ap"}
    BY <1>2 DEF Receive, Stop
  <2>3. queue' \in Seq(Messages) /\ Len(queue') <= QueueLength
    BY <2>1
  <2> QED
    BY <2>1, <2>2, <2>3
<1>3. CASE AccessPointList \/ Status \/ Restart
  BY <1>3
     DEF AccessPointList, LockList, FilterList, BeginList, EndList, Status, BeginStatus,
         EndStatus, Restart, FreeUrls, StopServer, ServerStopped, StartServer, Texts
<1>4. CASE Request \/ Compare \/ CompareFreed \/ LockJson \/ LockTimesOut \/ SendJson
  BY <1>4
     DEF Request, Compare, CompareFreed, LockJson, LockTimesOut, SendJson, Texts, Kinds
<1>5. CASE SendOrder
  <2>1. "order" \in Messages /\ queue' = Append(queue, "order") /\ Len(queue) < QueueLength
    BY <1>5 DEF SendOrder, Messages
  <2>2. queue' \in Seq(Messages) /\ Len(queue') <= QueueLength
    BY <2>1
  <2> QED
    BY <1>5, <2>2 DEF SendOrder, Kinds
<1>6. CASE ManagerSends
  <2>1. PICK m \in {"order", "start_ap"} :
          queue' = Append(queue, m) /\ Len(queue) < QueueLength
    BY <1>6 DEF ManagerSends
  <2>2. m \in Messages
    BY DEF Messages
  <2>3. queue' \in Seq(Messages) /\ Len(queue') <= QueueLength
    BY <2>1, <2>2
  <2> QED
    BY <1>6, <2>3 DEF ManagerSends
<1>7. CASE UNCHANGED vars
  BY <1>7 DEF vars
<1> QED
  BY <1>1, <1>2, <1>3, <1>4, <1>5, <1>6, <1>7 DEF Next, Manager, Handler

(***************************************************************************)
(* What holds in every state                                               *)
(***************************************************************************)

(* Nobody has the mutex, the URLs are there and there is no list at first. *)
LEMMA HttpInit == Init => HttpInv
<1>1. Init => TypeInv
  <2>1. Init => queue \in Seq(Messages) /\ Len(queue) <= QueueLength
    <3>1. "load" \in Messages
      BY DEF Messages
    <3>2. QED
      BY <3>1, QueueLengthAssumption DEF Init
  <2>2. Init => panicked \in BOOLEAN
    BY DEF Init
  <2> QED
    BY <2>1, <2>2 DEF Init, TypeInv, Kinds, Texts
<1>2. Init => MutexInv /\ ServerInv
  BY DEF Init, MutexInv, ServerInv, Writing
<1> QED
  BY <1>1, <1>2, FilterStarts DEF HttpInv

(* Types, mutex, server and list are as they should be in every state.     *)
LEMMA HttpAlways == Spec => []HttpInv
<1>1. HttpInv /\ [Next]_vars => HttpInv'
  BY TypeNext, MutexNext, ServerNext, FilterNext DEF HttpInv
<1> QED
  BY HttpInit, <1>1, PTL DEF Spec

(* All variables have their types: the queue never has more messages than  *)
(* there is room for, the indices of the filter stay in the list, and while*)
(* no server runs the manager neither frees URLs nor waits in httpd_stop.  *)
THEOREM TypeCorrect == Spec => []TypeOK
<1>1. HttpInv => TypeOK
  <2>1. TypeInv /\ ServerInv =>
          (server = "off" => mpc \notin {"free", "stop"})
    BY DEF TypeInv, ServerInv
  <2>2. ServerInv => /\ server \in {"off", "running", "stopping"}
                     /\ {root, others} \subseteq BOOLEAN
    BY DEF ServerInv
  <2> QED
    BY <2>1, <2>2 DEF HttpInv, FilterInv, TypeInv, TypeOK
<1> QED
  BY HttpAlways, <1>1, PTL

(* wifi_manager_filter_unique leaves every network of a scan once, with its*)
(* best rssi and in the order of first sight, whatever the scan and however*)
(* long it is, before the text is made from it.                            *)
THEOREM ListCorrect == Spec => []ListIsUnique
<1>1. HttpInv => ListIsUnique
  BY DEF HttpInv, FilterInv
<1> QED
  BY HttpAlways, <1>1, PTL

(* No answer is sent from a text that the manager has begun and not ended, *)
(* although either side may give up the mutex and go on without it.        *)
THEOREM AnswerCorrect == Spec => []NoTornAnswer
<1>1. HttpInv => NoTornAnswer
  BY DEF HttpInv, MutexInv, NoTornAnswer, Writing
<1> QED
  BY HttpAlways, <1>1, PTL

(* A server that runs, and is not being stopped, has all its URLs, after   *)
(* any sequence of stops and of starts that failed.                        *)
THEOREM UrlsCorrect == Spec => []UrlsWhole
<1>1. HttpInv => UrlsWhole
  BY DEF HttpInv, ServerInv, UrlsWhole
<1> QED
  BY HttpAlways, <1>1, PTL

(* No order of locks and messages makes handler and manager wait for each  *)
(* other at the mutex: they both wait only when the queue is full, the     *)
(* handler for room, and the manager in httpd_stop for the handler, or for *)
(* room that only it could make (wifi_manager_send_message).               *)
THEOREM DeadlockCorrect == Spec => []DeadlockOnlyOnQueue
<1>1. HttpInv => DeadlockOnlyOnQueue
  <2> SUFFICES ASSUME HttpInv, HandlerWaits, ManagerWaits
               PROVE  Blocked
    BY DEF DeadlockOnlyOnQueue
  <2>1. MutexInv /\ mutex \in {"free", "httpd", "manager"}
    BY DEF HttpInv, TypeInv
  <2>2. mutex = "free"
    BY <2>1 DEF HandlerWaits, ManagerWaits, MutexInv, Writing
  <2> QED
    BY <2>2 DEF HandlerWaits, ManagerWaits, Blocked
<1> QED
  BY HttpAlways, <1>1, PTL
=============================================================================
