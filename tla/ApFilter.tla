------------------------------ MODULE ApFilter ------------------------------
(***************************************************************************)
(* wifi_manager_filter_unique, step by step: two loops over the records of *)
(* a scan, in place.  The first one merges the records of one network, the *)
(* second one moves what is left to the front.                             *)
(*                                                                         *)
(* The manager runs it with the mutex of the JSON texts, and nobody else   *)
(* reads the records, so a step is one pass through the body of a loop.    *)
(***************************************************************************)
EXTENDS Integers, SequencesExt

CONSTANTS
    Names,        \* ssids of access points
    Auths,        \* authmodes
    Rssis,        \* signal strengths
    MaxAps        \* MAX_AP_NUM, what one scan reports at most

ASSUME RssisAssumption == Rssis \subseteq Int /\ 0 \notin Rssis
ASSUME MaxApsAssumption == MaxAps \in Nat \ {0}

Hidden == "hidden"  \* an empty ssid
ASSUME HiddenAssumption == Hidden \notin Names

Cleared == [ssid |-> Hidden, auth |-> 0, rssi |-> 0]
Records == [ssid : Names, auth : Auths, rssi : Rssis] \cup {Cleared}

VARIABLES
    records,      \* accessp_records; a slot that is empty is Cleared
    scanned,      \* what the driver has copied there (history)
    loop,         \* "merge", "pack", or "none" while the filter does not run
    ap, ap1,      \* the slot of the loop, and that of the loop inside it
    first_free,   \* the slot it points to, or 0 for NULL
    total_unique

filterVars == <<records, scanned, loop, ap, ap1, first_free, total_unique>>

Alike(a, b) == a.ssid = b.ssid /\ a.auth = b.auth
Taken(a) == a.ssid # Hidden
Stronger(q, r) == IF r > q THEN r ELSE q

FilterInit ==
    /\ records = <<>> /\ scanned = <<>> /\ loop = "none"
    /\ ap = 0 /\ ap1 = 0 /\ first_free = 0 /\ total_unique = 0

(* The call, with the records of a scan.                                   *)
Begin(list) ==
    /\ records' = list /\ scanned' = list
    /\ loop' = "merge" /\ ap' = 1 /\ ap1' = 2
    /\ first_free' = 0 /\ total_unique' = Len(list)

-----------------------------------------------------------------------------
(* The first loop.                                                         *)

(* A record like that of slot i is cleared, and slot i keeps the best rssi.*)
Absorb(list, i, j) ==
    IF Alike(list[i], list[j])
    THEN [list EXCEPT ![i].rssi = Stronger(@, list[j].rssi), ![j] = Cleared]
    ELSE list

CompareRecords ==
    /\ loop = "merge" /\ ap < Len(records)
    /\ Taken(records[ap]) /\ ap1 <= Len(records)
    /\ records' = Absorb(records, ap, ap1)
    /\ ap1' = ap1 + 1
    /\ UNCHANGED <<scanned, loop, ap, first_free, total_unique>>

NextRecord ==
    /\ loop = "merge" /\ ap < Len(records)
    /\ ~Taken(records[ap]) \/ ap1 > Len(records)
    /\ ap' = ap + 1 /\ ap1' = ap + 2
    /\ UNCHANGED <<records, scanned, loop, first_free, total_unique>>

EndMerge ==
    /\ loop = "merge" /\ ap >= Len(records)
    /\ loop' = "pack" /\ ap' = 1 /\ ap1' = 0
    /\ UNCHANGED <<records, scanned, first_free, total_unique>>

-----------------------------------------------------------------------------
(* The second loop.                                                        *)

SkipCleared ==
    /\ loop = "pack" /\ ap <= Len(records) /\ ~Taken(records[ap])
    /\ first_free' = IF first_free = 0 THEN ap ELSE first_free
    /\ total_unique' = total_unique - 1
    /\ ap' = ap + 1
    /\ UNCHANGED <<records, scanned, loop, ap1>>

FirstFree(list) == SelectInSeq(list, LAMBDA a : ~Taken(a))
Moved(list, i, j) == [list EXCEPT ![j] = list[i], ![i] = Cleared]

(* Mutant: the search for the next free slot is left out.                  *)
NextFreeStale(list, i, free) == free

NextFree(list, i, free) == FirstFree(Moved(list, i, free))

(* A record moves to the first free slot, if there is one.                 *)
MoveForward ==
    /\ loop = "pack" /\ ap <= Len(records) /\ Taken(records[ap])
    /\ IF first_free = 0
       THEN UNCHANGED <<records, first_free>>
       ELSE /\ records' = Moved(records, ap, first_free)
            /\ first_free' = NextFree(records, ap, first_free)
    /\ ap' = ap + 1
    /\ UNCHANGED <<scanned, loop, ap1, total_unique>>

EndPack ==
    /\ loop = "pack" /\ ap > Len(records)
    /\ records' = SubSeq(records, 1, total_unique)
    /\ loop' = "none" /\ ap' = 0 /\ first_free' = 0 /\ total_unique' = 0
    /\ UNCHANGED <<scanned, ap1>>

FilterUnique ==
    \/ CompareRecords \/ NextRecord \/ EndMerge
    \/ SkipCleared \/ MoveForward \/ EndPack

-----------------------------------------------------------------------------
FilterTypeOK ==
    /\ records \in Seq(Records) /\ scanned \in Seq(Records)
    /\ Len(records) <= Len(scanned) /\ Len(scanned) <= MaxAps
    /\ loop \in {"none", "merge", "pack"}
    /\ ap \in 0..(Len(records) + 1) /\ ap1 \in 0..(Len(records) + 2)
    /\ first_free \in 0..Len(records) /\ total_unique \in 0..Len(records)

(* What the filter is for: it leaves every ssid and authmode that was      *)
(* scanned once, with the best rssi, in the order of first sight.          *)
FirstSeen(a, list) == SelectInSeq(list, LAMBDA b : Alike(a, b))
Represents(list, scan) ==
    /\ \A a \in ToSet(list) : Taken(a) /\ a \in ToSet(scan)
    /\ \A b \in {b \in ToSet(scan) : Taken(b)} :
         \E a \in ToSet(list) : Alike(a, b) /\ a.rssi >= b.rssi
    /\ \A i, j \in DOMAIN list :
         i < j => FirstSeen(list[i], scan) < FirstSeen(list[j], scan)
=============================================================================
