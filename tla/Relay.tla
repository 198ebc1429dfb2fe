------------------------------- MODULE Relay -------------------------------
(***************************************************************************)
(* What the gateway promises of the readings it relays: it may lose some,  *)
(* but those that reach the server get there in the order in which they    *)
(* arrived, and once.  How readings are buffered, printed and posted is    *)
(* left open.                                                              *)
(*                                                                         *)
(* Readings are numbered in the order of their arrival.                    *)
(***************************************************************************)
EXTENDS Naturals, Sequences, SequencesExt

VARIABLES
    arrived,   \* how many readings sensors have sent
    pending,   \* the readings that may still reach the server
    delivered  \* the readings that reached it, in order

vars == <<arrived, pending, delivered>>

Init == arrived = 0 /\ pending = {} /\ delivered = <<>>

(* A request that does not parse, or is cut off, counts but carries none.  *)
Arrive ==
    /\ arrived' = arrived + 1
    /\ pending' \in {pending, pending \cup {arrived'}}
    /\ UNCHANGED delivered

Increasing(s) == \A i, j \in 1..Len(s) : i < j => s[i] < s[j]

(* A batch reaches the server, sorted.  No older reading may follow it.    *)
Deliver ==
    LET batch == SubSeq(delivered', Len(delivered) + 1, Len(delivered'))
    IN  /\ delivered' = delivered \o batch
        /\ Increasing(batch)
        /\ ToSet(batch) \subseteq pending
        /\ pending' = pending \ ToSet(batch)
        /\ \A r \in ToSet(batch), s \in pending' : r < s
        /\ UNCHANGED arrived

Lose ==
    /\ \E S \in SUBSET pending : pending' = pending \ S
    /\ UNCHANGED <<arrived, delivered>>

Next == Arrive \/ Deliver \/ Lose

Spec == Init /\ [][Next]_vars
=============================================================================
