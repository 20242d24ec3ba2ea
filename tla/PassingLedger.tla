--------------------------- MODULE PassingLedger ---------------------------
(***************************************************************************)
(* What the passing detector promises its user, without clock, threads or  *)
(* deques: the detections of a transponder are numbered in the order they  *)
(* are received; they stay open until the detector settles all that are    *)
(* open at once, as a passing if there are enough of them.  Beyond the cap *)
(* the oldest open one is given up.                                        *)
(***************************************************************************)
EXTENDS Integers, Sequences, FiniteSets

CONSTANTS Keys, HitLimit, MsgLimit,
    Ids        \* the numbers a detection may have, naturals

VARIABLES
    open,      \* key -> detections not yet settled
    closed,    \* key -> the passings, each the set of its detections
    received,  \* key -> every detection ever received
    lost       \* key -> detections given up

vars == <<open, closed, received, lost>>

Init ==
    /\ open = [k \in Keys |-> {}]
    /\ closed = [k \in Keys |-> <<>>]
    /\ received = [k \in Keys |-> {}]
    /\ lost = [k \in Keys |-> {}]

Oldest(S) == CHOOSE c \in S : \A d \in S : c =< d

Receive(k, c) ==
    /\ \A j \in Keys : \A d \in received[j] : d < c
    /\ received' = [received EXCEPT ![k] = @ \cup {c}]
    /\ LET all == open[k] \cup {c}
           over == IF Cardinality(all) > MsgLimit THEN {Oldest(all)} ELSE {}
       IN  /\ open' = [open EXCEPT ![k] = all \ over]
           /\ lost' = [lost EXCEPT ![k] = @ \cup over]
    /\ UNCHANGED closed

\* Some transponders left: all that is open for each of them is settled.
Settle(gone) ==
    /\ \A k \in gone : open[k] # {}
    /\ open' = [k \in Keys |-> IF k \in gone THEN {} ELSE open[k]]
    /\ closed' = [k \in Keys |->
         IF k \in gone /\ Cardinality(open[k]) >= HitLimit
         THEN Append(closed[k], open[k]) ELSE closed[k]]
    /\ lost' = [k \in Keys |->
         IF k \in gone /\ Cardinality(open[k]) < HitLimit
         THEN lost[k] \cup open[k] ELSE lost[k]]
    /\ UNCHANGED received

Next ==
    \/ \E k \in Keys, c \in Ids : Receive(k, c)
    \/ \E gone \in SUBSET Keys : Settle(gone)

Spec == Init /\ [][Next]_vars
============================================================================
