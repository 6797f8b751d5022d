----------------------------- MODULE LossyStream -----------------------------
(***************************************************************************)
(* What the native USB port promises to its reader (docs/NATIVE_USB.md): of  *)
(* the events submitted some may be lost at any time, but those that are     *)
(* delivered are genuine, come in order and come once.                       *)
(***************************************************************************)
EXTENDS Naturals

VARIABLES
    sent,           \* the number of events submitted, which are numbered from 1
    transit,        \* those that may still be delivered
    delivered       \* the last one delivered

vars == <<sent, transit, delivered>>

Init == sent = 0 /\ transit = {} /\ delivered = 0

Submit ==
    /\ sent' = sent + 1
    /\ transit' \in {transit, transit \union {sent'}}
    /\ UNCHANGED delivered

Lose ==
    /\ transit' \in SUBSET transit
    /\ UNCHANGED <<sent, delivered>>

Deliver ==
    /\ delivered' \in transit
    /\ transit' = {n \in transit : n > delivered'}
    /\ UNCHANGED sent

Next == Submit \/ Lose \/ Deliver

Spec == Init /\ [][Next]_vars
=============================================================================
