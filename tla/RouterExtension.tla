-------------------------- MODULE RouterExtension --------------------------
(***************************************************************************)
(* cr11_gateway_router_extension.mjs without its soft rejoin: one instance   *)
(* from its start to its stop, the heartbeats that hold the lease of the     *)
(* gateway, and the routing of the gateway's packets, each of which is       *)
(* published once although the network may deliver it twice, late or in      *)
(* another order.  A function runs without interruption up to an await, so   *)
(* an action is what happens between two of them.                            *)
(*                                                                         *)
(* The network is external, as is the gateway; its sequence numbers are      *)
(* those of emit_gateway_packet (cr11_bridge.c), which begin anew with every *)
(* boot.  An operator named X_Y is a mutant of X.                            *)
(***************************************************************************)
EXTENDS Naturals, Sequences, FiniteSets, SequencesExt

CONSTANTS
    Sources,        \* addresses of remotes
    Known,          \* those that Zigbee2MQTT resolves to a CR11S8UZ
    WINDOW,         \* DEDUPE_WINDOW_MS
    LIMIT,          \* DEDUPE_LIMIT
    MaxDelay,       \* bound on the time from sending a packet to its last delivery
    MaxCopies,      \* bound on the deliveries of a packet
    MaxPackets,     \* bound on the packets
    MaxBoots        \* bound on the boots of the gateway

ASSUME RouterAssumption ==
    /\ Known \subseteq Sources
    /\ {WINDOW, LIMIT, MaxDelay, MaxCopies, MaxPackets, MaxBoots} \subseteq Nat
    /\ LIMIT > 0

VARIABLES
    gateway,        \* Zigbee2MQTT knows exactly one gateway, with endpoint 21
    boot,           \* boots of the gateway so far
    sequence,       \* gateway_event_sequence
    packets,        \* the packets sent so far
    starting,       \* start() awaits its first heartbeat
    stopping,       \* this.stopping
    listening,      \* the listeners are registered
    timer,          \* an interval timer calls heartbeatTick
    heartbeatRunning,
    commands,       \* heartbeat commands that have not settled
    seen            \* this.seen in the order of insertion, with the age of each entry

air == <<boot, sequence, packets>>
life == <<starting, stopping, listening, timer>>
heartbeat == <<heartbeatRunning, commands>>
vars == <<gateway, air, life, heartbeat, seen>>

Init ==
    /\ gateway \in BOOLEAN
    /\ boot = 1 /\ sequence = 0 /\ packets = <<>>
    /\ starting = FALSE /\ stopping = FALSE /\ listening = FALSE /\ timer = FALSE
    /\ heartbeatRunning = FALSE /\ commands = 0
    /\ seen = <<>>

-----------------------------------------------------------------------------
(* The heartbeat. *)

Silent_WhileRunning == heartbeatRunning

Silent == stopping \/ heartbeatRunning

\* The part of heartbeatTick() before its await.  It is over at once unless the
\* command is sent.
Sends == ~Silent /\ gateway

HeartbeatTick ==
    IF Sends
    THEN heartbeatRunning' = TRUE /\ commands' = commands + 1
    ELSE UNCHANGED heartbeat

Finished_OnSuccess(ok) == ok

\* finally: whatever became of the command, the next tick may send one.
Finished(ok) == TRUE

\* The command settles, and start() goes on if it was waiting for it.
CommandSettles(ok) ==
    /\ commands > 0
    /\ commands' = commands - 1
    /\ heartbeatRunning' = ~Finished(ok)
    /\ starting' = FALSE /\ timer' = (timer \/ starting)
    /\ UNCHANGED <<gateway, air, stopping, listening, seen>>

Start ==
    /\ ~listening /\ ~stopping
    /\ listening' = TRUE
    /\ HeartbeatTick
    /\ starting' = Sends /\ timer' = ~Sends
    /\ UNCHANGED <<gateway, air, stopping, seen>>

\* A timer that start() creates after this is never cleared.
Stop ==
    /\ listening
    /\ stopping' = TRUE /\ timer' = FALSE /\ listening' = FALSE /\ seen' = <<>>
    /\ UNCHANGED <<gateway, air, starting, heartbeat>>

TimerFires ==
    /\ timer
    /\ HeartbeatTick
    /\ UNCHANGED <<gateway, air, life, seen>>

\* Devices join, are interviewed and are removed.
DevicesChange ==
    /\ gateway' = ~gateway
    /\ UNCHANGED <<air, life, heartbeat, seen>>

-----------------------------------------------------------------------------
(* The routing. *)

\* Number n of its boot, from a source.  boot, published and later (the packets
\* taken since it was published, at most LIMIT) are history.
Packet(source, n) ==
    [source |-> source, seq |-> n, boot |-> boot, age |-> 0, copies |-> 0,
     published |-> FALSE, later |-> 0]

\* The history of a packet that will not be delivered again is forgotten.
Deliverable(packet) == packet.copies < MaxCopies /\ packet.age <= MaxDelay
Settled(packet) ==
    IF Deliverable(packet) THEN packet
    ELSE [packet EXCEPT !.copies = MaxCopies, !.published = FALSE, !.later = 0]

GatewaySends(source) ==
    /\ Len(packets) < MaxPackets
    /\ sequence' = sequence + 1
    /\ packets' = Append(packets, Packet(source, sequence'))
    /\ UNCHANGED <<gateway, boot, life, heartbeat, seen>>

GatewayReboots ==
    /\ boot < MaxBoots /\ sequence > 0
    /\ boot' = boot + 1 /\ sequence' = 0
    /\ UNCHANGED <<gateway, packets, life, heartbeat, seen>>

Expired_Never(entry) == FALSE
Expired_Early(entry) == entry.age >= WINDOW

Expired(entry) == entry.age > WINDOW

Key(packet) == <<packet.source, packet.seq>>

\* The entries stand in the order of their insertion and age alike, so those that
\* have expired are the first ones.
ExpiredPlaces == {i \in DOMAIN seen : Expired(seen[i])}
Fresh == SubSeq(seen, Cardinality(ExpiredPlaces) + 1, Len(seen))
IsDuplicate(packet) == \E i \in DOMAIN Fresh : Fresh[i].key = Key(packet)

\* The oldest entries go first.
Trimmed(entries) ==
    IF Len(entries) > LIMIT THEN SubSeq(entries, Len(entries) - LIMIT + 1, Len(entries))
    ELSE entries

Remember(packet) ==
    seen' = IF IsDuplicate(packet) THEN Fresh
            ELSE Trimmed(Append(Fresh, [key |-> Key(packet), age |-> 0]))

Takes(packet) == listening /\ ~IsDuplicate(packet)

\* A source is looked up after its packet has been remembered.
Publishes(packet) == Takes(packet) /\ packet.source \in Known

Delivered(packet) ==
    [packet EXCEPT !.copies = @ + 1, !.published = @ \/ Publishes(packet)]
Overtaken(packet) ==
    IF packet.published /\ packet.later < LIMIT THEN [packet EXCEPT !.later = @ + 1] ELSE packet

\* One delivery of packet number i: onPublishEntityState, if it is registered.
Deliver(i) ==
    /\ Deliverable(packets[i])
    /\ packets' = [j \in DOMAIN packets |->
                     CASE j = i -> Settled(Delivered(packets[i]))
                       [] j # i /\ Takes(packets[i]) -> Overtaken(packets[j])
                       [] OTHER -> packets[j]]
    /\ IF listening THEN Remember(packets[i]) ELSE UNCHANGED seen
    /\ UNCHANGED <<gateway, boot, sequence, life, heartbeat>>

\* Older than this is all the same.
Oldest == WINDOW + MaxDelay + 1
Older(age) == IF age < Oldest THEN age + 1 ELSE age

Tick ==
    /\ packets' = [i \in DOMAIN packets |-> Settled([packets[i] EXCEPT !.age = Older(@)])]
    /\ seen' = [i \in DOMAIN seen |-> [seen[i] EXCEPT !.age = Older(@)]]
    /\ UNCHANGED <<gateway, boot, sequence, life, heartbeat>>

Next ==
    \/ Start \/ Stop \/ TimerFires \/ DevicesChange \/ Tick \/ GatewayReboots
    \/ \E ok \in BOOLEAN : CommandSettles(ok)
    \/ \E source \in Sources : GatewaySends(source)
    \/ \E i \in DOMAIN packets : Deliver(i)

Spec == Init /\ [][Next]_vars

\* Timers fire, and a command is answered or fails.
RouterFairness == WF_vars(TimerFires) /\ WF_vars(\E ok \in BOOLEAN : CommandSettles(ok))

FairSpec == Spec /\ RouterFairness

-----------------------------------------------------------------------------

\* A packet is published once, unless more packets than the table holds have come
\* in between its deliveries, or a delivery is late by more than the window
\* (isDuplicate).
PublishedOnce ==
    [][\A i \in DOMAIN packets :
         Deliver(i) /\ Publishes(packets[i]) /\ packets[i].published
             => packets[i].later >= LIMIT \/ packets[i].age > WINDOW]_vars

\* A packet of a known remote that is delivered for the first time is published,
\* unless the gateway has rebooted and used the number for the same remote within
\* the window, but for the delay of a packet (isDuplicate and onPublishEntityState).
FreshIsPublished ==
    [][\A i \in DOMAIN packets :
         /\ Deliver(i) /\ packets[i].copies = 0
         /\ listening /\ packets[i].source \in Known
         /\ ~Publishes(packets[i])
         => \E j \in DOMAIN packets :
              /\ packets[j].boot # packets[i].boot /\ Key(packets[j]) = Key(packets[i])
              /\ packets[j].age <= WINDOW + MaxDelay]_vars

\* A stopped extension sends nothing, even if it was stopped while start() was
\* waiting, which leaves its timer behind; and no command is sent while another
\* has not settled (heartbeatTick).
OneHeartbeat ==
    [][commands' > commands => ~stopping /\ commands = 0]_vars

\* An extension that is not stopped goes on with its heartbeats, whatever became
\* of earlier ones, as long as there is exactly one gateway (heartbeatTick).
Beats == commands' > commands
HeartbeatsGoOn ==
    <>[](listening /\ gateway) => []<><<Beats>>_vars
=============================================================================
