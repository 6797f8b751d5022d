----------------------------- MODULE EventPath -----------------------------
(***************************************************************************)
(* The way of a gesture: the remote, external, sends the command that its    *)
(* action table holds for the gesture (routerPlan of cr11s8uz_external.mjs), *)
(* or a command of a rocker; the gateway decodes it, remembers the moves that *)
(* have not been stopped in its motion slots, and emits a packet             *)
(* (cr11_bridge.c).  A stop does not say which of the two buttons of its     *)
(* rocker is released; the gateway infers it from the move it remembers.     *)
(*                                                                         *)
(* The packet is sent to the coordinator, to the USB queue and, as a flash   *)
(* of the light, to the UI queue.  Each of these is a call that does not     *)
(* block and whose failure is only logged; what becomes of the packet on its *)
(* way to Zigbee2MQTT is RouterExtension's subject.                          *)
(***************************************************************************)
EXTENDS Packets

CONSTANTS
    SLOTS,          \* CR11_MOTION_SLOTS
    Links,          \* the pairs of a source and a target endpoint that are in use
    LastSequence,   \* the sequence number before the wrap: 2^32 - 1
    MaxFrames       \* bound on the frames received

ASSUME EventPathAssumption ==
    /\ SLOTS \in Nat \ {0} /\ LastSequence \in Nat \ {0} /\ MaxFrames \in Nat
    /\ \A link \in Links :
         /\ link = <<link[1], link[2]>> /\ link[2] \in Cr11Endpoints
         /\ link[1].address \in [1..8 -> 0..255]

VARIABLES
    slots,          \* motion_slots: a link and a direction, or Unused
    nextSlot,       \* next_motion_slot
    sequence,       \* gateway_event_sequence
    wire,           \* the packet that the last frame has made the gateway send
    gesture,        \* history: what the user has done, NoGesture if nothing
    guess,          \* the buttons that the log of the last frame names
    log,            \* what the log of the last frame says of the packet
    flash,          \* the colour in which the light reports it
    held,           \* history: the button that each link holds, 0 if none
    holders,        \* history: the links that have ever held a button
    frames          \* frames received so far

vars == <<slots, nextSlot, sequence, wire, gesture, guess, log, flash, held, holders, frames>>

Slots == 0..(SLOTS - 1)
Unused == [link |-> <<>>, direction |-> "none"]
NoGesture == <<>>

-----------------------------------------------------------------------------
(* The motion slots. *)

Matching(link) == {i \in Slots : slots[i].link = link}
Free == {i \in Slots : slots[i] = Unused}
First(places) == CHOOSE i \in places : \A j \in places : i <= j

\* A link without a slot takes a free one, or the next one round robin.
Evicts(link) == Matching(link) = {} /\ Free = {}

Place_Next(link) == IF Matching(link) # {} THEN First(Matching(link)) ELSE nextSlot

Place(link) ==
    IF Matching(link) # {} THEN First(Matching(link))
    ELSE IF Evicts(link) THEN nextSlot ELSE First(Free)

RememberMotion(link, direction) ==
    /\ slots' = [slots EXCEPT ![Place(link)] = [link |-> link, direction |-> direction]]
    /\ nextSlot' = IF Evicts(link) THEN (nextSlot + 1) % SLOTS ELSE nextSlot

PreviousMotion(link) ==
    IF Matching(link) = {} THEN "none" ELSE slots[First(Matching(link))].direction

ForgetMotion_Not(link) == UNCHANGED <<slots, nextSlot>>

\* The slot stays the link's.
ForgetMotion(link) ==
    /\ slots' = IF Matching(link) = {} THEN slots
                ELSE [slots EXCEPT ![First(Matching(link))].direction = "none"]
    /\ UNCHANGED nextSlot

TrackMotion(event, link) ==
    CASE event.kind = "level.move" -> RememberMotion(link, event.direction)
      [] event.kind = "window.open" -> RememberMotion(link, "up")
      [] event.kind = "window.close" -> RememberMotion(link, "down")
      [] event.kind \in {"level.stop", "window.stop"} -> ForgetMotion(link)
      [] OTHER -> UNCHANGED <<slots, nextSlot>>

\* What TrackMotion returns.
PriorDirection(event, link) ==
    IF event.kind \in {"level.stop", "window.stop"} THEN PreviousMotion(link) ELSE "none"

-----------------------------------------------------------------------------
(* The frames. *)

\* cr11_ui_runtime_gateway_event and the colours of cr11_ui_state_gateway_event
FlashOf(button) == IF button \in 5..8 THEN "PINK" ELSE "BLUE"

EmitGatewayPacket(event, prior, frame) ==
    LET next == NextSequence(sequence, LastSequence)
        packet == Build(event, prior, frame, next)
    IN  /\ sequence' = next
        /\ log' = FormatJson(packet)
        /\ wire' = IF IsForwardable(packet) THEN Encode(packet) ELSE NoPacket
        /\ flash' = IF IsForwardable(packet) THEN FlashOf(packet.button) ELSE "none"

\* request: the frame is a cluster's own command, to the server, of a standard
\* cluster.
RawZclHandler(frame) ==
    LET event == Decode(frame.cluster, frame.command, frame.payload)
        link == <<frame.source, frame.endpoint>>
    IN  IF /\ frame.endpoint \in Cr11Endpoints /\ frame.request
           /\ event.kind \notin {"unknown", "malformed"}
        THEN /\ TrackMotion(event, link)
             /\ EmitGatewayPacket(event, PriorDirection(event, link), frame)
             /\ guess' = ButtonGuess(event, frame.endpoint)
        ELSE /\ wire' = NoPacket /\ guess' = {} /\ log' = Invalid /\ flash' = "none"
             /\ UNCHANGED <<slots, nextSlot, sequence>>

Frame(link, cluster, command, payload) ==
    [source |-> link[1], endpoint |-> link[2], request |-> TRUE,
     cluster |-> cluster, command |-> command, payload |-> payload]

\* The four-target plan, for the endpoints of the gateway (routerPlan with
\* GATEWAY_TARGET_ENDPOINTS).
RouterPlan ==
    LET endpoint == [key \in {3, 7, 11, 15} |-> 9 + (key + 1) \div 4]
        record(key, action, cluster, command, data) ==
            [key_no |-> key, key_action |-> action, target_endpoint |-> endpoint[key],
             cluster_id |-> cluster, command_id |-> command, data |-> data]
    IN  UNION {{record(key, 0, ON_OFF, 2, <<>>),
                record(key, 2, LEVEL_CONTROL, 0, <<HOLD_MARKER, 0, 0>>),
                record(key, 3, LEVEL_CONTROL, 4, <<RELEASE_MARKER, 0, 0>>)}
               : key \in {3, 7, 11, 15}}

\* upperButtons and keyActionNames of the converter.
UpperButton(key) == CASE key = 3 -> 1 [] key = 11 -> 2 [] key = 7 -> 3 [] key = 15 -> 4
KeyAction(action) == CASE action = 0 -> "click" [] action = 2 -> "hold" [] action = 3 -> "release"

\* The upper button whose records lead to an endpoint, and the lower buttons below it.
Above(endpoint) ==
    LET record == CHOOSE r \in RouterPlan : r.target_endpoint = endpoint
    IN  UpperButton(record.key_no)
Rocker(endpoint) ==
    IF endpoint = WINDOW_ENDPOINT \/ Above(endpoint) \in {2, 4} THEN <<7, 8>> ELSE <<5, 6>>

\* What Zigbee2MQTT is to publish for a button of the rocker.
Lower(link, button, action) ==
    IF link[2] = WINDOW_ENDPOINT THEN <<button, action>>
    ELSE <<button, action, Above(link[2])>>

-----------------------------------------------------------------------------

Init ==
    /\ slots = [i \in Slots |-> Unused] /\ nextSlot = 0 /\ sequence = 0
    /\ wire = NoPacket /\ gesture = NoGesture /\ guess = {}
    /\ log = Invalid /\ flash = "none"
    /\ held = [link \in Links |-> 0] /\ holders = {} /\ frames = 0

Count == frames < MaxFrames /\ frames' = frames + 1

\* A gesture that the action table has a record for.
Upper(link) ==
    /\ Count
    /\ \E r \in RouterPlan :
         /\ r.target_endpoint = link[2]
         /\ RawZclHandler(Frame(link, r.cluster_id, r.command_id, r.data))
         /\ gesture' = <<UpperButton(r.key_no), KeyAction(r.key_action)>>
    /\ UNCHANGED <<held, holders>>

\* A click of a lower button: a step.
Step(link) ==
    /\ Count /\ link[2] # WINDOW_ENDPOINT
    /\ \E mode \in {0, 1} :
         /\ RawZclHandler(Frame(link, LEVEL_CONTROL, 2, <<mode, 1, 0, 0>>))
         /\ gesture' = Lower(link, Rocker(link[2])[mode + 1], "click")
    /\ UNCHANGED <<held, holders>>

\* A lower button is held: a move, or the opening or closing of a cover.
Hold(link) ==
    /\ Count
    /\ \E mode \in {0, 1} :
         LET button == Rocker(link[2])[mode + 1]
         IN  /\ RawZclHandler(IF link[2] = WINDOW_ENDPOINT
                              THEN Frame(link, WINDOW_COVERING, mode, <<>>)
                              ELSE Frame(link, LEVEL_CONTROL, 1, <<mode, 1>>))
             /\ gesture' = Lower(link, button, "hold")
             /\ held' = [held EXCEPT ![link] = button]
    /\ holders' = holders \cup {link}

\* The rocker is let go.  A stop of which the gateway has not seen the hold means
\* nothing to it.
Stop(link) ==
    /\ Count
    /\ RawZclHandler(IF link[2] = WINDOW_ENDPOINT THEN Frame(link, WINDOW_COVERING, 2, <<>>)
                     ELSE Frame(link, LEVEL_CONTROL, 3, <<>>))
    /\ gesture' = IF held[link] = 0 THEN NoGesture ELSE Lower(link, held[link], "release")
    /\ held' = [held EXCEPT ![link] = 0]
    /\ UNCHANGED holders

\* The upper buttons of the right side, in a plan for the window endpoint.
Lift(link) ==
    /\ Count /\ link[2] = WINDOW_ENDPOINT
    /\ \E value \in {0, 50, 100} :
         /\ RawZclHandler(Frame(link, WINDOW_COVERING, 5, <<value>>))
         /\ gesture' = CASE value = 0 -> <<2, "click">> [] value = 100 -> <<4, "click">>
                         [] OTHER -> NoGesture
    /\ UNCHANGED <<held, holders>>

\* Anything else that the radio may bring: frames that are no requests or go to
\* another endpoint, commands with other payloads, and other levels.
Noise(link) ==
    /\ Count
    /\ \E frame \in {Frame(link, ON_OFF, 2, <<0>>), Frame(link, LEVEL_CONTROL, 1, <<2, 1>>),
                     Frame(link, LEVEL_CONTROL, 0, <<RELEASE_MARKER, 0, 0>>),
                     Frame(link, LEVEL_CONTROL, 4, <<HOLD_MARKER, 0, 0>>),
                     Frame(link, LEVEL_CONTROL, 0, <<HOLD_MARKER, 1, 0>>),
                     Frame(link, WINDOW_COVERING, 5, <<101>>),
                     Frame(link, WINDOW_COVERING, 4, <<0, 0>>),
                     Frame(<<link[1], 21>>, ON_OFF, 2, <<>>),
                     [Frame(link, ON_OFF, 2, <<>>) EXCEPT !.request = FALSE],
                     [Frame(link, LEVEL_CONTROL, 3, <<>>) EXCEPT !.request = FALSE]} :
         RawZclHandler(frame)
    /\ gesture' = NoGesture
    /\ UNCHANGED <<held, holders>>

Next ==
    \E link \in Links :
        Upper(link) \/ Step(link) \/ Hold(link) \/ Stop(link) \/ Lift(link) \/ Noise(link)

Spec == Init /\ [][Next]_vars

-----------------------------------------------------------------------------

\* What is published is what the user did: whatever the gateway sends, the
\* converter, the monitor and the firmware's own decoder read the same valid event
\* from it, which the gateway's log tells too; its action has the button and the
\* selector of the gesture, and the light reports it in the colour of its row.
\* In particular the release of a rocker names the button that was held, and
\* nothing is sent for a frame that is no gesture (raw_zcl_handler to
\* formatRoutedAction).
ActionIsGesture ==
    wire # NoPacket =>
        LET event == DecodeGatewayPacket(wire)
        IN  /\ gesture # NoGesture
            /\ event = MonitorDecode(wire) /\ event = PacketDecode(wire) /\ event = log
            /\ event.valid /\ ValidateGatewayEvent(event)
            /\ FormatRoutedAction(event, "selected") = gesture
            /\ FormatRoutedAction(event, "plain") = SubSeq(gesture, 1, 2)
            /\ event.button \in guess /\ event.seq = sequence
            /\ flash = IF gesture[1] <= 4 THEN "BLUE" ELSE "PINK"

\* No gesture is lost as long as the links that have ever held a button fit into
\* the slots, which are never given back; and beyond that only releases are lost
\* (find_motion_slot).
NothingLost ==
    wire = NoPacket /\ gesture # NoGesture =>
        Cardinality(holders) > SLOTS /\ gesture[2] = "release"

\* The slots agree with the rockers: a link has at most one, and it tells the
\* direction of the link's present hold, and none when nothing is held.
SlotsTellHolds ==
    /\ \A i, j \in Slots : slots[i].link = slots[j].link /\ slots[i] # Unused => i = j
    /\ \A i \in Slots : slots[i] # Unused =>
         LET link == slots[i].link
             rocker == Rocker(link[2])
         IN  CASE slots[i].direction = "up" -> held[link] = rocker[1]
               [] slots[i].direction = "down" -> held[link] = rocker[2]
               [] slots[i].direction = "none" -> held[link] = 0
=============================================================================
