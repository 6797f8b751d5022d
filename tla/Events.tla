------------------------------- MODULE Events -------------------------------
(***************************************************************************)
(* What a ZCL command of the remote means, and the packet that carries the   *)
(* meaning from the gateway to Zigbee2MQTT and to the USB host: cr11_event.c *)
(* and cr11_gateway_packet.c of the firmware, the decoders of                *)
(* cr11_gateway_external.mjs and cr11_usb_monitor.py, and the names that     *)
(* cr11_gateway_router_extension.mjs publishes.                              *)
(*                                                                         *)
(* A payload and a packet are sequences of bytes; an address is the eight    *)
(* bytes of its uint64_t.  Fields that no reader interprets (the profile,    *)
(* the transaction number, the source endpoint and the signal strength) are  *)
(* zero.  An operator named X_Y is a mutant of X.                            *)
(***************************************************************************)
EXTENDS Integers, Sequences, FiniteSets

ON_OFF == 6
LEVEL_CONTROL == 8
WINDOW_COVERING == 258

HOLD_MARKER == 165
RELEASE_MARKER == 90

\* The wire codes of an enumeration are its positions here, from 0.
ActionNames == <<"unknown", "click", "hold", "release">>
DirectionNames == <<"none", "up", "down">>
SourceModes == <<"unknown", "short", "extended", "group">>
EventNames == <<"unknown", "malformed", "on_off.off", "on_off.on", "on_off.toggle",
                "level.move_to", "level.move", "level.step", "level.stop",
                "window.open", "window.close", "window.stop",
                "window.goto_lift_value", "window.goto_lift_percentage">>

Code(names, name) == (CHOOSE i \in DOMAIN names : names[i] = name) - 1

-----------------------------------------------------------------------------
(* Decoding the command of a remote. *)

Event(kind) ==
    [kind |-> kind, direction |-> "none", value |-> 0, transition_time |-> 0,
     has_value |-> FALSE, with_on_off |-> FALSE]
Unknown == Event("unknown")
Malformed == Event("malformed")
Valued(kind, value) == [Event(kind) EXCEPT !.value = value, !.has_value = TRUE]

U16(low, high) == low + 256 * high

\* A command without arguments.
Bare(kind, payload) == IF payload = <<>> THEN Event(kind) ELSE Malformed

DecodeOnOff(command, payload) ==
    IF command > 2 THEN Unknown
    ELSE Bare(<<"on_off.off", "on_off.on", "on_off.toggle">>[command + 1], payload)

\* A move or a step: its direction, 0 or 1, and its rate or size.
Moved(kind, length, payload) ==
    IF Len(payload) = length /\ payload[1] \in {0, 1}
    THEN [Valued(kind, payload[2]) EXCEPT
            !.direction = IF payload[1] = 0 THEN "up" ELSE "down"]
    ELSE Malformed

MovedTo(payload) ==
    IF Len(payload) = 3
    THEN [Valued("level.move_to", payload[1]) EXCEPT
            !.transition_time = U16(payload[2], payload[3])]
    ELSE Malformed

\* The commands from 4 on are those from 0 on, `with on/off'.
DecodeLevel(command, payload) ==
    LET event == CASE command % 4 = 0 -> MovedTo(payload)
                   [] command % 4 = 1 -> Moved("level.move", 2, payload)
                   [] command % 4 = 2 -> Moved("level.step", 4, payload)
                   [] command % 4 = 3 -> Bare("level.stop", payload)
    IN  CASE command > 7 -> Unknown
          [] command <= 7 /\ event = Malformed -> Malformed
          [] OTHER -> [event EXCEPT !.with_on_off = command > 3]

DecodeWindow(command, payload) ==
    CASE command = 0 -> Bare("window.open", payload)
      [] command = 1 -> Bare("window.close", payload)
      [] command = 2 -> Bare("window.stop", payload)
      [] command = 4 ->
           IF Len(payload) = 2
           THEN Valued("window.goto_lift_value", U16(payload[1], payload[2]))
           ELSE Malformed
      [] command = 5 ->
           IF Len(payload) = 1 /\ payload[1] <= 100
           THEN Valued("window.goto_lift_percentage", payload[1])
           ELSE Malformed
      [] OTHER -> Unknown

Decode(cluster, command, payload) ==
    CASE cluster = ON_OFF -> DecodeOnOff(command, payload)
      [] cluster = LEVEL_CONTROL -> DecodeLevel(command, payload)
      [] cluster = WINDOW_COVERING -> DecodeWindow(command, payload)
      [] OTHER -> Unknown

IsMarker(event, with, level) ==
    /\ event.kind = "level.move_to" /\ event.has_value
    /\ event.with_on_off = with /\ event.value = level /\ event.transition_time = 0
IsHoldMarker(event) == IsMarker(event, FALSE, HOLD_MARKER)
IsReleaseMarker(event) == IsMarker(event, TRUE, RELEASE_MARKER)

-----------------------------------------------------------------------------
(* The button and the action that an event stands for. *)

WINDOW_ENDPOINT == 20
LeftEndpoints == {10, 11}
RightEndpoints == {12, 13}
Cr11Endpoints == LeftEndpoints \cup RightEndpoints \cup {WINDOW_ENDPOINT}

Selector_InOrder(endpoint) == IF endpoint \in 10..13 THEN endpoint - 9 ELSE 0

Selector(endpoint) ==
    CASE endpoint = 10 -> 1 [] endpoint = 12 -> 2
      [] endpoint = 11 -> 3 [] endpoint = 13 -> 4 [] OTHER -> 0

LowerButton(endpoint, direction) ==
    LET pair == IF endpoint \in LeftEndpoints THEN <<5, 6>>
                ELSE IF endpoint \in RightEndpoints \cup {WINDOW_ENDPOINT} THEN <<7, 8>>
                ELSE <<0, 0>>
    IN  CASE direction = "up" -> pair[1]
          [] direction = "down" -> pair[2]
          [] OTHER -> 0

\* The fields that map_event sets.
Mapping(button, action, direction, selector) ==
    [button |-> button, direction |-> direction, selector |-> selector,
     action |-> IF button = 0 THEN "unknown" ELSE action,
     inferred |-> FALSE]

Inferred(mapping) == [mapping EXCEPT !.inferred = mapping.button # 0]

MapEvent(event, prior, endpoint) ==
    LET selector == Selector(endpoint)
        upper(action) == Mapping(selector, action, event.direction, selector)
        lower(at, action, direction) ==
            Mapping(LowerButton(at, direction), action, direction, selector)
        nothing == Mapping(0, "unknown", event.direction, selector)
    IN  CASE event.kind \in {"on_off.off", "on_off.on", "on_off.toggle"} -> upper("click")
          [] IsHoldMarker(event) -> upper("hold")
          [] IsReleaseMarker(event) -> upper("release")
          [] event.kind = "level.step" -> lower(endpoint, "click", event.direction)
          [] event.kind = "level.move" -> lower(endpoint, "hold", event.direction)
          [] event.kind = "level.stop" -> Inferred(lower(endpoint, "release", prior))
          [] event.kind = "window.open" -> lower(WINDOW_ENDPOINT, "hold", "up")
          [] event.kind = "window.close" -> lower(WINDOW_ENDPOINT, "hold", "down")
          [] event.kind = "window.stop" -> Inferred(lower(WINDOW_ENDPOINT, "release", prior))
          [] event.kind = "window.goto_lift_percentage" /\ event.value = 0 ->
               Mapping(2, "click", event.direction, 2)
          [] event.kind = "window.goto_lift_percentage" /\ event.value = 100 ->
               Mapping(4, "click", event.direction, 4)
          [] OTHER -> nothing

\* The buttons that the log of the event names (cr11_event_button_guess): one
\* button, or the two of a rocker where the direction is not known.
ButtonGuess(event, endpoint) ==
    LET right == endpoint \in RightEndpoints \cup {WINDOW_ENDPOINT}
        upper(second) == {IF right THEN IF second THEN 4 ELSE 2 ELSE IF second THEN 3 ELSE 1}
        lower == IF right THEN {7, 8} ELSE {5, 6}
    IN  CASE event.kind = "on_off.off" -> upper(FALSE)
          [] event.kind = "on_off.on" -> upper(TRUE)
          [] event.kind = "on_off.toggle" \/ IsHoldMarker(event) \/ IsReleaseMarker(event) ->
               upper(endpoint \in {11, 13})
          [] event.kind \in {"level.move", "level.step"} ->
               {IF right THEN IF event.direction = "up" THEN 7 ELSE 8
                         ELSE IF event.direction = "up" THEN 5 ELSE 6}
          [] event.kind = "level.stop" -> lower
          [] event.kind = "window.open" -> {7}
          [] event.kind = "window.close" -> {8}
          [] event.kind = "window.stop" -> {7, 8}
          [] event.kind = "window.goto_lift_percentage" ->
               CASE event.value = 0 -> {2} [] event.value = 100 -> {4} [] OTHER -> {2, 4}
          [] OTHER -> {}
=============================================================================
