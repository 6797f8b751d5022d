------------------------------ MODULE Packets ------------------------------
(***************************************************************************)
(* The 32 bytes that carry an event (cr11_gateway_packet.c), and how the two *)
(* readers take them: the converter of Zigbee2MQTT with its router           *)
(* extension, and the USB monitor; the firmware's decoder and its debug log. *)
(***************************************************************************)
EXTENDS Events, SequencesExt

PACKET_SIZE == 32
NoPacket == <<>>

HAS_VALUE == 1
WITH_ON_OFF == 2
DIRECTION_INFERRED == 4
FORWARDABLE == 8

Flag(condition, bit) == IF condition THEN bit ELSE 0
Set(flags, bit) == (flags \div bit) % 2 = 1

\* frame is what cr11_bridge.c passes on of a received command: its source, with
\* the mode and the eight bytes of its address, its endpoint, cluster and command.
Build(event, prior, frame, sequence) ==
    LET mapping == MapEvent(event, prior, frame.endpoint)
        forwardable == mapping.action # "unknown" /\ mapping.button \in 1..8
    IN  [version  |-> 1, action |-> mapping.action, event_kind |-> event.kind,
         direction |-> mapping.direction,
         flags    |-> Flag(event.has_value, HAS_VALUE) + Flag(event.with_on_off, WITH_ON_OFF)
                       + Flag(mapping.inferred, DIRECTION_INFERRED)
                       + Flag(forwardable, FORWARDABLE),
         selector |-> mapping.selector, button |-> mapping.button,
         source   |-> frame.source, target_endpoint |-> frame.endpoint,
         cluster_id |-> frame.cluster, command_id |-> frame.command,
         value    |-> event.value, sequence |-> sequence]

IsForwardable(packet) ==
    /\ Set(packet.flags, FORWARDABLE)
    /\ packet.action # "unknown" /\ packet.button \in 1..8

\* Little-endian bytes.
LE(value, size) == [i \in 1..size |-> (value \div (256 ^ (i - 1))) % 256]
FromLE(bytes) == FoldRight(LAMBDA byte, rest : byte + 256 * rest, bytes, 0)

Encode(packet) ==
    <<packet.version, PACKET_SIZE, Code(ActionNames, packet.action),
      Code(EventNames, packet.event_kind), Code(DirectionNames, packet.direction),
      packet.flags, packet.selector, packet.button,
      Code(SourceModes, packet.source.mode), 0, packet.target_endpoint, 0, 4, 1>>
    \o LE(packet.cluster_id, 2) \o <<packet.command_id, 0>> \o LE(packet.value, 2)
    \o packet.source.address \o LE(packet.sequence, 4)

\* What both readers take a valid packet for.
Fields(b) ==
    [valid |-> TRUE, v |-> b[1], seq |-> FromLE(SubSeq(b, 29, 32)),
     source |-> [mode |-> SourceModes[b[9] + 1], address |-> SubSeq(b, 21, 28)],
     target_endpoint |-> b[11], selector |-> b[7], button |-> b[8],
     action |-> ActionNames[b[3] + 1], event |-> EventNames[b[4] + 1],
     direction |-> DirectionNames[b[5] + 1],
     direction_inferred |-> Set(b[6], DIRECTION_INFERRED),
     cluster_id |-> FromLE(SubSeq(b, 15, 16)), command_id |-> b[17],
     has_value |-> Set(b[6], HAS_VALUE), value |-> FromLE(SubSeq(b, 19, 20)),
     with_on_off |-> Set(b[6], WITH_ON_OFF), forwardable |-> Set(b[6], FORWARDABLE)]

\* The checks that every reader makes.
InRange(b) ==
    /\ Len(b) = PACKET_SIZE /\ b[1] = 1 /\ b[2] = PACKET_SIZE
    /\ b[3] < Len(ActionNames) /\ b[4] \in 1..(Len(EventNames) - 1)
    /\ b[5] < Len(DirectionNames) /\ b[6] < 16
    /\ b[7] <= 4 /\ b[8] <= 8 /\ b[9] < Len(SourceModes)

\* Those of the two hosts.
WellFormed(b) == InRange(b) /\ (Set(b[6], FORWARDABLE) => b[3] # 0 /\ b[8] # 0)

ShortAddress(b) == \A i \in 23..28 : b[i] = 0

Invalid == [valid |-> FALSE]

DecodeGatewayPacket(b) ==
    IF WellFormed(b) /\ (b[9] = 1 => ShortAddress(b)) THEN Fields(b) ELSE Invalid

MonitorDecode(b) ==
    IF WellFormed(b) /\ (b[9] \in {1, 3} => ShortAddress(b)) THEN Fields(b) ELSE Invalid

\* The firmware's own reader, for its tests and for services to come.
PacketDecode(b) == IF InRange(b) THEN Fields(b) ELSE Invalid

\* What the debug log prints of a packet before it is encoded.
FormatJson(packet) ==
    [valid |-> TRUE, v |-> packet.version, seq |-> packet.sequence, source |-> packet.source,
     target_endpoint |-> packet.target_endpoint, selector |-> packet.selector,
     button |-> packet.button, action |-> packet.action, event |-> packet.event_kind,
     direction |-> packet.direction,
     direction_inferred |-> Set(packet.flags, DIRECTION_INFERRED),
     cluster_id |-> packet.cluster_id, command_id |-> packet.command_id,
     has_value |-> Set(packet.flags, HAS_VALUE), value |-> packet.value,
     with_on_off |-> Set(packet.flags, WITH_ON_OFF), forwardable |-> IsForwardable(packet)]

\* The extension routes packets of a remote only.
ValidateGatewayEvent(event) ==
    /\ event.valid /\ event.v = 1
    /\ event.button \in 1..8 /\ event.selector \in 0..4
    /\ event.action \in {"click", "hold", "release"} /\ event.forwardable
    /\ event.source.mode \in {"short", "extended"}

\* The name of the action: the button and the action, and in the mode "selected"
\* the selector that a lower button belongs to.
FormatRoutedAction(event, mode) ==
    IF mode = "selected" /\ event.button >= 5 /\ event.selector \in 1..4
    THEN <<event.button, event.action, event.selector>>
    ELSE <<event.button, event.action>>

\* The sequence number after n, which skips zero when it wraps.
NextSequence(n, last) == IF n = last THEN 1 ELSE n + 1
=============================================================================
