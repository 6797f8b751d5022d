------------------------------ MODULE UsbStream ------------------------------
(***************************************************************************)
(* The native USB event stream: cr11_usb_transport.c, whose queue and task   *)
(* pass the events on, the framing of cr11_usb_frame.c, and the reader, the  *)
(* line discipline of cr11_usb_monitor.py.  The driver's buffer, the cable   *)
(* and the host are external.                                              *)
(*                                                                         *)
(* An event is the number of its submission.  Its frame is BODY pieces and a *)
(* newline, a piece standing for some characters that go together; the CRC   *)
(* is taken to tell a body from any other line of its length.                *)
(*                                                                         *)
(* An operator named X_Y is a mutant of X; no specification uses it.         *)
(***************************************************************************)
EXTENDS Naturals, SequencesExt

CONSTANTS
    BODY,               \* pieces of a frame before the newline
    QUEUE_LENGTH,       \* CR11_USB_QUEUE_LENGTH
    TX_BUFFER,          \* pieces that the driver's buffer holds
    MAX_LINE,           \* MAX_BUFFERED_LINE in pieces
    MaxEvents,          \* bound on the events submitted
    MaxMishaps          \* bound on reboots, damage, and closed or unplugged readers

\* A body fits the reader's buffer, and two of them do not.
ASSUME StreamAssumption ==
    /\ {BODY, QUEUE_LENGTH, TX_BUFFER, MAX_LINE} \subseteq Nat \ {0}
    /\ BODY + 1 <= TX_BUFFER
    /\ BODY <= MAX_LINE /\ MAX_LINE < 2 * BODY
    /\ {MaxEvents, MaxMishaps} \subseteq Nat

VARIABLES
    sent,           \* events submitted so far
    ready,          \* usb_queue # NULL: the transport has been initialised
    usbQueue,       \* usb_queue
    item,           \* the event that usb_task is about to write, or 0
    buffered,       \* what the driver's buffer holds and the host has not read
    connected,      \* usb_serial_jtag_is_connected: the cable leads to a host
    reading,        \* the monitor has the port open
    buffer,         \* the monitor's line so far
    discarding,     \* the monitor skips what is left of a line
    printed,        \* the events that the monitor has printed
    blamed,         \* history: events whose loss is accounted for
    mishaps

device == <<ready, usbQueue, item>>
line == <<buffer, discarding>>
vars == <<sent, device, buffered, connected, reading, line, printed, blamed, mishaps>>

Piece(n, i) == [event |-> n, index |-> i]
Body(n) == [i \in 1..BODY |-> Piece(n, i)]
\* cr11_usb_frame_format
Frame(n) == Append(Body(n), Piece(n, BODY + 1))
EndsLine(piece) == piece.index = BODY + 1
\* A piece that a fault has changed; it is neither of a frame nor a newline.
Damaged(piece) == [piece EXCEPT !.index = 0]

EventsOf(pieces) == {pieces[i].event : i \in DOMAIN pieces}

\* What is written now continues a line that the reader will not accept.
MidLine ==
    IF buffered # <<>> THEN ~EndsLine(Last(buffered)) ELSE buffer # <<>> \/ discarding

Init ==
    /\ sent = 0 /\ usbQueue = <<>> /\ item = 0 /\ buffered = <<>>
    /\ ready \in BOOLEAN /\ connected \in BOOLEAN /\ reading = FALSE
    /\ buffer = <<>> /\ discarding = FALSE /\ printed = <<>>
    /\ blamed = {} /\ mishaps = 0

-----------------------------------------------------------------------------

\* cr11_usb_transport_submit, called by the Zigbee task, never waits.
Submit ==
    /\ sent < MaxEvents /\ sent' = sent + 1
    /\ IF ready /\ Len(usbQueue) < QUEUE_LENGTH
       THEN usbQueue' = Append(usbQueue, sent') /\ UNCHANGED blamed
       ELSE blamed' = blamed \union {sent'} /\ UNCHANGED usbQueue
    /\ UNCHANGED <<ready, item, buffered, connected, reading, line, printed, mishaps>>

\* usb_task: an event is dropped while there is no host.
Receive ==
    /\ item = 0 /\ usbQueue # <<>>
    /\ usbQueue' = Tail(usbQueue)
    /\ IF connected THEN item' = Head(usbQueue) /\ UNCHANGED blamed
       ELSE blamed' = blamed \union {Head(usbQueue)} /\ UNCHANGED item
    /\ UNCHANGED <<sent, ready, buffered, connected, reading, line, printed, mishaps>>

Room == TX_BUFFER - Len(buffered)

Write_WaitsForRoom ==
    /\ item # 0 /\ item' = 0
    /\ Room > BODY
    /\ buffered' = buffered \o Frame(item)
    /\ UNCHANGED <<sent, ready, usbQueue, connected, reading, line, printed, blamed, mishaps>>

\* usb_serial_jtag_write_bytes with a time-out of zero.  It takes what there is
\* room for, or less of it, and nobody writes the rest.  That spoils the frame, and
\* the next one too if it has to continue the line.
Write ==
    /\ item # 0 /\ item' = 0
    /\ \E taken \in IF Room > BODY THEN {BODY + 1} ELSE 0..Room :
         /\ buffered' = buffered \o SubSeq(Frame(item), 1, taken)
         /\ blamed' = IF taken <= BODY \/ MidLine THEN blamed \union {item} ELSE blamed
    /\ UNCHANGED <<sent, ready, usbQueue, connected, reading, line, printed, mishaps>>

EndLine_KeepsDiscarding == buffer' = <<>> /\ UNCHANGED discarding

\* The newline ends the line, whatever came of it.
EndLine == buffer' = <<>> /\ discarding' = FALSE

IsFrame_ByLength(pieces) == Len(pieces) = BODY

\* decode_frame_line: length, CRC
IsFrame(pieces) == \E n \in EventsOf(pieces) : pieces = Body(n)

Collect(piece) ==
    CASE discarding -> UNCHANGED line
      [] ~discarding /\ Len(buffer) >= MAX_LINE -> buffer' = <<>> /\ discarding' = TRUE
      [] OTHER -> buffer' = Append(buffer, piece) /\ UNCHANGED discarding

\* The body of the loop in monitor.
Read ==
    /\ reading /\ buffered # <<>>
    /\ buffered' = Tail(buffered)
    /\ IF EndsLine(Head(buffered))
       THEN /\ EndLine
            /\ printed' = IF ~discarding /\ IsFrame(buffer)
                          THEN Append(printed, Head(buffer).event) ELSE printed
       ELSE Collect(Head(buffered)) /\ UNCHANGED printed
    /\ UNCHANGED <<sent, device, connected, reading, blamed, mishaps>>

-----------------------------------------------------------------------------
(* The cable, the host and the power. *)

Open ==
    /\ connected /\ ~reading /\ reading' = TRUE
    /\ UNCHANGED <<sent, device, buffered, connected, line, printed, blamed, mishaps>>

Mishap == mishaps < MaxMishaps /\ mishaps' = mishaps + 1

\* The monitor ends, by itself when the cable is pulled.  The host may have read
\* ahead of it; what it leaves may begin within a frame.
Leave ==
    /\ buffer' = <<>> /\ discarding' = FALSE /\ reading' = FALSE
    /\ \E ahead \in 0..Len(buffered) :
         /\ buffered' = SubSeq(buffered, ahead + 1, Len(buffered))
         /\ blamed' = blamed \union EventsOf(buffer) \union EventsOf(SubSeq(buffered, 1, ahead))

Close ==
    /\ Mishap
    /\ reading /\ Leave
    /\ UNCHANGED <<sent, device, connected, printed>>

Unplug ==
    /\ Mishap
    /\ connected /\ connected' = FALSE
    /\ IF reading THEN Leave ELSE UNCHANGED <<buffered, reading, line, blamed>>
    /\ UNCHANGED <<sent, device, printed>>

Plug ==
    /\ ~connected /\ connected' = TRUE
    /\ UNCHANGED <<sent, device, buffered, reading, line, printed, blamed, mishaps>>

\* A damaged newline makes one line of two frames.
Damage ==
    /\ Mishap
    /\ \E i \in DOMAIN buffered :
         /\ buffered' = [buffered EXCEPT ![i] = Damaged(@)]
         /\ blamed' = blamed \union {buffered[i].event}
              \union IF ~EndsLine(buffered[i]) THEN {}
                     ELSE IF i = Len(buffered) THEN {} ELSE {buffered[i + 1].event}
    /\ UNCHANGED <<sent, device, connected, reading, line, printed>>

\* The gateway reboots and cr11_usb_transport_init succeeds or fails.
Reboot ==
    /\ Mishap
    /\ ready' \in BOOLEAN
    /\ usbQueue' = <<>> /\ item' = 0 /\ buffered' = <<>>
    /\ blamed' = blamed \union ToSet(usbQueue) \union ({item} \ {0}) \union EventsOf(buffered)
    /\ UNCHANGED <<sent, connected, reading, line, printed>>

Next ==
    \/ Submit \/ Receive \/ Write \/ Read
    \/ Open \/ Close \/ Unplug \/ Plug \/ Damage \/ Reboot

\* The UI and the Zigbee tasks leave time to usb_task.  Nothing is asked of the host.
Spec == Init /\ [][Next]_vars /\ WF_vars(Receive) /\ WF_vars(Write)

-----------------------------------------------------------------------------

\* An event is under way while it is queued or its body is complete on the way.
OnTheWay(n) ==
    \/ n \in ToSet(usbQueue) \/ n = item
    \/ ToSet(Body(n)) \subseteq ToSet(buffer) \union ToSet(buffered)

Promise == INSTANCE LossyStream WITH
    transit <- {n \in 1..sent : OnTheWay(n)},
    delivered <- IF printed = <<>> THEN 0 ELSE Last(printed)

\* What the monitor prints are events that the gateway has submitted, in their order
\* and each of them once, whatever is cut, damaged or restarted in between
\* (docs/NATIVE_USB.md: invalid frames are never passed through as events).
KeepsPromise == Promise!Spec

Quiet == usbQueue = <<>> /\ item = 0 /\ buffered = <<>>

\* An event is lost only for a reason of its own: the queue or the buffer is full,
\* there is no host or no reader, or its frame is damaged or cut; and a cut or a
\* damaged newline costs the next frame, never one after that.
OnlyBlamedAreLost == Quiet => 1..sent \subseteq ToSet(printed) \union blamed

\* Whatever the host does, no event stays in the gateway: the USB copy is dropped and
\* neither the queue nor the gateway waits for a reader (usb_task).
NeverBlocks ==
    \A n \in 1..MaxEvents :
        n \in ToSet(usbQueue) \union {item} ~> n \notin ToSet(usbQueue) \union {item}
=============================================================================
