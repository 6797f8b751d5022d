------------------------------ MODULE BootButton ------------------------------
(***************************************************************************)
(* BOOT on real time: the UI task of cr11_ui_runtime.c, which samples the    *)
(* clock and the pin, debounces the pin, drains its queue, joins the pin and *)
(* the UART's virtual button into one, runs the UI state machine on it, and   *)
(* sets the light.                                                         *)
(* A cycle may take time, since the task waits while it prints to the        *)
(* console; messages posted in the meantime carry later times than `now'.    *)
(*                                                                         *)
(* An operator named X_Y is a mutant of X; no specification uses it.         *)
(***************************************************************************)
EXTENDS UiLight, Sequences

CONSTANTS
    DEBOUNCE,       \* how long the pin keeps a level before it counts
    HOLD_LIMIT,     \* a virtual press is released after this long
    QUEUE_LENGTH,   \* slots of the UI task's queue
    PERIOD,         \* a cycle begins at most this long after the last one ...
    MaxLag,         \* ... and takes at most this long
    MaxTime,        \* bound on the clock
    MaxMoves        \* bound on the moves of the finger and the messages

ASSUME ButtonAssumption ==
    /\ {DEBOUNCE, QUEUE_LENGTH, PERIOD, HOLD_LIMIT} \subseteq Nat \ {0}
    /\ {MaxLag, MaxTime, MaxMoves} \subseteq Nat

VARIABLES
    clock,          \* uptime_ms
    pushed,         \* BOOT is pushed: the pin is low
    ordered,        \* the console's last command was `boot press'
    queue,          \* runtime.queue
    running, now,   \* the UI task is in a cycle, and its sample of the clock
    candidate, candidateSince, physical,    \* the debounced pin
    virtual, virtualSince,                  \* the virtual button
    effective,      \* runtime.effective_down
    state,          \* runtime.state
    light,          \* runtime.emitted_led.effect
    moves,          \* moves of the finger and messages so far
    lastDown,       \* history: when BOOT was last pushed or ordered down
    since           \* history: when the effective button last went down

outside == <<pushed, ordered>>
task == <<running, now>>
pin == <<candidate, candidateSince, physical>>
console == <<virtual, virtualSince>>
vars == <<clock, outside, queue, task, pin, console, effective, state, light, moves, lastDown, since>>

\* The stack has just started, factory-new or on its network.
Init ==
    /\ clock = 0 /\ pushed = FALSE /\ ordered = FALSE /\ queue = <<>>
    /\ running = FALSE /\ now = 0
    /\ candidate = FALSE /\ candidateSince = 0 /\ physical = FALSE
    /\ virtual = FALSE /\ virtualSince = 0 /\ effective = FALSE
    /\ \E factoryNew \in BOOLEAN :
         state = StackStarted(InitState(0), factoryNew, FALSE, 0)
    /\ light = "OFF"
    /\ moves = 0 /\ lastDown = 0 /\ since = 0

\* `now - since >= span' in unsigned arithmetic: a time that lies after now is
\* taken for one long ago.
Elapsed(since_, span) == since_ > now \/ now - since_ >= span

-----------------------------------------------------------------------------

Tick ==
    /\ clock < MaxTime
    /\ clock < now + (IF running THEN MaxLag ELSE PERIOD)
    /\ clock' = clock + 1
    /\ lastDown' = IF pushed \/ ordered THEN clock' ELSE lastDown
    /\ UNCHANGED <<light, moves, outside, queue, task, pin, console, effective, state, since>>

Move == moves < MaxMoves /\ moves' = moves + 1

Finger ==
    /\ Move
    /\ pushed' = ~pushed
    /\ lastDown' = clock
    /\ UNCHANGED <<light, clock, ordered, queue, task, pin, console, effective, state, since>>

Send(kind) ==
    /\ Move
    /\ Len(queue) < QUEUE_LENGTH
    /\ queue' = Append(queue, [kind |-> kind, at |-> clock])

\* parse_uart_line: `boot press' and `boot release'.
Order == \E press \in BOOLEAN :
    /\ Send(IF press THEN "PRESS" ELSE "RELEASE")
    /\ ordered' = press
    /\ lastDown' = clock
    /\ UNCHANGED <<light, clock, pushed, task, pin, console, effective, state, since>>

\* The Zigbee task reports a press of the CR11: to a hold of BOOT it means that
\* time passes, to the light a pulse.
Report ==
    /\ Send("GATEWAY_EVENT")
    /\ UNCHANGED <<light, clock, outside, task, pin, console, effective, state, lastDown, since>>

\* update_physical_button
BeginCycle ==
    /\ ~running /\ running' = TRUE
    /\ now' = clock
    /\ candidate' = pushed
    /\ IF pushed # candidate
       THEN candidateSince' = clock /\ UNCHANGED physical
       ELSE /\ physical' = IF clock - candidateSince >= DEBOUNCE THEN pushed ELSE physical
            /\ UNCHANGED candidateSince
    /\ UNCHANGED <<light, moves, clock, outside, queue, console, effective, state, lastDown, since>>

VirtualBoot_Sticks(m) ==
    /\ virtual' = (virtual \/ m.kind = "PRESS")
    /\ virtualSince' = IF m.kind = "PRESS" THEN m.at ELSE virtualSince
    /\ UNCHANGED state

VirtualBoot(m) ==
    /\ virtual' = (m.kind = "PRESS")
    /\ virtualSince' = IF m.kind = "PRESS" THEN m.at ELSE virtualSince
    /\ UNCHANGED state

HandleMessage ==
    /\ running /\ queue # <<>>
    /\ queue' = Tail(queue)
    /\ IF Head(queue).kind = "GATEWAY_EVENT"
       THEN state' = GatewayEvent(state, FALSE, Head(queue).at) /\ UNCHANGED console
       ELSE VirtualBoot(Head(queue))
    /\ UNCHANGED <<light, moves, clock, outside, task, pin, effective, lastDown, since>>

AutoRelease_Never == UNCHANGED console

\* A virtual press does not outlive its sender for long.
AutoRelease ==
    /\ virtual' = (virtual /\ ~Elapsed(virtualSince, HOLD_LIMIT))
    /\ UNCHANGED virtualSince

\* update_effective_button, cr11_ui_state_advance, dispatch_actions and apply_led
EndCycle ==
    /\ running /\ queue = <<>> /\ running' = FALSE
    /\ AutoRelease
    /\ effective' = (physical \/ virtual')
    /\ state' = LET s == IF effective' = effective THEN state
                         ELSE BootInput(state, effective', now)
                IN  TakeActions(Advance(s, now))
    /\ light' = LightAt(state', now).effect
    /\ since' = IF effective' /\ ~effective THEN now ELSE since
    /\ UNCHANGED <<moves, clock, outside, queue, now, pin, lastDown>>

Next == Tick \/ Finger \/ Order \/ Report \/ BeginCycle \/ HandleMessage \/ EndCycle

Spec == Init /\ [][Next]_vars

-----------------------------------------------------------------------------

\* The step in which a hold of BOOT takes effect.
Accepted ==
    \/ state.phase = "UNPROVISIONED" /\ state'.phase = "JOINING"
    \/ AcceptsReset(state.phase) /\ state'.phase = "LEAVING"

\* The most that lies between two samples of the clock.
Interval == Later(PERIOD, MaxLag)

\* The firmware never acts on a button that nobody holds any more: a release, by
\* finger or by command, stops the count, but for the debounce and the cycles
\* that are under way.
ReleaseStopsHold ==
    [][Accepted => clock - lastDown < DEBOUNCE + 2 * Interval + MaxLag]_vars

\* What the light shows while a hold counts towards the given phase.
HoldEffect(phase) == IF phase = "JOINING" THEN "JOIN_HOLD" ELSE "RESET_HOLD"

\* On the real clock too, the button that the firmware goes by has been down for
\* the whole of the hold, whatever messages with later times came in between, and
\* the light tells of the hold when it takes effect, whatever else it has to tell.
HeldAndAnnounced ==
    [][Accepted => /\ effective
                   /\ clock - since >= IF state'.phase = "JOINING" THEN JOIN_HOLD
                                                                   ELSE RESET_HOLD
                   /\ light = HoldEffect(state'.phase)]_vars

\* A virtual press whose sender is gone ends at the limit, and not before it
\* (update_effective_button).  One that is stamped later than the task's sample of
\* the clock is taken for one of long ago and ends at once.
VirtualHoldLimited ==
    [][virtual =>
         IF virtual' THEN clock' - virtualSince' < HOLD_LIMIT + Interval + MaxLag
         ELSE EndCycle => clock - virtualSince >= HOLD_LIMIT \/ virtualSince > now]_vars
=============================================================================
