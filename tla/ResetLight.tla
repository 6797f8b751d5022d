------------------------------ MODULE ResetLight ------------------------------
(***************************************************************************)
(* A local reset as somebody in front of the gateway sees it: the UI task of *)
(* cr11_ui_runtime.c samples the clock, drains its queue, lets the time take *)
(* effect, arms the forced wipe when it is asked to, and only then sets the  *)
(* light, on a clock that goes on all the while.  The UI machine keeps its   *)
(* spans on the stamps it is given and may pass through several phases in    *)
(* one call; what the light has shown, and for how long, is another matter.  *)
(*                                                                         *)
(* BootButton has the pin and the console in detail; here the button is down *)
(* or up in any cycle.  A light whose driver fails is not modelled.  An      *)
(* operator named X_Y is a mutant of X; no specification uses it.            *)
(***************************************************************************)
EXTENDS UiLight, Sequences

CONSTANTS
    QUEUE_LENGTH,   \* slots of the UI task's queue
    PERIOD,         \* a cycle begins at most this long after the last one ...
    MaxDelay,         \* ... and takes at most this long, the write to the flash included
    MaxClock,        \* bound on the clock
    MaxMoves        \* bound on the messages and the moves of the button

ASSUME CycleAssumption ==
    /\ {QUEUE_LENGTH, PERIOD, MaxDelay} \subseteq Nat \ {0}
    /\ {MaxClock, MaxMoves} \subseteq Nat

\* The most that lies between two samples of the clock, and between a sample and
\* the light of the next cycle.
Interval == Later(PERIOD, MaxDelay)
Slack == Interval + MaxDelay

\* What the code's values have in common: a cycle of 10 ms is short against the
\* second for which each light of a reset lasts.
ASSUME ShortCycleAssumption == Slack < LEAVE_MIN_RED /\ Slack < RESULT

VARIABLES
    clock,          \* uptime_ms
    queue,          \* runtime.queue
    stage, now,     \* where the UI task is in its cycle, and its sample of the clock
    state,          \* runtime.state
    light,          \* runtime.emitted_led.effect
    moves,          \* messages and moves of the button so far
    litSince        \* history: when the light took its present effect

resetVars == <<clock, queue, stage, now, state, light, moves, litSince>>

\* The gateway has just found its network.
ResetInit ==
    /\ clock = 0 /\ queue = <<>>
    /\ stage = "delay" /\ now = 0
    /\ state = StackStarted(InitState(0), FALSE, FALSE, 0)
    /\ light = "OFF" /\ litSince = 0
    /\ moves = 0

Tick ==
    /\ clock < MaxClock
    /\ clock < now + (IF stage = "delay" THEN PERIOD ELSE MaxDelay)
    /\ clock' = clock + 1
    /\ UNCHANGED <<queue, stage, now, state, light, moves, litSince>>

Move == moves < MaxMoves /\ moves' = moves + 1

\* post_message by another task: what the stack reports of the reset or of a start,
\* and an event of a CR11, which like every other message lets time pass.
Messages ==
    {"LEAVE_SUCCEEDED", "NETWORK_LEFT", "STACK_STARTED", "STACK_RETRYING", "GATEWAY_EVENT"}

Post == \E kind \in Messages :
    /\ Move
    /\ Len(queue) < QUEUE_LENGTH
    /\ queue' = Append(queue, [kind |-> kind, at |-> clock])
    /\ UNCHANGED <<clock, stage, now, state, light, litSince>>

BeginCycle ==
    /\ stage = "delay" /\ stage' = "queue"
    /\ now' = clock
    /\ UNCHANGED <<clock, queue, state, light, moves, litSince>>

Handled(m) ==
    CASE m.kind = "LEAVE_SUCCEEDED" -> LeaveSucceeded(state, m.at)
      [] m.kind = "NETWORK_LEFT"    -> NetworkLeft(state, TRUE, m.at)
      [] m.kind = "STACK_STARTED"   -> StackStarted(state, FALSE, FALSE, m.at)
      [] m.kind = "STACK_RETRYING"  -> StackRetrying(state, FALSE, m.at)
      [] m.kind = "GATEWAY_EVENT"   -> GatewayEvent(state, FALSE, m.at)

HandleMessage ==
    /\ stage = "queue" /\ queue # <<>>
    /\ state' = Handled(Head(queue))
    /\ queue' = Tail(queue)
    /\ UNCHANGED <<clock, stage, now, light, moves, litSince>>

\* The requests for the stack only post a function there; the write of the wipe's
\* marker is answered at once, with the sample of the clock.
DispatchActions(s) ==
    IF "ARM_FORCED_WIPE" \in s.pending THEN ForcedWipeArmed(TakeActions(s), TRUE, now)
    ELSE TakeActions(s)

\* update_effective_button, cr11_ui_state_advance and dispatch_actions.  (A write
\* that fails leads to ERROR, which is red and has no result to show.)
Act == \E down \in BOOLEAN :
    /\ stage = "queue" /\ queue = <<>> /\ stage' = "light"
    /\ IF down = state.boot_down THEN UNCHANGED moves ELSE Move
    /\ state' = LET s == IF down = state.boot_down THEN state ELSE BootInput(state, down, now)
                IN  DispatchActions(Advance(s, now))
    /\ UNCHANGED <<clock, queue, now, light, litSince>>

ApplyLed ==
    /\ stage = "light" /\ stage' = "delay"
    /\ light' = LightAt(state, now).effect
    /\ litSince' = IF light' = light THEN litSince ELSE clock
    /\ UNCHANGED <<clock, queue, now, state, moves>>

ResetNext == Tick \/ Post \/ BeginCycle \/ HandleMessage \/ Act \/ ApplyLed

ResetSpec == ResetInit /\ [][ResetNext]_resetVars

-----------------------------------------------------------------------------

ResultLights == {"GRACEFUL_RESULT", "FORCED_RESULT"}

\* The light has just gone from one that was on for the given time.
Relieves(effects, span) == light \in effects /\ clock - litSince >= span

\* No part of a reset is skipped or cut short where somebody sees it, but for the
\* cycles at either end.  When green or purple comes, red was lit until then for
\* LEAVE_MIN_RED (docs/FIRMWARE.md:83); when the terminal pattern comes, green or
\* purple was lit until then for RESULT: however late a report of the stack came,
\* and although one call of the machine may pass from LEAVING to TERMINAL
\* (cr11_ui_state.c:351-376).
ResetIsSeen ==
    [][/\ light' \in ResultLights /\ light \notin ResultLights =>
            Relieves({"LEAVE"}, LEAVE_MIN_RED - Slack)
       /\ light' = "TERMINAL" /\ light # "TERMINAL" =>
            Relieves(ResultLights, RESULT - Slack)]_resetVars
=============================================================================
