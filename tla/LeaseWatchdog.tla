---------------------------- MODULE LeaseWatchdog ----------------------------
(***************************************************************************)
(* The supervisor's lease on real time: the UI task of cr11_ui_runtime.c,    *)
(* which samples the clock, drains its queue, and arms or cancels a user of  *)
(* the task watchdog (sync_lease_watchdog); the tasks that post messages,    *)
(* each stamped when it is posted, which may be later than the sample; the   *)
(* light that announces the end of the lease, and what may cover it: events  *)
(* of the CR11s and BOOT; the task watchdog, which is external; and the      *)
(* reboot it causes.                                                         *)
(*                                                                         *)
(* BootButton has the pin and the console in detail; here the button is down *)
(* or up in any cycle.  An operator named X_Y is a mutant of X.              *)
(***************************************************************************)
EXTENDS UiLight, Sequences

CONSTANTS
    PERIOD,         \* the UI task starts a cycle this often and ends it before the next
    WDT_RETRY,      \* pause after a failed registration
    QUEUE_LENGTH,   \* slots of the UI task's queue
    MaxTime,        \* bound on the clock of one boot
    MaxMoves,       \* bound on the reports and the moves of the button in one boot
    MaxBites,       \* bound on the reboots by the watchdog
    MaxFailures     \* bound on the failed watchdog calls of one boot

ASSUME LeaseAssumption ==
    /\ {PERIOD, WDT_RETRY, QUEUE_LENGTH} \subseteq Nat \ {0}
    /\ {MaxTime, MaxMoves, MaxBites, MaxFailures} \subseteq Nat

\* What the code's values have in common: the UI task's period is short against
\* every other span, a pulse of the light included, the pulses of the warning divide
\* it evenly, and the grace for the last one is a small part of the watchdog's guard.
ASSUME SpanAssumption ==
    /\ PERIOD + LEASE_WDT_GUARD < LEASE_TIMEOUT + FINAL_PULSE_GRACE
    /\ LEASE_WARN + LEASE_WDT_GUARD <= LEASE_TIMEOUT + FINAL_PULSE_GRACE
    /\ 2 * PERIOD <= TENTH /\ TENTH <= WARNING_PERIOD /\ Span % WARNING_PERIOD = 0
    /\ 2 * PERIOD <= FINAL_PULSE_GRACE
    /\ FINAL_PULSE_GRACE + PERIOD <= LEASE_WDT_GUARD

VARIABLES
    clock,          \* uptime_ms
    state,          \* runtime.state
    queue,          \* runtime.queue
    now,            \* the UI task's sample of the clock
    running,        \* the UI task is in a cycle
    pending,        \* runtime.lease_watchdog # NULL: the user is registered
    deadline,       \* when the task watchdog bites if it stays registered
    retryAt,        \* runtime.lease_watchdog_arm_retry_ms
    failures,       \* watchdog calls that failed in this boot
    moves,          \* reports and moves of the button in this boot
    bites,          \* reboots so far; the later boots are watchdog resets
    spoke,          \* history: the time of the last command that was queued
    atLastPulse     \* history: the effect the light had when this lease's warning
                    \* came to its last pulse

task == <<now, running>>
wdt == <<pending, deadline, retryAt, failures>>
history == <<spoke, atLastPulse>>
vars == <<clock, state, queue, task, wdt, moves, bites, history>>

WatchdogBoot == bites > 0

Commands == {"READY", "LEASE_PING"}
Reports ==
    {"STACK_STARTED", "STACK_RETRYING", "NETWORK_LEFT", "LEAVE_SUCCEEDED", "GATEWAY_EVENT"}

\* No last pulse yet.
None == "OFF"

Init ==
    /\ clock = 0 /\ state = InitState(0) /\ queue = <<>>
    /\ now = 0 /\ running = FALSE
    /\ pending = FALSE /\ deadline = 0 /\ retryAt = 0 /\ failures = 0
    /\ moves = 0 /\ bites = 0
    /\ spoke = 0 /\ atLastPulse = None

-----------------------------------------------------------------------------

\* Time passes.  The UI task keeps its period and nothing delays the watchdog.
Tick ==
    /\ clock < MaxTime
    /\ clock < now + PERIOD
    /\ pending => clock < deadline
    /\ clock' = clock + 1
    /\ UNCHANGED <<state, queue, task, wdt, moves, bites, history>>

\* post_message by the Zigbee task or the UART task; a full queue loses it.  (A
\* commissioned gateway does not join, and a request for the status changes nothing.)
Post(kind) ==
    /\ Len(queue) < QUEUE_LENGTH
    /\ queue' = Append(queue, [kind |-> kind, at |-> clock])
    /\ UNCHANGED <<clock, state, task, wdt, bites>>

Move == moves < MaxMoves /\ moves' = moves + 1

Report == \E kind \in Reports :
    /\ Post(kind)
    /\ Move
    /\ UNCHANGED history

\* gateway_process_command: the coordinator's `ready' or heartbeat.  A command of
\* anybody else, or one that is malformed, is refused and changes nothing.
Command == \E kind \in Commands :
    /\ Post(kind)
    /\ spoke' = clock
    /\ UNCHANGED <<moves, atLastPulse>>

BeginCycle ==
    /\ ~running
    /\ now' = clock
    /\ running' = TRUE
    /\ UNCHANGED <<clock, state, queue, wdt, moves, bites, history>>

\* A commissioned gateway: the stack starts on its network, and loses it to
\* find it again.
Handled(m) ==
    CASE m.kind = "STACK_STARTED"   -> StackStarted(state, FALSE, WatchdogBoot, m.at)
      [] m.kind = "STACK_RETRYING"  -> StackRetrying(state, WatchdogBoot, m.at)
      [] m.kind = "NETWORK_LEFT"    -> NetworkLeft(state, TRUE, m.at)
      [] m.kind = "LEAVE_SUCCEEDED" -> LeaveSucceeded(state, m.at)
      [] m.kind = "GATEWAY_EVENT"   -> GatewayEvent(state, FALSE, m.at)
      [] m.kind = "READY"           -> Ready(state, m.at)
      [] m.kind = "LEASE_PING"      -> LeasePing(state, m.at)

HandleMessage ==
    /\ running /\ queue # <<>>
    /\ state' = Handled(Head(queue))
    /\ queue' = Tail(queue)
    /\ UNCHANGED <<clock, task, wdt, moves, bites, history>>

\* A call of the watchdog's API returns an error.
Fails == failures < MaxFailures /\ failures' = failures + 1

Cancel_Forgotten == retryAt' = 0 /\ UNCHANGED <<pending, deadline, failures>>

\* esp_task_wdt_delete_user.  If it fails the next cycle tries again.
Cancel ==
    /\ retryAt' = 0
    /\ \/ pending' = FALSE /\ deadline' = 0 /\ UNCHANGED failures
       \/ pending /\ Fails /\ UNCHANGED <<pending, deadline>>

Arm_WholeLease ==
    /\ pending' = TRUE
    /\ deadline' = clock + LEASE_TIMEOUT
    /\ UNCHANGED <<retryAt, failures>>

\* esp_task_wdt_add_user and _reset_user.  If only the latter fails the user
\* stays registered, and the watchdog may bite before its full time is over.
Arm ==
    \/ /\ pending' = TRUE
       /\ deadline' = clock + LEASE_WDT_GUARD
       /\ UNCHANGED <<retryAt, failures>>
    \/ /\ Fails
       /\ pending' = TRUE
       /\ deadline' \in clock .. clock + LEASE_WDT_GUARD
       /\ UNCHANGED retryAt
    \/ /\ Fails
       /\ retryAt' = now + WDT_RETRY
       /\ UNCHANGED <<pending, deadline>>

SyncLeaseWatchdog(s) ==
    IF ~LeaseWdtDue(s, now) THEN Cancel
    ELSE IF pending \/ now < retryAt THEN UNCHANGED wdt
    ELSE Arm

\* update_effective_button and cr11_ui_state_advance.
Pressed(down) == Advance(IF down = state.boot_down THEN state ELSE BootInput(state, down, now), now)

\* The stack's part of a reset is only asked for; whether the marker of the forced
\* wipe could be written is known at once.
DispatchActions(s, written) ==
    IF "ARM_FORCED_WIPE" \in s.pending THEN ForcedWipeArmed(TakeActions(s), written, now)
    ELSE TakeActions(s)

LastPulse(led) ==
    led = [color |-> "LEASE_GRADIENT", effect |-> "LEASE_WARNING", level |-> Span]

\* What the light shows when the warning of the lease is at its last pulse, that
\* pulse or something else; nothing else is recorded once the pulse was seen.
ApplyLed(s) ==
    atLastPulse' =
        IF ~LeaseWdtDue(s, now) THEN None
        ELSE IF /\ atLastPulse # "LEASE_WARNING"
                /\ LastPulse(LeaseWarningLed(LeaseAge(s, Later(now, s.last_now))))
        THEN LightAt(s, now).effect
        ELSE atLastPulse

EndCycle == \E down, written \in BOOLEAN :
    /\ running /\ queue = <<>>
    /\ IF down = state.boot_down THEN UNCHANGED moves ELSE Move
    /\ SyncLeaseWatchdog(Pressed(down))
    /\ state' = DispatchActions(Pressed(down), written)
    /\ ApplyLed(state')
    /\ running' = FALSE
    /\ UNCHANGED <<clock, queue, now, bites, spoke>>

\* The task watchdog panics and the gateway boots anew, its clock at zero.
Bite ==
    /\ pending /\ clock >= deadline
    /\ bites < MaxBites /\ bites' = bites + 1
    /\ clock' = 0 /\ state' = InitState(0) /\ queue' = <<>>
    /\ now' = 0 /\ running' = FALSE
    /\ pending' = FALSE /\ deadline' = 0 /\ retryAt' = 0 /\ failures' = 0
    /\ moves' = 0
    /\ spoke' = 0 /\ atLastPulse' = None

Next == Tick \/ Report \/ Command \/ BeginCycle \/ HandleMessage \/ EndCycle \/ Bite

Spec == Init /\ [][Next]_vars

-----------------------------------------------------------------------------

\* What was queued when a cycle began has been dealt with when it ends.
Handling == 2 * PERIOD

\* A reboot answers a silence of the whole lease: a heartbeat that comes while
\* the watchdog is already counting cancels the reboot, unless it comes too late
\* for the UI task to notice, or a call of the watchdog's API failed.
BitesOnlySilence ==
    [][Bite /\ failures = 0 =>
           \/ clock - spoke >= LEASE_WDT_ARM + LEASE_WDT_GUARD
           \/ clock - spoke <= Handling]_vars

\* Silence is noticed: a lease that has run out is not kept any longer than the
\* code's thresholds, its failed registrations and its period account for.
SilenceIsNoticed ==
    state.phase = "READY" /\ state.lease_armed =>
        clock - state.last_lease_ping
            < LEASE_WDT_ARM + LEASE_WDT_GUARD + Handling
               + failures * (WDT_RETRY + PERIOD - 1)

\* What cr11_ui_state_led puts above the lease: a hold that counts towards a reset,
\* and the flash of an event.
Urgent == {"RESET_HOLD", "UPPER_EVENT", "LOWER_EVENT"}

\* The watchdog does not outrun the warning: before it bites, the warning has come
\* to its last pulse, for which the lease is kept a little longer than its guard
\* allows for (FINAL_PULSE_GRACE), and apply_led has shown it, unless a hold of BOOT
\* or an event's flash was in its place or a call has failed.
LastPulseSeen ==
    [][Bite /\ failures = 0 => atLastPulse \in {"LEASE_WARNING"} \cup Urgent]_vars
=============================================================================
