------------------------------- MODULE UiState -------------------------------
(***************************************************************************)
(* The gateway's user-interface state machine, cr11_ui_state.c: one         *)
(* operator per C function, from the state record and the call's arguments  *)
(* to the new state record.  The functions are pure except for the record   *)
(* they are given, so a component that keeps a cr11_ui_state_t keeps a      *)
(* record of States and applies these operators to it.                      *)
(*                                                                         *)
(* Times are natural numbers of an arbitrary unit.  The time spans of the   *)
(* code are constants, so that TLC can check small ones and the theorems    *)
(* hold for all of them.                                                    *)
(*                                                                         *)
(* An operator named X_Y is a mutant of X, a plausible slip in the code that *)
(* a property must notice; no specification uses it.                        *)
(***************************************************************************)
EXTENDS UiNames, Integers

CONSTANTS
    JOIN_HOLD,          \* how long BOOT is held to start steering
    RESET_HOLD,         \* how long BOOT is held to start a local reset
    LEAVE_MIN_RED,      \* the least time the reset is shown in progress
    LEAVE_TIMEOUT,      \* how long the stack may take to leave the network
    RESULT,             \* how long the result of a reset is shown
    EVENT_PULSE,        \* length of the pulse of a gateway event
    HEARTBEAT_PERIOD,   \* period of the ready heartbeat
    LEASE_TIMEOUT,      \* silence after which the supervisor counts as lost
    LEASE_WDT_GUARD,    \* part of it that is left to the task watchdog
    FINAL_PULSE_GRACE   \* added so that the last warning pulse is seen

ASSUME TimeAssumption ==
    /\ {JOIN_HOLD, RESET_HOLD, LEAVE_MIN_RED, LEAVE_TIMEOUT, RESULT} \subseteq Nat \ {0}
    /\ {EVENT_PULSE, HEARTBEAT_PERIOD, LEASE_TIMEOUT, LEASE_WDT_GUARD,
        FINAL_PULSE_GRACE} \subseteq Nat
    /\ LEAVE_MIN_RED <= LEAVE_TIMEOUT
    /\ LEASE_WDT_GUARD <= LEASE_TIMEOUT

LEASE_WDT_ARM_NoGrace == LEASE_TIMEOUT - LEASE_WDT_GUARD

LEASE_WDT_ARM == LEASE_TIMEOUT - LEASE_WDT_GUARD + FINAL_PULSE_GRACE

Presses == {"NONE", "JOIN", "RESET", "IGNORED"}

EventColors == {"OFF", "BLUE", "PINK"}

States == [phase              : Phases,
           phase_since        : Nat,
           last_now           : Nat,
           press_since        : Nat,
           leave_started      : Nat,
           leave_succeeded_at : Nat,
           heartbeat_anchor   : Nat,
           last_lease_ping    : Nat,
           event_until        : Nat,
           pending            : SUBSET Actions,
           press              : Presses,
           event_color        : EventColors,
           boot_down          : BOOLEAN,
           require_release    : BOOLEAN,
           leave_succeeded    : BOOLEAN,
           lease_armed        : BOOLEAN,
           boot_was_watchdog  : BOOLEAN]

Later(a, b) == IF a >= b THEN a ELSE b

Monotonic_Unclamped(s, t) == [s EXCEPT !.last_now = t]

\* The clock of the state never goes back: a call stamped earlier than one
\* already handled takes effect at the time of that one.
Monotonic(s, t) == [s EXCEPT !.last_now = Later(@, t)]

EnterPhase(s, phase, t) == [s EXCEPT !.phase = phase, !.phase_since = t]

InitState(t) ==
    [phase |-> "STARTING", phase_since |-> t, last_now |-> t,
     press_since |-> t, leave_started |-> t, leave_succeeded_at |-> t,
     heartbeat_anchor |-> t, last_lease_ping |-> t, event_until |-> t,
     pending |-> {}, press |-> "NONE", event_color |-> "OFF",
     boot_down |-> FALSE, require_release |-> FALSE,
     leave_succeeded |-> FALSE, lease_armed |-> FALSE,
     boot_was_watchdog |-> FALSE]

-----------------------------------------------------------------------------
(* Advance: what the passing of time alone brings about.                    *)

\* The action a BOOT hold has earned, and the phase it leads to.
Accept(s, phase, action) ==
    [EnterPhase(s, phase, s.last_now) EXCEPT
        !.pending = @ \cup {action},
        !.press = "IGNORED",
        !.require_release = TRUE]

JoinDue_SincePhase(s) ==
    /\ s.press = "JOIN" /\ s.boot_down
    /\ s.phase = "UNPROVISIONED"
    /\ s.last_now - s.phase_since >= JOIN_HOLD

JoinDue(s) ==
    /\ s.press = "JOIN" /\ s.boot_down
    /\ s.phase = "UNPROVISIONED"
    /\ s.last_now - s.press_since >= JOIN_HOLD

ResetDue(s) ==
    /\ s.press = "RESET" /\ s.boot_down
    /\ AcceptsReset(s.phase)
    /\ s.last_now - s.press_since >= RESET_HOLD

AdvanceJoin(s) ==
    IF JoinDue(s) THEN Accept(s, "JOINING", "START_STEERING") ELSE s

AdvanceReset(s) ==
    IF ResetDue(s)
    THEN [Accept(s, "LEAVING", "BEGIN_LOCAL_RESET") EXCEPT
             !.leave_started = s.last_now,
             !.leave_succeeded = FALSE]
    ELSE s

ResultAt_Early(s) == s.leave_succeeded_at

ResultAt_RedOnly(s) == s.leave_started + LEAVE_MIN_RED

\* The red light stays for LEAVE_MIN_RED even if the stack is done earlier.
ResultAt(s) == Later(s.leave_started + LEAVE_MIN_RED, s.leave_succeeded_at)

AdvanceLeave_Unasked(s) ==
    IF s.phase # "LEAVING" THEN s
    ELSE IF s.leave_succeeded
    THEN IF s.last_now >= ResultAt(s)
         THEN EnterPhase(s, "RESULT_GRACEFUL", ResultAt(s))
         ELSE s
    ELSE IF s.last_now - s.leave_started >= LEAVE_TIMEOUT
    THEN EnterPhase(s, "FORCE_PENDING", s.last_now)
    ELSE s

AdvanceLeave(s) ==
    IF s.phase # "LEAVING" THEN s
    ELSE IF s.leave_succeeded
    THEN IF s.last_now >= ResultAt(s)
         THEN EnterPhase(s, "RESULT_GRACEFUL", ResultAt(s))
         ELSE s
    ELSE IF s.last_now - s.leave_started >= LEAVE_TIMEOUT
    THEN [EnterPhase(s, "FORCE_PENDING", s.last_now) EXCEPT
             !.pending = @ \cup {"ARM_FORCED_WIPE"}]
    ELSE s

AdvanceResult(s) ==
    IF s.phase \in ResultPhases /\ s.last_now - s.phase_since >= RESULT
    THEN [EnterPhase(s, "TERMINAL", s.phase_since + RESULT) EXCEPT
             !.press = "IGNORED",
             !.require_release = TRUE]
    ELSE s

Advance(s, t) == AdvanceResult(AdvanceLeave(AdvanceReset(AdvanceJoin(Monotonic(s, t)))))

-----------------------------------------------------------------------------
(* What the Zigbee stack reports.                                           *)

Begin_AlwaysArmed(m, factoryNew, watchdogReset) ==
    [EnterPhase(m, IF factoryNew THEN "UNPROVISIONED" ELSE "READY", m.last_now) EXCEPT
        !.boot_was_watchdog = watchdogReset,
        !.lease_armed = ~factoryNew,
        !.last_lease_ping = m.last_now,
        !.press = IF ~m.boot_down THEN "NONE" ELSE IF factoryNew THEN "JOIN" ELSE "RESET",
        !.press_since = m.last_now]

\* The stack runs: a new device offers to join, a commissioned one is ready.
\* A boot that the watchdog caused starts without a lease.
Begin(m, factoryNew, watchdogReset) ==
    LET now == m.last_now
        lease == ~factoryNew /\ ~watchdogReset
    IN  [EnterPhase(m, IF factoryNew THEN "UNPROVISIONED" ELSE "READY", now) EXCEPT
            !.event_color = "OFF",
            !.event_until = now,
            !.boot_was_watchdog = watchdogReset,
            !.lease_armed = lease,
            !.last_lease_ping = IF lease THEN now ELSE @,
            !.heartbeat_anchor = IF factoryNew THEN @ ELSE now,
            !.press = IF ~m.boot_down THEN "NONE"
                      ELSE IF factoryNew THEN "JOIN" ELSE "RESET",
            !.press_since = IF m.boot_down THEN now ELSE @]

StackStarted_Always(s, factoryNew, watchdogReset, t) ==
    Begin(Monotonic(s, t), factoryNew, watchdogReset)

\* The two stack_ functions are the only ones that do not advance first.
StackStarted(s, factoryNew, watchdogReset, t) ==
    LET m == Monotonic(s, t)
    IN  IF m.phase \in FinalPhases THEN m ELSE Begin(m, factoryNew, watchdogReset)

\* A retry of the start does not begin the restoring pattern or a hold anew.
Retry(m, watchdogReset) ==
    LET quiet == [m EXCEPT !.event_color = "OFF",
                           !.event_until = m.last_now,
                           !.lease_armed = FALSE,
                           !.boot_was_watchdog = watchdogReset]
    IN  IF m.phase = "RESTORING" THEN quiet
        ELSE [EnterPhase(quiet, "RESTORING", m.last_now) EXCEPT
                !.press = IF m.boot_down THEN "RESET" ELSE "NONE",
                !.press_since = m.last_now,
                !.require_release = FALSE]

StackRetrying_InReset(s, watchdogReset, t) ==
    LET m == Monotonic(s, t)
    IN  IF m.phase \in FinalPhases THEN m ELSE Retry(m, watchdogReset)

StackRetrying(s, watchdogReset, t) ==
    LET m == Monotonic(s, t)
    IN  IF m.phase \in ResetFlow \cup FinalPhases THEN m ELSE Retry(m, watchdogReset)

Joined(s, t) ==
    LET a == Advance(s, t)
    IN  IF a.phase # "JOINING" THEN a
        ELSE [EnterPhase(a, "POST_JOIN", a.last_now) EXCEPT
                !.require_release = @ \/ a.boot_down,
                !.press = IF a.boot_down THEN "IGNORED" ELSE @]

LeaveSucceeded(s, t) ==
    LET a == Advance(s, t)
    IN  IF a.phase # "LEAVING" THEN a
        ELSE Advance([a EXCEPT !.leave_succeeded = TRUE,
                               !.leave_succeeded_at = a.last_now], a.last_now)

AwayPhase(willRejoin) == IF willRejoin THEN "RESTORING" ELSE "UNPROVISIONED"

Disconnect_KeepsPress(a, willRejoin) ==
    [EnterPhase(a, AwayPhase(willRejoin), a.last_now) EXCEPT
        !.require_release = a.boot_down,
        !.lease_armed = FALSE]

Disconnect_CountsAnew(a, willRejoin) ==
    [EnterPhase(a, AwayPhase(willRejoin), a.last_now) EXCEPT
        !.press = IF ~a.boot_down THEN "NONE" ELSE IF willRejoin THEN "RESET" ELSE "JOIN",
        !.press_since = a.last_now,
        !.lease_armed = FALSE]

Disconnect_KeepsLease(a, willRejoin) ==
    [EnterPhase(a, AwayPhase(willRejoin), a.last_now) EXCEPT
        !.press = "NONE",
        !.require_release = a.boot_down]

Disconnect(a, willRejoin) ==
    [EnterPhase(a, AwayPhase(willRejoin), a.last_now) EXCEPT
        !.press = "NONE",
        !.require_release = a.boot_down,
        !.lease_armed = FALSE]

NetworkLeft(s, willRejoin, t) ==
    LET a == Advance(s, t)
    IN  IF a.phase = "LEAVING" THEN LeaveSucceeded(a, a.last_now)
        ELSE IF a.phase \in ResetFlow \cup FinalPhases THEN a
        ELSE Disconnect(a, willRejoin)

-----------------------------------------------------------------------------
(* What the supervisor (Zigbee2MQTT's external extension) sends.            *)

GrantLease_Backdated(s) ==
    [s EXCEPT !.lease_armed = TRUE, !.last_lease_ping = s.last_now - LEASE_WDT_GUARD]

GrantLease_NoPing(s) == [s EXCEPT !.lease_armed = TRUE]

GrantLease(s) == [s EXCEPT !.lease_armed = TRUE, !.last_lease_ping = s.last_now]

Ready(s, t) ==
    LET a == Advance(s, t)
    IN  CASE a.phase = "READY" -> GrantLease(a)
          [] a.phase = "POST_JOIN" ->
                GrantLease([EnterPhase(a, "READY", a.last_now) EXCEPT
                               !.heartbeat_anchor = a.last_now])
          [] OTHER -> a

LeasePing(s, t) ==
    LET a == Advance(s, t)
    IN  IF a.phase = "READY" THEN GrantLease(a) ELSE a

LeaseAge(s, t) == IF s.lease_armed THEN Later(t, s.last_lease_ping) - s.last_lease_ping
                                   ELSE 0

LeaseWdtDue(s, t) ==
    /\ s.phase = "READY"
    /\ s.lease_armed
    /\ LeaseAge(s, t) >= LEASE_WDT_ARM

-----------------------------------------------------------------------------
(* BOOT, the forced wipe's result, gateway events and the action mailbox.   *)

BootReleased(a) ==
    [a EXCEPT !.boot_down = FALSE,
              !.press = "NONE",
              !.require_release = FALSE,
              !.heartbeat_anchor = IF a.press = "RESET" /\ a.phase = "READY"
                                   THEN a.last_now + HEARTBEAT_PERIOD ELSE @]

BootPressed(a) ==
    IF a.require_release \/ a.phase \in ResetFlow \cup FinalPhases
    THEN [a EXCEPT !.boot_down = TRUE, !.press = "IGNORED"]
    ELSE [a EXCEPT !.boot_down = TRUE,
                   !.press_since = a.last_now,
                   !.press = CASE a.phase = "UNPROVISIONED" -> "JOIN"
                               [] AcceptsReset(a.phase)     -> "RESET"
                               [] OTHER                     -> "IGNORED"]

BootInput(s, down, t) ==
    LET a == Advance(s, t)
    IN  CASE down /\ ~a.boot_down -> BootPressed(a)
          [] ~down /\ a.boot_down -> BootReleased(a)
          [] OTHER                -> a

ForcedWipeArmed(s, success, t) ==
    LET a == Advance(s, t)
    IN  IF a.phase # "FORCE_PENDING" THEN a
        ELSE EnterPhase(a, IF success THEN "RESULT_FORCED" ELSE "ERROR", a.last_now)

GatewayEvent(s, lowerButton, t) ==
    LET a == Advance(s, t)
    IN  IF a.phase # "READY" THEN a
        ELSE [a EXCEPT !.event_color = IF lowerButton THEN "PINK" ELSE "BLUE",
                       !.event_until = a.last_now + EVENT_PULSE,
                       !.heartbeat_anchor = a.last_now + HEARTBEAT_PERIOD]

\* What is left once the caller has taken the actions s.pending.
TakeActions(s) == [s EXCEPT !.pending = {}]

-----------------------------------------------------------------------------
(* Conditions on a state record that every call preserves.                  *)

\* No time that the code subtracts from the clock lies after it.
TimesPassed(s) ==
    /\ s.phase_since <= s.last_now
    /\ s.press_since <= s.last_now
    /\ s.leave_started <= s.last_now
    /\ s.last_lease_ping <= s.last_now

PressOffered(s) ==
    /\ s.press = "JOIN"  => s.boot_down /\ s.phase = "UNPROVISIONED"
    /\ s.press = "RESET" => s.boot_down /\ AcceptsReset(s.phase)

LeaseOfSession(s) ==
    s.lease_armed =>
        /\ s.phase \notin {"STARTING", "RESTORING", "UNPROVISIONED", "JOINING", "POST_JOIN"}
        /\ s.phase = "READY" => s.last_lease_ping >= s.phase_since

FeedbackGiven(s) ==
    /\ s.phase = "FORCE_PENDING" => s.phase_since >= s.leave_started + LEAVE_TIMEOUT
    /\ s.phase = "RESULT_GRACEFUL" => s.phase_since >= s.leave_started + LEAVE_MIN_RED
    /\ s.phase = "RESULT_FORCED" => s.phase_since >= s.leave_started + LEAVE_TIMEOUT
    /\ s.phase = "TERMINAL" => s.phase_since >= s.leave_started + LEAVE_MIN_RED + RESULT
=============================================================================
