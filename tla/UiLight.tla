------------------------------- MODULE UiLight -------------------------------
(***************************************************************************)
(* The light of the gateway: cr11_ui_state_led and its helpers of            *)
(* cr11_ui_state.c, which turn the state record and the time into a colour   *)
(* and an effect.                                                            *)
(*                                                                         *)
(* The components of a colour are left out but for the gradient of the       *)
(* warning, whose place between green and orange is its level.               *)
(***************************************************************************)
EXTENDS UiState

CONSTANTS
    TENTH,              \* a tenth of a second, the length of every short flash
    RESTORE_PERIOD,     \* period of the restoring pattern
    UNARMED_PERIOD,     \* period of the pattern without a lease
    WARNING_PERIOD,     \* period of the warning's pulses
    LEASE_WARN          \* silence after which the warning begins

ASSUME LightAssumption ==
    /\ {TENTH, RESTORE_PERIOD, UNARMED_PERIOD, WARNING_PERIOD, HEARTBEAT_PERIOD} \subseteq Nat \ {0}
    /\ LEASE_WARN \in Nat /\ LEASE_WARN < LEASE_TIMEOUT

Pulse(elapsed, period, on) == elapsed % period < on

Led(color, effect) == [color |-> color, effect |-> effect, level |-> 0]

Lit(on, color, effect) == Led(IF on THEN color ELSE "OFF", effect)

\* Two flashes at the beginning of each period.
TwoFlashes(elapsed, period, first, second, effect) ==
    LET offset == elapsed % period
    IN  CASE offset < TENTH -> Led(first, effect)
          [] 2 * TENTH <= offset /\ offset < 3 * TENTH -> Led(second, effect)
          [] OTHER -> Led("OFF", effect)

\* The faster, the closer the hold is to its effect; the pattern of the middle lasts
\* half the time of the first one.
ResetHoldLed(elapsed) ==
    LET second == 10 * TENTH
        on == IF elapsed < 2 * second THEN Pulse(elapsed, second, 5 * TENTH)
              ELSE IF elapsed < 4 * second
              THEN Pulse(2 * (elapsed - 2 * second), second, 5 * TENTH)
              ELSE Pulse(elapsed - 4 * second, 2 * TENTH, TENTH)
    IN  Lit(on, "RED", "RESET_HOLD")

\* The level of the last pulse, that of LEASE_TIMEOUT.
Span == LEASE_TIMEOUT - LEASE_WARN

LeaseWarningLed(age) ==
    LET warning == age - LEASE_WARN
        begun == (warning \div WARNING_PERIOD) * WARNING_PERIOD
    IN  IF Pulse(warning, WARNING_PERIOD, TENTH)
        THEN [color |-> "LEASE_GRADIENT", effect |-> "LEASE_WARNING",
              level |-> IF begun > Span THEN Span ELSE begun]
        ELSE Led("OFF", "LEASE_WARNING")

ReadyLed(s, t) ==
    CASE t < s.event_until ->
            Led(s.event_color, IF s.event_color = "PINK" THEN "LOWER_EVENT" ELSE "UPPER_EVENT")
      [] t >= s.event_until /\ ~s.lease_armed ->
            TwoFlashes(t - s.phase_since, UNARMED_PERIOD, "GREEN", "ORANGE", "LEASE_UNARMED")
      [] t >= s.event_until /\ s.lease_armed /\ LeaseAge(s, t) >= LEASE_WARN ->
            LeaseWarningLed(LeaseAge(s, t))
      [] OTHER ->
            Lit(/\ t >= s.heartbeat_anchor
                /\ Pulse(t - s.heartbeat_anchor, HEARTBEAT_PERIOD, TENTH),
                "GREEN", "READY_HEARTBEAT")

PhaseLed(s, t) ==
    LET age == t - s.phase_since
    IN  CASE s.phase = "STARTING" -> Led("OFF", "OFF")
          [] s.phase = "RESTORING" ->
                TwoFlashes(age, RESTORE_PERIOD, "YELLOW", "ORANGE", "RESTORING")
          [] s.phase = "UNPROVISIONED" ->
                IF s.press = "JOIN" /\ s.boot_down THEN Led("YELLOW_HALF", "JOIN_HOLD")
                ELSE Lit(Pulse(age, 10 * TENTH, TENTH), "RED", "UNPROVISIONED_HEARTBEAT")
          [] s.phase = "JOINING" -> Lit(Pulse(age, 10 * TENTH, 5 * TENTH), "YELLOW", "JOINING")
          [] s.phase = "POST_JOIN" ->
                Led(IF Pulse(age, 10 * TENTH, 5 * TENTH) THEN "YELLOW" ELSE "GREEN", "POST_JOIN")
          [] s.phase = "READY" -> ReadyLed(s, t)
          [] s.phase \in {"LEAVING", "FORCE_PENDING"} -> Led("RED", "LEAVE")
          [] s.phase = "RESULT_GRACEFUL" -> Led("GREEN", "GRACEFUL_RESULT")
          [] s.phase = "RESULT_FORCED" -> Led("PURPLE", "FORCED_RESULT")
          [] s.phase = "TERMINAL" -> TwoFlashes(age, 10 * TENTH, "RED", "RED", "TERMINAL")
          [] s.phase = "ERROR" -> Led("RED", "ERROR")

HoldsForReset(s) == s.press = "RESET" /\ s.boot_down /\ AcceptsReset(s.phase)

LightAt_ByPhase(s, now) == PhaseLed(s, Later(now, s.last_now))

\* A hold that counts towards a reset is shown above all else.
LightAt(s, now) ==
    LET t == Later(now, s.last_now)
    IN  IF HoldsForReset(s) THEN ResetHoldLed(t - s.press_since) ELSE PhaseLed(s, t)
=============================================================================
