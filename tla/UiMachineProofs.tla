--------------------------- MODULE UiMachineProofs ---------------------------
(***************************************************************************)
(* What UiMachine's runs check on small time spans, proved for all of them.  *)
(* The argument has three layers: every operator of UiState maps a sound     *)
(* record to a sound record; Advance relates the two in the way Ages says;   *)
(* and the history variables of UiMachine follow from both.                  *)
(*                                                                         *)
(* On top of them, that the machine implements UiPhases, as UiRefinement      *)
(* states it: a lemma for each call of cr11_ui_state.c, which maps it to the  *)
(* step of UiPhases of the same name; and what ResetLight says of the light  *)
(* of a reset, for every length of a cycle that is short against it.          *)
(***************************************************************************)
EXTENDS UiRefinement, ResetLight, TLAPS

LEMMA TimeFacts ==
    /\ JOIN_HOLD \in Nat /\ RESET_HOLD \in Nat /\ RESULT \in Nat
    /\ LEAVE_MIN_RED \in Nat /\ LEAVE_TIMEOUT \in Nat
    /\ EVENT_PULSE \in Nat /\ HEARTBEAT_PERIOD \in Nat
    /\ LEASE_WDT_ARM \in Nat
    /\ LEAVE_TIMEOUT > 0
    /\ LEAVE_MIN_RED <= LEAVE_TIMEOUT
BY TimeAssumption DEF LEASE_WDT_ARM

Sound(s) ==
    /\ s \in States
    /\ TimesPassed(s)
    /\ PressOffered(s)
    /\ LeaseOfSession(s)
    /\ FeedbackGiven(s)

-----------------------------------------------------------------------------
(* Types.                                                                   *)

LEMMA EnterPhaseType ==
    ASSUME NEW s \in States, NEW p \in Phases, NEW t \in Nat
    PROVE  EnterPhase(s, p, t) \in States
BY DEF States, EnterPhase

LEMMA AcceptType ==
    ASSUME NEW s \in States, NEW p \in Phases, NEW a \in Actions
    PROVE  Accept(s, p, a) \in States
BY DEF States, EnterPhase, Accept, Presses

LEMMA MonotonicType ==
    ASSUME NEW s \in States, NEW t \in Nat
    PROVE  Monotonic(s, t) \in States
BY DEF States, Monotonic, Later

LEMMA AdvanceJoinType ==
    ASSUME NEW s \in States
    PROVE  AdvanceJoin(s) \in States
BY AcceptType DEF AdvanceJoin, Phases, Actions

LEMMA AdvanceResetType ==
    ASSUME NEW s \in States
    PROVE  AdvanceReset(s) \in States
<1> DEFINE a == Accept(s, "LEAVING", "BEGIN_LOCAL_RESET")
<1>1. a \in States
  BY AcceptType DEF Phases, Actions
<1>2. [a EXCEPT !.leave_started = s.last_now, !.leave_succeeded = FALSE] \in States
  <2> HIDE DEF a
  <2> QED BY <1>1 DEF States
<1> QED BY <1>2 DEF AdvanceReset

LEMMA AdvanceLeaveType ==
    ASSUME NEW s \in States
    PROVE  AdvanceLeave(s) \in States
<1> DEFINE f == EnterPhase(s, "FORCE_PENDING", s.last_now)
<1>1. ResultAt(s) \in Nat /\ s.last_now \in Nat
  BY TimeFacts DEF ResultAt, Later, States
<1>2. f \in States /\ EnterPhase(s, "RESULT_GRACEFUL", ResultAt(s)) \in States
  BY <1>1, EnterPhaseType DEF Phases
<1>3. [f EXCEPT !.pending = @ \cup {"ARM_FORCED_WIPE"}] \in States
  <2> HIDE DEF f
  <2> QED BY <1>2 DEF States, Actions
<1> QED BY <1>2, <1>3 DEF AdvanceLeave

LEMMA AdvanceResultType ==
    ASSUME NEW s \in States
    PROVE  AdvanceResult(s) \in States
<1> DEFINE r == EnterPhase(s, "TERMINAL", s.phase_since + RESULT)
<1>1. s.phase_since + RESULT \in Nat
  BY TimeFacts DEF States
<1>2. r \in States
  BY <1>1, EnterPhaseType DEF Phases
<1>3. [r EXCEPT !.press = "IGNORED", !.require_release = TRUE] \in States
  <2> HIDE DEF r
  <2> QED BY <1>2 DEF States, Presses
<1> QED BY <1>3 DEF AdvanceResult

LEMMA AdvanceType ==
    ASSUME NEW s \in States, NEW t \in Nat
    PROVE  Advance(s, t) \in States
BY MonotonicType, AdvanceJoinType, AdvanceResetType, AdvanceLeaveType, AdvanceResultType
   DEF Advance

LEMMA StackStartedType ==
    ASSUME NEW s \in States, NEW f \in BOOLEAN, NEW w \in BOOLEAN, NEW t \in Nat
    PROVE  StackStarted(s, f, w, t) \in States
<1> DEFINE m == Monotonic(s, t)
           p == IF f THEN "UNPROVISIONED" ELSE "READY"
           e == EnterPhase(m, p, m.last_now)
           press == IF ~m.boot_down THEN "NONE" ELSE IF f THEN "JOIN" ELSE "RESET"
           lease == ~f /\ ~w
           ping(x) == IF lease THEN m.last_now ELSE x
           anchor(x) == IF f THEN x ELSE m.last_now
           since(x) == IF m.boot_down THEN m.last_now ELSE x
<1>1. m \in States
  BY MonotonicType
<1>2. m.last_now \in Nat
  BY <1>1 DEF States
<1>3. e \in States
  BY <1>1, <1>2, EnterPhaseType DEF Phases
<1>4. press \in Presses /\ "OFF" \in EventColors
  BY DEF Presses, EventColors
<1>5. \A x \in Nat : ping(x) \in Nat /\ anchor(x) \in Nat /\ since(x) \in Nat
  BY <1>2
<1>6. [e EXCEPT !.event_color = "OFF",
                !.event_until = m.last_now,
                !.boot_was_watchdog = w,
                !.lease_armed = lease,
                !.last_lease_ping = ping(@),
                !.heartbeat_anchor = anchor(@),
                !.press = press,
                !.press_since = since(@)] \in States
  <2>1. lease \in BOOLEAN
    OBVIOUS
  <2> HIDE DEF e, m, press, lease, ping, anchor, since
  <2> QED BY <2>1, <1>2, <1>3, <1>4, <1>5 DEF States
<1> QED BY <1>1, <1>6 DEF StackStarted, Begin

LEMMA StackRetryingType ==
    ASSUME NEW s \in States, NEW w \in BOOLEAN, NEW t \in Nat
    PROVE  StackRetrying(s, w, t) \in States
<1> DEFINE m == Monotonic(s, t)
           quiet == [m EXCEPT !.event_color = "OFF",
                              !.event_until = m.last_now,
                              !.lease_armed = FALSE,
                              !.boot_was_watchdog = w]
           e == EnterPhase(quiet, "RESTORING", m.last_now)
           press == IF m.boot_down THEN "RESET" ELSE "NONE"
<1>1. m \in States
  BY MonotonicType
<1>2. m.last_now \in Nat
  BY <1>1 DEF States
<1>3. quiet \in States
  <2> HIDE DEF m
  <2> QED BY <1>1, <1>2 DEF States, EventColors
<1>4. e \in States
  BY <1>2, <1>3, EnterPhaseType DEF Phases
<1>5. press \in Presses
  BY DEF Presses
<1>6. [e EXCEPT !.press = press, !.press_since = m.last_now, !.require_release = FALSE]
         \in States
  <2> HIDE DEF e, m, press
  <2> QED BY <1>2, <1>4, <1>5 DEF States
<1> QED BY <1>1, <1>3, <1>6 DEF StackRetrying, Retry

LEMMA JoinedType ==
    ASSUME NEW s \in States, NEW t \in Nat
    PROVE  Joined(s, t) \in States
<1> DEFINE a == Advance(s, t)
           e == EnterPhase(a, "POST_JOIN", a.last_now)
           press(x) == IF a.boot_down THEN "IGNORED" ELSE x
           req(x) == x \/ a.boot_down
<1>1. a \in States
  BY AdvanceType
<1>2. e \in States
  BY <1>1, EnterPhaseType DEF Phases, States
<1>3. \A x \in Presses : press(x) \in Presses
  BY DEF Presses
<1>4. \A x \in BOOLEAN : req(x) \in BOOLEAN
  OBVIOUS
<1>5. [e EXCEPT !.require_release = req(@), !.press = press(@)] \in States
  <2> HIDE DEF e, a, press, req
  <2> QED BY <1>2, <1>3, <1>4 DEF States
<1> QED BY <1>1, <1>5 DEF Joined

LEMMA LeaveSucceededType ==
    ASSUME NEW s \in States, NEW t \in Nat
    PROVE  LeaveSucceeded(s, t) \in States
<1> DEFINE a == Advance(s, t)
           b == [a EXCEPT !.leave_succeeded = TRUE, !.leave_succeeded_at = a.last_now]
<1>1. a \in States /\ a.last_now \in Nat
  BY AdvanceType DEF States
<1>2. b \in States
  <2> HIDE DEF a
  <2> QED BY <1>1 DEF States
<1> QED BY <1>1, <1>2, AdvanceType DEF LeaveSucceeded

LEMMA NetworkLeftType ==
    ASSUME NEW s \in States, NEW r \in BOOLEAN, NEW t \in Nat
    PROVE  NetworkLeft(s, r, t) \in States
<1> DEFINE a == Advance(s, t)
           p == IF r THEN "RESTORING" ELSE "UNPROVISIONED"
           e == EnterPhase(a, p, a.last_now)
<1>1. a \in States /\ a.last_now \in Nat /\ a.boot_down \in BOOLEAN
  BY AdvanceType DEF States
<1>2. e \in States
  BY <1>1, EnterPhaseType DEF Phases
<1>3. [e EXCEPT !.press = "NONE", !.require_release = a.boot_down, !.lease_armed = FALSE]
         \in States
  <2> HIDE DEF e, a
  <2> QED BY <1>1, <1>2 DEF States, Presses
<1> QED BY <1>1, <1>3, LeaveSucceededType DEF NetworkLeft, Disconnect, AwayPhase

LEMMA GrantLeaseType ==
    ASSUME NEW s \in States
    PROVE  GrantLease(s) \in States
BY DEF States, GrantLease

LEMMA ReadyType ==
    ASSUME NEW s \in States, NEW t \in Nat
    PROVE  Ready(s, t) \in States
<1> DEFINE a == Advance(s, t)
           e == EnterPhase(a, "READY", a.last_now)
           h == [e EXCEPT !.heartbeat_anchor = a.last_now]
<1>1. a \in States /\ a.last_now \in Nat
  BY AdvanceType DEF States
<1>2. e \in States
  BY <1>1, EnterPhaseType DEF Phases
<1>3. h \in States
  <2> HIDE DEF e, a
  <2> QED BY <1>1, <1>2 DEF States
<1>4. GrantLease(h) \in States /\ GrantLease(a) \in States
  BY <1>1, <1>3, GrantLeaseType
<1> QED BY <1>1, <1>4 DEF Ready

LEMMA LeasePingType ==
    ASSUME NEW s \in States, NEW t \in Nat
    PROVE  LeasePing(s, t) \in States
BY AdvanceType, GrantLeaseType DEF LeasePing

LEMMA BootPressedType ==
    ASSUME NEW a \in States
    PROVE  BootPressed(a) \in States
<1> DEFINE press == CASE a.phase = "UNPROVISIONED" -> "JOIN"
                      [] AcceptsReset(a.phase)     -> "RESET"
                      [] OTHER                     -> "IGNORED"
<1>1. press \in Presses
  BY DEF Presses
<1>2. [a EXCEPT !.boot_down = TRUE, !.press_since = a.last_now, !.press = press] \in States
  <2> HIDE DEF press
  <2> QED BY <1>1 DEF States
<1>3. [a EXCEPT !.boot_down = TRUE, !.press = "IGNORED"] \in States
  BY DEF States, Presses
<1> QED BY <1>2, <1>3 DEF BootPressed

LEMMA BootReleasedType ==
    ASSUME NEW a \in States
    PROVE  BootReleased(a) \in States
<1> DEFINE anchor(x) == IF a.press = "RESET" /\ a.phase = "READY"
                        THEN a.last_now + HEARTBEAT_PERIOD ELSE x
<1>1. \A x \in Nat : anchor(x) \in Nat
  BY TimeFacts DEF States
<1>2. [a EXCEPT !.boot_down = FALSE, !.press = "NONE", !.require_release = FALSE,
                !.heartbeat_anchor = anchor(@)] \in States
  <2> HIDE DEF anchor
  <2> QED BY <1>1 DEF States, Presses
<1> QED BY <1>2 DEF BootReleased

LEMMA BootInputType ==
    ASSUME NEW s \in States, NEW d \in BOOLEAN, NEW t \in Nat
    PROVE  BootInput(s, d, t) \in States
BY AdvanceType, BootPressedType, BootReleasedType DEF BootInput

LEMMA ForcedWipeArmedType ==
    ASSUME NEW s \in States, NEW ok \in BOOLEAN, NEW t \in Nat
    PROVE  ForcedWipeArmed(s, ok, t) \in States
<1> DEFINE a == Advance(s, t)
           p == IF ok THEN "RESULT_FORCED" ELSE "ERROR"
<1>1. a \in States /\ a.last_now \in Nat
  BY AdvanceType DEF States
<1>2. p \in Phases
  BY DEF Phases
<1>3. EnterPhase(a, p, a.last_now) \in States
  BY <1>1, <1>2, EnterPhaseType
<1> QED BY <1>1, <1>3 DEF ForcedWipeArmed

LEMMA GatewayEventType ==
    ASSUME NEW s \in States, NEW b \in BOOLEAN, NEW t \in Nat
    PROVE  GatewayEvent(s, b, t) \in States
<1> DEFINE a == Advance(s, t)
           color == IF b THEN "PINK" ELSE "BLUE"
           until == a.last_now + EVENT_PULSE
           anchor == a.last_now + HEARTBEAT_PERIOD
<1>1. a \in States /\ a.last_now \in Nat
  BY AdvanceType DEF States
<1>2. color \in EventColors /\ until \in Nat /\ anchor \in Nat
  BY <1>1, TimeFacts DEF EventColors
<1>3. [a EXCEPT !.event_color = color, !.event_until = until, !.heartbeat_anchor = anchor]
         \in States
  <2> HIDE DEF a, color, until, anchor
  <2> QED BY <1>1, <1>2 DEF States
<1> QED BY <1>1, <1>3 DEF GatewayEvent

LEMMA TakeActionsType ==
    ASSUME NEW s \in States
    PROVE  TakeActions(s) \in States
BY DEF States, TakeActions

LEMMA InitStateType ==
    ASSUME NEW t \in Nat
    PROVE  InitState(t) \in States
BY DEF States, InitState, Phases, Presses, EventColors

-----------------------------------------------------------------------------
(* Soundness.  A step of Advance is taken apart into its stages; every other *)
(* operator adds its own effect to the record that Advance returns.          *)

LEMMA MonotonicSound ==
    ASSUME NEW s, Sound(s), NEW t \in Nat
    PROVE  Sound(Monotonic(s, t))
<1>1. Monotonic(s, t) \in States
  BY MonotonicType DEF Sound
<1> QED BY <1>1 DEF Sound, States, TimesPassed, PressOffered, LeaseOfSession, FeedbackGiven,
           Monotonic, Later

LEMMA AdvanceJoinSound ==
    ASSUME NEW s, Sound(s)
    PROVE  Sound(AdvanceJoin(s))
<1>1. AdvanceJoin(s) \in States
  BY AdvanceJoinType DEF Sound
<1> QED BY <1>1 DEF Sound, States, TimesPassed, PressOffered, LeaseOfSession, FeedbackGiven,
           AdvanceJoin, JoinDue, Accept, EnterPhase

LEMMA AdvanceResetSound ==
    ASSUME NEW s, Sound(s)
    PROVE  Sound(AdvanceReset(s))
<1>1. AdvanceReset(s) \in States
  BY AdvanceResetType DEF Sound
<1> QED BY <1>1 DEF Sound, States, TimesPassed, PressOffered, LeaseOfSession, FeedbackGiven,
           AdvanceReset, ResetDue, Accept, EnterPhase

LEMMA AdvanceLeaveSound ==
    ASSUME NEW s, Sound(s)
    PROVE  Sound(AdvanceLeave(s))
<1>1. AdvanceLeave(s) \in States
  BY AdvanceLeaveType DEF Sound
<1> QED BY <1>1, TimeFacts
        DEF Sound, States, TimesPassed, PressOffered, LeaseOfSession, FeedbackGiven,
            AdvanceLeave, ResultAt, Later, EnterPhase, AcceptsReset

LEMMA AdvanceResultSound ==
    ASSUME NEW s, Sound(s)
    PROVE  Sound(AdvanceResult(s))
<1>1. AdvanceResult(s) \in States
  BY AdvanceResultType DEF Sound
<1> QED BY <1>1, TimeFacts
        DEF Sound, States, TimesPassed, PressOffered, LeaseOfSession, FeedbackGiven,
            AdvanceResult, EnterPhase, ResultPhases

LEMMA AdvanceSound ==
    ASSUME NEW s, Sound(s), NEW t \in Nat
    PROVE  Sound(Advance(s, t))
BY MonotonicSound, AdvanceJoinSound, AdvanceResetSound, AdvanceLeaveSound, AdvanceResultSound
   DEF Advance

LEMMA StackStartedSound ==
    ASSUME NEW s, Sound(s), NEW f \in BOOLEAN, NEW w \in BOOLEAN, NEW t \in Nat
    PROVE  Sound(StackStarted(s, f, w, t))
<1> DEFINE m == Monotonic(s, t)
<1>1. StackStarted(s, f, w, t) \in States
  BY StackStartedType DEF Sound
<1>2. Sound(m)
  BY MonotonicSound
<1> HIDE DEF m
<1>3. CASE m.phase \in FinalPhases
  BY <1>2, <1>3 DEF StackStarted, Begin, m
<1>4. CASE m.phase \notin FinalPhases
  <2> DEFINE n == StackStarted(s, f, w, t)
  <2>1. /\ n.phase = IF f THEN "UNPROVISIONED" ELSE "READY"
        /\ n.phase_since = m.last_now
        /\ n.last_now = m.last_now
        /\ n.leave_started = m.leave_started
        /\ n.press_since = IF m.boot_down THEN m.last_now ELSE m.press_since
        /\ n.last_lease_ping = IF ~f /\ ~w THEN m.last_now ELSE m.last_lease_ping
        /\ n.boot_down = m.boot_down
        /\ n.press = IF ~m.boot_down THEN "NONE" ELSE IF f THEN "JOIN" ELSE "RESET"
        /\ n.lease_armed = (~f /\ ~w)
    BY <1>2, <1>4 DEF StackStarted, Begin, EnterPhase, Sound, States, m
  <2> HIDE DEF n
  <2>2. n \in States /\ m \in States
    BY <1>1, <1>2 DEF n, Sound
  <2>3. TimesPassed(n) /\ FeedbackGiven(n)
    BY <1>2, <2>1, <2>2 DEF Sound, TimesPassed, FeedbackGiven, States
  <2>4. PressOffered(n)
    BY <2>1 DEF PressOffered, AcceptsReset
  <2>5. LeaseOfSession(n)
    BY <2>1, <2>2 DEF LeaseOfSession, States
  <2> QED BY <2>2, <2>3, <2>4, <2>5 DEF Sound, n
<1> QED BY <1>3, <1>4

LEMMA StackRetryingSound ==
    ASSUME NEW s, Sound(s), NEW w \in BOOLEAN, NEW t \in Nat
    PROVE  Sound(StackRetrying(s, w, t))
<1> DEFINE m == Monotonic(s, t)
           n == StackRetrying(s, w, t)
<1>1. n \in States
  BY StackRetryingType DEF Sound
<1>2. Sound(m) /\ m \in States
  BY MonotonicSound DEF Sound
<1>3. CASE m.phase \in ResetFlow \cup FinalPhases
  BY <1>2, <1>3 DEF StackRetrying, Retry
<1>4. CASE m.phase = "RESTORING"
  <2>1. /\ n.phase = m.phase /\ n.phase_since = m.phase_since
        /\ n.last_now = m.last_now /\ n.leave_started = m.leave_started
        /\ n.press_since = m.press_since /\ n.last_lease_ping = m.last_lease_ping
        /\ n.boot_down = m.boot_down /\ n.press = m.press
        /\ n.lease_armed = FALSE
    <3> HIDE DEF m
    <3> QED BY <1>2, <1>4 DEF StackRetrying, Retry, States, ResetFlow, ResultPhases, FinalPhases, m
  <2> HIDE DEF m, n
  <2>2. Sound(n)
    BY <1>1, <1>2, <2>1
            DEF Sound, TimesPassed, PressOffered, LeaseOfSession, FeedbackGiven
  <2> QED BY <2>2 DEF n
<1>5. CASE m.phase \notin ResetFlow \cup FinalPhases \cup {"RESTORING"}
  <2>1. /\ n.phase = "RESTORING" /\ n.phase_since = m.last_now
        /\ n.last_now = m.last_now /\ n.leave_started = m.leave_started
        /\ n.press_since = m.last_now /\ n.last_lease_ping = m.last_lease_ping
        /\ n.boot_down = m.boot_down
        /\ n.press = IF m.boot_down THEN "RESET" ELSE "NONE"
        /\ n.lease_armed = FALSE
    <3> HIDE DEF m
    <3> QED BY <1>2, <1>5 DEF StackRetrying, Retry, EnterPhase, States, m
  <2> HIDE DEF m, n
  <2>2. Sound(n)
    BY <1>1, <1>2, <2>1
            DEF Sound, States, TimesPassed, PressOffered, LeaseOfSession, FeedbackGiven, AcceptsReset
  <2> QED BY <2>2 DEF n
<1> QED BY <1>3, <1>4, <1>5

LEMMA JoinedSound ==
    ASSUME NEW s, Sound(s), NEW t \in Nat
    PROVE  Sound(Joined(s, t))
<1> DEFINE a == Advance(s, t)
           n == Joined(s, t)
<1>1. n \in States
  BY JoinedType DEF Sound
<1>2. Sound(a) /\ a \in States
  BY AdvanceSound DEF Sound
<1>3. CASE a.phase # "JOINING"
  BY <1>2, <1>3 DEF Joined
<1>4. CASE a.phase = "JOINING"
  <2>1. /\ n.phase = "POST_JOIN" /\ n.phase_since = a.last_now
        /\ n.last_now = a.last_now /\ n.leave_started = a.leave_started
        /\ n.press_since = a.press_since /\ n.last_lease_ping = a.last_lease_ping
        /\ n.boot_down = a.boot_down
        /\ n.press \in {a.press, "IGNORED"}
        /\ n.lease_armed = a.lease_armed
    <3> HIDE DEF a
    <3> QED BY <1>2, <1>4 DEF Joined, EnterPhase, States, a
  <2> HIDE DEF a, n
  <2>2. Sound(n)
    BY <1>1, <1>2, <1>4, <2>1
            DEF Sound, States, TimesPassed, PressOffered, LeaseOfSession, FeedbackGiven, AcceptsReset
  <2> QED BY <2>2 DEF n
<1> QED BY <1>3, <1>4

LEMMA LeaveSucceededSound ==
    ASSUME NEW s, Sound(s), NEW t \in Nat
    PROVE  Sound(LeaveSucceeded(s, t))
<1> DEFINE a == Advance(s, t)
           b == [a EXCEPT !.leave_succeeded = TRUE, !.leave_succeeded_at = a.last_now]
<1>1. Sound(a) /\ a \in States /\ a.last_now \in Nat
  BY AdvanceSound DEF Sound, States
<1>2. Sound(b)
  <2> HIDE DEF a
  <2>1. b \in States
    BY <1>1 DEF States
  <2> QED BY <1>1, <2>1
          DEF Sound, States, TimesPassed, PressOffered, LeaseOfSession, FeedbackGiven
<1>3. Sound(Advance(b, a.last_now))
  <2> HIDE DEF a, b
  <2> QED BY <1>1, <1>2, AdvanceSound
<1> QED BY <1>1, <1>3 DEF LeaveSucceeded

LEMMA NetworkLeftSound ==
    ASSUME NEW s, Sound(s), NEW r \in BOOLEAN, NEW t \in Nat
    PROVE  Sound(NetworkLeft(s, r, t))
<1> DEFINE a == Advance(s, t)
           n == NetworkLeft(s, r, t)
<1>1. n \in States
  BY NetworkLeftType DEF Sound
<1>2. Sound(a) /\ a \in States /\ a.last_now \in Nat
  BY AdvanceSound DEF Sound, States
<1>3. CASE a.phase = "LEAVING"
  BY <1>2, <1>3, LeaveSucceededSound DEF NetworkLeft, Disconnect, AwayPhase
<1>4. CASE a.phase \in (ResetFlow \cup FinalPhases) \ {"LEAVING"}
  BY <1>2, <1>4 DEF NetworkLeft, Disconnect, AwayPhase
<1>5. CASE a.phase \notin ResetFlow \cup FinalPhases
  <2>1. /\ n.phase = IF r THEN "RESTORING" ELSE "UNPROVISIONED"
        /\ n.phase_since = a.last_now
        /\ n.last_now = a.last_now /\ n.leave_started = a.leave_started
        /\ n.press_since = a.press_since /\ n.last_lease_ping = a.last_lease_ping
        /\ n.press = "NONE" /\ n.lease_armed = FALSE
    <3> HIDE DEF a
    <3> QED BY <1>2, <1>5 DEF NetworkLeft, Disconnect, AwayPhase, EnterPhase, States, ResetFlow, a
  <2> HIDE DEF a, n
  <2>2. Sound(n)
    BY <1>1, <1>2, <2>1
            DEF Sound, States, TimesPassed, PressOffered, LeaseOfSession, FeedbackGiven
  <2> QED BY <2>2 DEF n
<1> QED BY <1>3, <1>4, <1>5

LEMMA GrantLeaseSound ==
    ASSUME NEW s, Sound(s), s.phase = "READY"
    PROVE  Sound(GrantLease(s))
<1>1. GrantLease(s) \in States
  BY GrantLeaseType DEF Sound
<1> QED BY <1>1 DEF Sound, States, TimesPassed, PressOffered, LeaseOfSession, FeedbackGiven,
           GrantLease

LEMMA LeasePingSound ==
    ASSUME NEW s, Sound(s), NEW t \in Nat
    PROVE  Sound(LeasePing(s, t))
<1> DEFINE a == Advance(s, t)
<1>1. Sound(a)
  BY AdvanceSound
<1> HIDE DEF a
<1> QED BY <1>1, GrantLeaseSound DEF LeasePing, a

LEMMA ReadySound ==
    ASSUME NEW s, Sound(s), NEW t \in Nat
    PROVE  Sound(Ready(s, t))
<1> DEFINE a == Advance(s, t)
           e == EnterPhase(a, "READY", a.last_now)
           h == [e EXCEPT !.heartbeat_anchor = a.last_now]
           n == GrantLease(h)
<1>1. Sound(a) /\ a \in States /\ a.last_now \in Nat
  BY AdvanceSound DEF Sound, States
<1>2. CASE a.phase = "POST_JOIN"
  <2>1. e \in States
    BY <1>1, EnterPhaseType DEF Phases
  <2>2. h \in States
    <3> HIDE DEF e, a
    <3> QED BY <1>1, <2>1 DEF States
  <2>3. n \in States
    BY <2>2, GrantLeaseType
  <2>4. /\ n.phase = "READY" /\ n.phase_since = a.last_now
        /\ n.last_now = a.last_now /\ n.leave_started = a.leave_started
        /\ n.press_since = a.press_since /\ n.last_lease_ping = a.last_now
        /\ n.boot_down = a.boot_down /\ n.press = a.press
    <3> HIDE DEF a
    <3> QED BY <1>1 DEF GrantLease, EnterPhase, States
  <2>5. n = Ready(s, t)
    <3> HIDE DEF n, h, e
    <3> QED BY <1>2 DEF Ready, n, h, e
  <2>6. Sound(n)
    <3> HIDE DEF a, n
    <3> QED BY <1>1, <1>2, <2>3, <2>4
            DEF Sound, States, TimesPassed, PressOffered, LeaseOfSession, FeedbackGiven,
                AcceptsReset
  <2> QED BY <2>5, <2>6
<1>3. CASE a.phase = "READY"
  BY <1>1, <1>3, GrantLeaseSound DEF Ready
<1>4. CASE a.phase \notin {"READY", "POST_JOIN"}
  BY <1>1, <1>4 DEF Ready
<1> QED BY <1>2, <1>3, <1>4

LEMMA BootPressedSound ==
    ASSUME NEW a, Sound(a)
    PROVE  Sound(BootPressed(a))
<1> DEFINE n == BootPressed(a)
<1>1. n \in States /\ a \in States
  BY BootPressedType DEF Sound
<1>2. /\ n.phase = a.phase /\ n.phase_since = a.phase_since
      /\ n.last_now = a.last_now /\ n.leave_started = a.leave_started
      /\ n.press_since \in {a.press_since, a.last_now}
      /\ n.last_lease_ping = a.last_lease_ping /\ n.lease_armed = a.lease_armed
      /\ n.boot_down = TRUE
      /\ n.press = "JOIN" => n.phase = "UNPROVISIONED"
      /\ n.press = "RESET" => AcceptsReset(n.phase)
  BY <1>1 DEF BootPressed, States
<1>3. Sound(n)
  <2> HIDE DEF n
  <2> QED BY <1>1, <1>2
          DEF Sound, States, TimesPassed, PressOffered, LeaseOfSession, FeedbackGiven
<1> QED BY <1>3

LEMMA BootReleasedSound ==
    ASSUME NEW a, Sound(a)
    PROVE  Sound(BootReleased(a))
<1> DEFINE n == BootReleased(a)
<1>1. n \in States /\ a \in States
  BY BootReleasedType DEF Sound
<1>2. /\ n.phase = a.phase /\ n.phase_since = a.phase_since
      /\ n.last_now = a.last_now /\ n.leave_started = a.leave_started
      /\ n.press_since = a.press_since /\ n.press = "NONE"
      /\ n.last_lease_ping = a.last_lease_ping /\ n.lease_armed = a.lease_armed
  BY <1>1 DEF BootReleased, States
<1>3. Sound(n)
  <2> HIDE DEF n
  <2> QED BY <1>1, <1>2
          DEF Sound, States, TimesPassed, PressOffered, LeaseOfSession, FeedbackGiven
<1> QED BY <1>3

LEMMA BootInputSound ==
    ASSUME NEW s, Sound(s), NEW d \in BOOLEAN, NEW t \in Nat
    PROVE  Sound(BootInput(s, d, t))
BY AdvanceSound, BootPressedSound, BootReleasedSound DEF BootInput

LEMMA ForcedWipeArmedSound ==
    ASSUME NEW s, Sound(s), NEW ok \in BOOLEAN, NEW t \in Nat
    PROVE  Sound(ForcedWipeArmed(s, ok, t))
<1> DEFINE a == Advance(s, t)
           n == ForcedWipeArmed(s, ok, t)
<1>1. n \in States
  BY ForcedWipeArmedType DEF Sound
<1>2. Sound(a) /\ a \in States
  BY AdvanceSound DEF Sound
<1>3. CASE a.phase # "FORCE_PENDING"
  BY <1>2, <1>3 DEF ForcedWipeArmed
<1>4. CASE a.phase = "FORCE_PENDING"
  <2>1. /\ n.phase = IF ok THEN "RESULT_FORCED" ELSE "ERROR"
        /\ n.phase_since = a.last_now
        /\ n.last_now = a.last_now /\ n.leave_started = a.leave_started
        /\ n.press_since = a.press_since /\ n.press = a.press
        /\ n.last_lease_ping = a.last_lease_ping
    <3> HIDE DEF a
    <3> QED BY <1>2, <1>4 DEF ForcedWipeArmed, EnterPhase, States, a
  <2> HIDE DEF a, n
  <2>2. Sound(n)
    BY <1>1, <1>2, <1>4, <2>1, TimeFacts
       DEF Sound, States, TimesPassed, PressOffered, LeaseOfSession, FeedbackGiven, AcceptsReset
  <2> QED BY <2>2 DEF n
<1> QED BY <1>3, <1>4

LEMMA GatewayEventSound ==
    ASSUME NEW s, Sound(s), NEW b \in BOOLEAN, NEW t \in Nat
    PROVE  Sound(GatewayEvent(s, b, t))
<1> DEFINE a == Advance(s, t)
           n == GatewayEvent(s, b, t)
<1>1. n \in States
  BY GatewayEventType DEF Sound
<1>2. Sound(a) /\ a \in States
  BY AdvanceSound DEF Sound
<1>3. /\ n.phase = a.phase /\ n.phase_since = a.phase_since
      /\ n.last_now = a.last_now /\ n.leave_started = a.leave_started
      /\ n.press_since = a.press_since /\ n.press = a.press
      /\ n.boot_down = a.boot_down
      /\ n.last_lease_ping = a.last_lease_ping /\ n.lease_armed = a.lease_armed
  <2> HIDE DEF a
  <2> QED BY <1>2 DEF GatewayEvent, States, a
<1> HIDE DEF a, n
<1>4. Sound(n)
  BY <1>1, <1>2, <1>3
     DEF Sound, States, TimesPassed, PressOffered, LeaseOfSession, FeedbackGiven
<1> QED BY <1>4 DEF n

LEMMA TakeActionsSound ==
    ASSUME NEW s, Sound(s)
    PROVE  Sound(TakeActions(s))
<1>1. TakeActions(s) \in States
  BY TakeActionsType DEF Sound
<1> QED BY <1>1 DEF Sound, States, TimesPassed, PressOffered, LeaseOfSession, FeedbackGiven,
           TakeActions

LEMMA InitStateSound ==
    ASSUME NEW t \in Nat
    PROVE  Sound(InitState(t))
BY InitStateType
   DEF Sound, TimesPassed, PressOffered, LeaseOfSession, FeedbackGiven, InitState

-----------------------------------------------------------------------------
(* What a call other than BOOT's and the stack's start may change.  Ages     *)
(* is transitive, so each stage of Advance, and each operator on top of it,  *)
(* adds to it.                                                              *)

Counting(s) == s.press \in {"JOIN", "RESET"}

Ages(s, a) ==
    /\ s.last_now <= a.last_now
    /\ a.boot_down = s.boot_down
    /\ a.press_since = s.press_since
    /\ a.press \in {s.press, "IGNORED", "NONE"}
    /\ s.phase \in FinalPhases => a.phase = s.phase /\ a.pending \subseteq s.pending
    /\ s.phase \in ResetFlow => a.phase \in Onward(s.phase)
    /\ "START_STEERING" \in a.pending \ s.pending =>
           s.press = "JOIN" /\ a.last_now - s.press_since >= JOIN_HOLD /\ ~Counting(a)
    /\ "BEGIN_LOCAL_RESET" \in a.pending \ s.pending =>
           s.press = "RESET" /\ a.last_now - s.press_since >= RESET_HOLD /\ ~Counting(a)

\* The lease is armed, and the watchdog with it, in a boot the watchdog caused.
ArmedAgain(s) == s.phase = "READY" /\ s.boot_was_watchdog /\ s.lease_armed

LEMMA AgesTransitive ==
    ASSUME NEW s \in States, NEW b \in States, NEW a \in States, Ages(s, b), Ages(b, a)
    PROVE  Ages(s, a)
<1>1. s.phase \in ResetFlow => a.phase \in Onward(s.phase)
  BY DEF Ages, Onward, ResetFlow, ResultPhases, FinalPhases
<1>2. "START_STEERING" \in a.pending \ s.pending =>
           s.press = "JOIN" /\ a.last_now - s.press_since >= JOIN_HOLD /\ ~Counting(a)
  BY TimeFacts DEF Ages, States, Counting
<1>3. "BEGIN_LOCAL_RESET" \in a.pending \ s.pending =>
           s.press = "RESET" /\ a.last_now - s.press_since >= RESET_HOLD /\ ~Counting(a)
  BY TimeFacts DEF Ages, States, Counting
<1> QED BY <1>1, <1>2, <1>3 DEF Ages, States

LEMMA MonotonicAges ==
    ASSUME NEW s \in States, NEW t \in Nat
    PROVE  Ages(s, Monotonic(s, t)) /\ (ArmedAgain(Monotonic(s, t)) => ArmedAgain(s))
BY DEF Ages, Counting, ArmedAgain, States, Monotonic, Later, Onward, ResetFlow, ResultPhases

LEMMA AdvanceJoinAges ==
    ASSUME NEW s \in States
    PROVE  Ages(s, AdvanceJoin(s)) /\ (ArmedAgain(AdvanceJoin(s)) => ArmedAgain(s))
BY DEF Ages, Counting, ArmedAgain, States, AdvanceJoin, JoinDue, Accept, EnterPhase, Onward,
       ResetFlow, ResultPhases, FinalPhases

LEMMA AdvanceResetAges ==
    ASSUME NEW s \in States
    PROVE  Ages(s, AdvanceReset(s)) /\ (ArmedAgain(AdvanceReset(s)) => ArmedAgain(s))
BY DEF Ages, Counting, ArmedAgain, States, AdvanceReset, ResetDue, Accept, AcceptsReset,
       EnterPhase, Onward, ResetFlow, ResultPhases, FinalPhases

LEMMA AdvanceLeaveAges ==
    ASSUME NEW s \in States
    PROVE  Ages(s, AdvanceLeave(s)) /\ (ArmedAgain(AdvanceLeave(s)) => ArmedAgain(s))
BY DEF Ages, Counting, ArmedAgain, States, AdvanceLeave, ResultAt, Later, EnterPhase, Onward,
       ResetFlow, ResultPhases, FinalPhases

LEMMA AdvanceResultAges ==
    ASSUME NEW s \in States
    PROVE  Ages(s, AdvanceResult(s)) /\ (ArmedAgain(AdvanceResult(s)) => ArmedAgain(s))
BY DEF Ages, Counting, ArmedAgain, States, AdvanceResult, EnterPhase, Onward, ResetFlow,
       ResultPhases, FinalPhases

LEMMA AdvanceAges ==
    ASSUME NEW s \in States, NEW t \in Nat
    PROVE  Ages(s, Advance(s, t)) /\ (ArmedAgain(Advance(s, t)) => ArmedAgain(s))
<1> DEFINE m == Monotonic(s, t)
           j == AdvanceJoin(m)
           r == AdvanceReset(j)
           l == AdvanceLeave(r)
           a == AdvanceResult(l)
<1>1. m \in States /\ j \in States /\ r \in States /\ l \in States /\ a \in States
  BY MonotonicType, AdvanceJoinType, AdvanceResetType, AdvanceLeaveType, AdvanceResultType
<1>2. /\ Ages(s, m) /\ Ages(m, j) /\ Ages(j, r) /\ Ages(r, l) /\ Ages(l, a)
      /\ ArmedAgain(a) => ArmedAgain(s)
  BY <1>1, MonotonicAges, AdvanceJoinAges, AdvanceResetAges, AdvanceLeaveAges,
     AdvanceResultAges
<1> HIDE DEF m, j, r, l, a
<1>3. Ages(s, j)
  BY <1>1, <1>2, AgesTransitive
<1>4. Ages(s, r)
  BY <1>1, <1>2, <1>3, AgesTransitive
<1>5. Ages(s, l)
  BY <1>1, <1>2, <1>4, AgesTransitive
<1>6. Ages(s, a)
  BY <1>1, <1>2, <1>5, AgesTransitive
<1> QED BY <1>2, <1>6 DEF Advance, m, j, r, l, a

\* The part of a call that follows its Advance.
LEMMA AfterAdvance ==
    ASSUME NEW s \in States, NEW t \in Nat, NEW n \in States, Ages(Advance(s, t), n)
    PROVE  Ages(s, n)
BY AdvanceAges, AdvanceType, AgesTransitive

LEMMA JoinedAges ==
    ASSUME NEW s \in States, NEW t \in Nat
    PROVE  Ages(s, Joined(s, t)) /\ (ArmedAgain(Joined(s, t)) => ArmedAgain(s))
<1> DEFINE a == Advance(s, t)
           n == Joined(s, t)
<1>1. a \in States /\ n \in States
  BY AdvanceType, JoinedType
<1>2. Ages(a, n) /\ (ArmedAgain(n) => ArmedAgain(a))
  <2>1. CASE a.phase # "JOINING"
    <3> HIDE DEF a
    <3> QED BY <1>1, <2>1 DEF Joined, a, Ages, Counting, ArmedAgain, States, Onward,
                              ResetFlow, ResultPhases
  <2>2. CASE a.phase = "JOINING"
    <3>1. /\ n.phase = "POST_JOIN" /\ n.last_now = a.last_now
          /\ n.boot_down = a.boot_down /\ n.press_since = a.press_since
          /\ n.press \in {a.press, "IGNORED"} /\ n.pending = a.pending
      <4> HIDE DEF a
      <4> QED BY <1>1, <2>2 DEF Joined, EnterPhase, a, States
    <3> HIDE DEF a, n
    <3> QED BY <1>1, <2>2, <3>1 DEF Ages, Counting, ArmedAgain, States,
                                    ResetFlow, ResultPhases, FinalPhases
  <2> QED BY <2>1, <2>2
<1> QED BY <1>1, <1>2, AfterAdvance, AdvanceAges

LEMMA LeaveSucceededAges ==
    ASSUME NEW s \in States, NEW t \in Nat
    PROVE  Ages(s, LeaveSucceeded(s, t)) /\ (ArmedAgain(LeaveSucceeded(s, t)) => ArmedAgain(s))
<1> DEFINE a == Advance(s, t)
           b == [a EXCEPT !.leave_succeeded = TRUE, !.leave_succeeded_at = a.last_now]
           n == Advance(b, a.last_now)
<1>1. a \in States /\ a.last_now \in Nat
  BY AdvanceType DEF States
<1>2. b \in States /\ Ages(a, b) /\ (ArmedAgain(b) => ArmedAgain(a))
  <2> HIDE DEF a
  <2>1. b \in States
    BY <1>1 DEF States
  <2>2. /\ b.phase = a.phase /\ b.last_now = a.last_now /\ b.boot_down = a.boot_down
        /\ b.press_since = a.press_since /\ b.press = a.press /\ b.pending = a.pending
        /\ b.lease_armed = a.lease_armed /\ b.boot_was_watchdog = a.boot_was_watchdog
    BY <1>1 DEF States
  <2> HIDE DEF b
  <2>3. Ages(a, b)
    BY <1>1, <2>1, <2>2 DEF Ages, States, Onward, ResetFlow, ResultPhases
  <2>4. ArmedAgain(b) => ArmedAgain(a)
    BY <2>2 DEF ArmedAgain
  <2> QED BY <2>1, <2>3, <2>4
<1>3. n \in States /\ Ages(b, n) /\ (ArmedAgain(n) => ArmedAgain(b))
  <2> HIDE DEF a, b
  <2> QED BY <1>1, <1>2, AdvanceType, AdvanceAges
<1>4. Ages(a, n) /\ (ArmedAgain(n) => ArmedAgain(a))
  <2> HIDE DEF a, b, n
  <2> QED BY <1>1, <1>2, <1>3, AgesTransitive
<1>5. Ages(s, n) /\ Ages(s, a) /\ (ArmedAgain(a) => ArmedAgain(s))
  BY <1>3, <1>4, AfterAdvance, AdvanceAges
<1> QED BY <1>4, <1>5 DEF LeaveSucceeded

LEMMA NetworkLeftAges ==
    ASSUME NEW s \in States, NEW r \in BOOLEAN, NEW t \in Nat
    PROVE  Ages(s, NetworkLeft(s, r, t)) /\ (ArmedAgain(NetworkLeft(s, r, t)) => ArmedAgain(s))
<1> DEFINE a == Advance(s, t)
           n == NetworkLeft(s, r, t)
<1>1. a \in States /\ n \in States /\ a.last_now \in Nat
  BY AdvanceType, NetworkLeftType DEF States
<1>2. CASE a.phase = "LEAVING"
  <2>1. n = LeaveSucceeded(a, a.last_now)
    BY <1>2 DEF NetworkLeft, Disconnect, AwayPhase
  <2>2. Ages(a, n) /\ (ArmedAgain(n) => ArmedAgain(a))
    <3> HIDE DEF a, n
    <3> QED BY <1>1, <2>1, LeaveSucceededAges
  <2> QED BY <1>1, <2>2, AfterAdvance, AdvanceAges
<1>3. CASE a.phase # "LEAVING"
  <2>1. Ages(a, n) /\ (ArmedAgain(n) => ArmedAgain(a))
    <3> HIDE DEF a
    <3> QED BY <1>1, <1>3 DEF NetworkLeft, Disconnect, AwayPhase, EnterPhase, a, Ages, Counting, ArmedAgain, States,
                              Onward, ResetFlow, ResultPhases, FinalPhases
  <2> QED BY <1>1, <2>1, AfterAdvance, AdvanceAges
<1> QED BY <1>2, <1>3

\* Where the network is lost, no hold counts any more.
LEMMA LossMissed ==
    ASSUME NEW s \in States, NEW r \in BOOLEAN, NEW t \in Nat,
           NetworkLeft(s, r, t).phase = AwayPhase(r)
    PROVE  ~Counting(NetworkLeft(s, r, t))
<1> DEFINE a == Advance(s, t)
           n == NetworkLeft(s, r, t)
<1>1. a \in States /\ n \in States /\ a.last_now \in Nat
  BY AdvanceType, NetworkLeftType DEF States
<1>2. n.phase \in {"RESTORING", "UNPROVISIONED"}
  BY DEF AwayPhase
<1>3. ASSUME a.phase = "LEAVING" PROVE ~Counting(n)
  <2>1. Ages(a, n)
    BY <1>1, <1>3, LeaveSucceededAges DEF NetworkLeft
  <2>2. n.phase \in Onward("LEAVING")
    BY <1>3, <2>1 DEF Ages, ResetFlow
  <2> QED BY <1>2, <2>2 DEF Onward, ResetFlow, ResultPhases, FinalPhases
<1>4. ASSUME a.phase \in (ResetFlow \cup FinalPhases) \ {"LEAVING"} PROVE ~Counting(n)
  <2>1. n = a
    BY <1>4 DEF NetworkLeft
  <2> QED BY <1>2, <1>4, <2>1 DEF ResetFlow, ResultPhases, FinalPhases
<1>5. ASSUME a.phase \notin ResetFlow \cup FinalPhases PROVE ~Counting(n)
  <2>1. n = Disconnect(a, r) /\ a.phase # "LEAVING"
    BY <1>5 DEF NetworkLeft, ResetFlow
  <2> HIDE DEF a, n
  <2>2. n.press = "NONE"
    BY <1>1, <2>1 DEF Disconnect, EnterPhase, States
  <2> QED BY <2>2 DEF Counting
<1>6. ~Counting(n)
  <2> HIDE DEF a, n
  <2> QED BY <1>3, <1>4, <1>5
<1> QED BY <1>6

LEMMA ReadyAges ==
    ASSUME NEW s \in States, NEW t \in Nat
    PROVE  Ages(s, Ready(s, t))
<1> DEFINE a == Advance(s, t)
           n == Ready(s, t)
<1>1. a \in States /\ n \in States
  BY AdvanceType, ReadyType
<1>2. Ages(a, n)
  <2> HIDE DEF a
  <2> QED BY <1>1 DEF Ready, GrantLease, EnterPhase, a, Ages, Counting, States, Onward,
                      ResetFlow, ResultPhases, FinalPhases
<1> QED BY <1>1, <1>2, AfterAdvance

LEMMA LeasePingAges ==
    ASSUME NEW s \in States, NEW t \in Nat
    PROVE  Ages(s, LeasePing(s, t))
<1> DEFINE a == Advance(s, t)
           n == LeasePing(s, t)
<1>1. a \in States /\ n \in States
  BY AdvanceType, LeasePingType
<1>2. Ages(a, n)
  <2> HIDE DEF a
  <2> QED BY <1>1 DEF LeasePing, GrantLease, a, Ages, Counting, States, Onward,
                      ResetFlow, ResultPhases, FinalPhases
<1> QED BY <1>1, <1>2, AfterAdvance

LEMMA ForcedWipeArmedAges ==
    ASSUME NEW s \in States, NEW ok \in BOOLEAN, NEW t \in Nat
    PROVE  /\ Ages(s, ForcedWipeArmed(s, ok, t))
           /\ ArmedAgain(ForcedWipeArmed(s, ok, t)) => ArmedAgain(s)
<1> DEFINE a == Advance(s, t)
           n == ForcedWipeArmed(s, ok, t)
<1>1. a \in States /\ n \in States
  BY AdvanceType, ForcedWipeArmedType
<1>2. Ages(a, n) /\ (ArmedAgain(n) => ArmedAgain(a))
  <2> HIDE DEF a
  <2> QED BY <1>1 DEF ForcedWipeArmed, EnterPhase, a, Ages, Counting, ArmedAgain, States, Onward,
                      ResetFlow, ResultPhases, FinalPhases
<1> QED BY <1>1, <1>2, AfterAdvance, AdvanceAges

LEMMA GatewayEventAges ==
    ASSUME NEW s \in States, NEW b \in BOOLEAN, NEW t \in Nat
    PROVE  Ages(s, GatewayEvent(s, b, t)) /\ (ArmedAgain(GatewayEvent(s, b, t)) => ArmedAgain(s))
<1> DEFINE a == Advance(s, t)
           n == GatewayEvent(s, b, t)
<1>1. a \in States /\ n \in States
  BY AdvanceType, GatewayEventType
<1>2. Ages(a, n) /\ (ArmedAgain(n) => ArmedAgain(a))
  <2> HIDE DEF a
  <2> QED BY <1>1 DEF GatewayEvent, a, Ages, Counting, ArmedAgain, States, Onward,
                      ResetFlow, ResultPhases, FinalPhases
<1> QED BY <1>1, <1>2, AfterAdvance, AdvanceAges

LEMMA TakeActionsAges ==
    ASSUME NEW s \in States
    PROVE  Ages(s, TakeActions(s)) /\ (ArmedAgain(TakeActions(s)) => ArmedAgain(s))
BY DEF TakeActions, Ages, Counting, ArmedAgain, States, Onward, ResetFlow, ResultPhases

-----------------------------------------------------------------------------
(* The calls that count a hold anew or end one.                             *)

LEMMA StackStartedFacts ==
    ASSUME NEW s \in States, NEW f \in BOOLEAN, NEW w \in BOOLEAN, NEW t \in Nat,
           NEW n, n = StackStarted(s, f, w, t)
    PROVE  /\ s.last_now <= n.last_now
           /\ n.pending = s.pending
           /\ n.boot_down = s.boot_down
           /\ s.phase \in FinalPhases => n.phase = s.phase /\ (Counting(n) => Counting(s))
           /\ Counting(n) => \/ Counting(s) /\ n.press_since = s.press_since
                             \/ n.press_since = n.last_now
           /\ ~ArmedAgain(n)
<1> DEFINE m == Monotonic(s, t)
<1>1. /\ m \in States /\ s.last_now <= m.last_now /\ m.pending = s.pending
      /\ m.boot_down = s.boot_down
      /\ m.phase = s.phase /\ m.press = s.press /\ m.press_since = s.press_since
  BY MonotonicType DEF Monotonic, Later, States
<1>2. CASE m.phase \in FinalPhases
  <2>1. n = m
    BY <1>2 DEF StackStarted, Begin
  <2> HIDE DEF m
  <2> QED BY <1>1, <1>2, <2>1 DEF Counting, ArmedAgain, FinalPhases
<1>3. CASE m.phase \notin FinalPhases
  <2>1. /\ n.last_now = m.last_now /\ n.pending = m.pending /\ n.boot_down = m.boot_down
        /\ n.press = IF ~m.boot_down THEN "NONE" ELSE IF f THEN "JOIN" ELSE "RESET"
        /\ n.press_since = IF m.boot_down THEN m.last_now ELSE m.press_since
        /\ n.boot_was_watchdog = w
        /\ n.lease_armed = (~f /\ ~w)
    <3> HIDE DEF m
    <3> QED BY <1>1, <1>3 DEF StackStarted, Begin, EnterPhase, States, m
  <2> HIDE DEF m
  <2> QED BY <1>1, <1>3, <2>1 DEF Counting, ArmedAgain
<1> QED BY <1>2, <1>3

LEMMA StackRetryingFacts ==
    ASSUME NEW s \in States, NEW w \in BOOLEAN, NEW t \in Nat,
           NEW n, n = StackRetrying(s, w, t)
    PROVE  /\ s.last_now <= n.last_now
           /\ n.pending = s.pending
           /\ n.boot_down = s.boot_down
           /\ s.phase \in ResetFlow \cup FinalPhases => n.phase = s.phase
           /\ s.phase \in ResetFlow \cup FinalPhases \cup {"RESTORING"} =>
                  (Counting(n) => Counting(s))
           /\ Counting(n) => \/ Counting(s) /\ n.press_since = s.press_since
                             \/ n.press_since = n.last_now
           /\ ~ArmedAgain(n)
<1> DEFINE m == Monotonic(s, t)
<1>1. /\ m \in States /\ s.last_now <= m.last_now /\ m.pending = s.pending
      /\ m.boot_down = s.boot_down
      /\ m.phase = s.phase /\ m.press = s.press /\ m.press_since = s.press_since
  BY MonotonicType DEF Monotonic, Later, States
<1>2. CASE m.phase \in ResetFlow \cup FinalPhases
  <2>1. n = m
    BY <1>2 DEF StackRetrying, Retry
  <2> HIDE DEF m
  <2> QED BY <1>1, <1>2, <2>1 DEF Counting, ArmedAgain, FinalPhases, ResetFlow, ResultPhases
<1>3. CASE m.phase \notin ResetFlow \cup FinalPhases
  <2>1. /\ n.last_now = m.last_now /\ n.pending = m.pending /\ n.boot_down = m.boot_down
        /\ \/ n.press = m.press /\ n.press_since = m.press_since
           \/ m.phase # "RESTORING" /\ n.press_since = m.last_now
        /\ n.lease_armed = FALSE
    <3> HIDE DEF m
    <3> QED BY <1>1, <1>3 DEF StackRetrying, Retry, EnterPhase, States, m
  <2> HIDE DEF m
  <2> QED BY <1>1, <1>3, <2>1 DEF Counting, ArmedAgain
<1> QED BY <1>2, <1>3

LEMMA BootInputFacts ==
    ASSUME NEW s \in States, NEW d \in BOOLEAN, NEW t \in Nat,
           NEW a, a = Advance(s, t), NEW n, n = BootInput(s, d, t)
    PROVE  /\ Ages(s, a) /\ a \in States /\ (ArmedAgain(a) => ArmedAgain(s))
           /\ n.boot_down = d
           /\ d = s.boot_down => n = a
           /\ /\ n.last_now = a.last_now /\ n.phase = a.phase /\ n.pending = a.pending
              /\ n.lease_armed = a.lease_armed
              /\ n.boot_was_watchdog = a.boot_was_watchdog
           /\ d /\ ~s.boot_down /\ Counting(n) => n.press_since = n.last_now
           /\ ~d /\ s.boot_down => ~Counting(n)
<1>1. Ages(s, a) /\ a \in States /\ (ArmedAgain(a) => ArmedAgain(s))
  BY AdvanceType, AdvanceAges
<1>2. a.boot_down = s.boot_down /\ s.boot_down \in BOOLEAN /\ a.boot_down \in BOOLEAN
  BY <1>1 DEF Ages, States
<1>3. n = CASE d /\ ~a.boot_down -> BootPressed(a)
            [] ~d /\ a.boot_down -> BootReleased(a)
            [] OTHER             -> a
  BY DEF BootInput
<1>4. CASE d /\ ~a.boot_down
  <2>1. n = BootPressed(a)
    BY <1>3, <1>4
  <2>2. /\ n.boot_down = TRUE /\ n.last_now = a.last_now /\ n.phase = a.phase
        /\ n.pending = a.pending /\ n.lease_armed = a.lease_armed
        /\ n.boot_was_watchdog = a.boot_was_watchdog
        /\ n.press = "IGNORED" \/ n.press_since = a.last_now
    BY <1>1, <2>1 DEF BootPressed, States
  <2> QED BY <1>1, <1>2, <1>4, <2>2 DEF Counting
<1>5. CASE ~d /\ a.boot_down
  <2>1. n = BootReleased(a)
    BY <1>3, <1>5
  <2>2. /\ n.boot_down = FALSE /\ n.last_now = a.last_now /\ n.phase = a.phase
        /\ n.pending = a.pending /\ n.lease_armed = a.lease_armed
        /\ n.boot_was_watchdog = a.boot_was_watchdog /\ n.press = "NONE"
    BY <1>1, <2>1 DEF BootReleased, States
  <2> QED BY <1>1, <1>2, <1>5, <2>2 DEF Counting
<1>6. CASE d = a.boot_down
  <2>1. n = a
    BY <1>2, <1>3, <1>6
  <2> QED BY <1>1, <1>2, <1>6, <2>1
<1> QED BY <1>2, <1>4, <1>5, <1>6

-----------------------------------------------------------------------------
(* The inductive invariant: a sound record, and histories that agree with    *)
(* it.  A hold that counts began no earlier than BOOT went down, and there   *)
(* is none while the hold at hand is spent.                                 *)

BootHistory ==
    /\ downSince \in Nat
    /\ spent \in BOOLEAN
    /\ taken \in BOOLEAN
    /\ downSince <= ui.last_now
    /\ Counting(ui) => downSince <= ui.press_since
    /\ spent => ui.boot_down /\ ~Counting(ui)

IInv ==
    /\ Sound(ui)
    /\ BootHistory
    /\ heard \in BOOLEAN
    /\ NoWatchdogLoop

\* What a step must satisfy for the action properties.
StepOK ==
    /\ HeldLongEnough
    /\ Accepted => ~spent
    /\ StaysFinal
    /\ GoesOnward

LEMMA InitIInv == Init => IInv
<1> SUFFICES ASSUME Init PROVE IInv
  OBVIOUS
<1>1. Sound(ui)
  <2>1. \A u : u = InitState(0) => Sound(u)
    BY InitStateSound
  <2>2. ui = InitState(0)
    BY DEF Init
  <2> QED BY <2>1, <2>2
<1>2. ui.phase = "STARTING" /\ ui.press = "NONE" /\ ui.last_now = 0
  BY DEF Init, InitState
<1>3. downSince \in Nat /\ downSince <= ui.last_now
  BY <1>2 DEF Init
<1>4. ~Counting(ui) /\ spent = FALSE /\ taken = FALSE /\ heard = FALSE
  BY <1>2 DEF Init, Counting
<1>5. BootHistory /\ heard \in BOOLEAN
  BY <1>3, <1>4, Zenon DEF BootHistory
<1>6. NoWatchdogLoop
  BY <1>2 DEF NoWatchdogLoop
<1> QED BY <1>1, <1>5, <1>6, Zenon DEF IInv

LEMMA AgesStep ==
    ASSUME Sound(ui), BootHistory, Sound(ui)', Ages(ui, ui'),
           downSince' = downSince, NEW missed, missed => ui.boot_down /\ ~Counting(ui'),
           HoldGoesOn(missed, FALSE)
    PROVE  BootHistory' /\ StepOK
<1>1. ui \in States /\ ui' \in States
  BY DEF Sound
<1>2. HeldLongEnough
  <2>1. Counting(ui) => ui.boot_down /\ downSince <= ui.press_since
    BY DEF Sound, PressOffered, BootHistory, Counting
  <2>2. ui'.last_now \in Nat /\ ui.press_since \in Nat /\ downSince \in Nat
    BY <1>1 DEF States, BootHistory
  <2> QED BY <2>1, <2>2, TimeFacts DEF HeldLongEnough, Emitted, Ages, Counting
<1>3. Accepted => ~spent /\ ui.boot_down /\ ~Counting(ui')
  BY <1>1 DEF Accepted, Emitted, BootActions, Ages, Sound, PressOffered, BootHistory, Counting
<1>4. StaysFinal /\ GoesOnward
  BY DEF Ages, StaysFinal, GoesOnward, Emitted
<1>5. Counting(ui') => Counting(ui)
  BY DEF Ages, Counting
<1>6. spent' => ui'.boot_down /\ ~Counting(ui')
  BY <1>3, <1>5 DEF Ages, BootHistory, HoldGoesOn
<1>7. downSince' \in Nat /\ spent' \in BOOLEAN /\ taken' \in BOOLEAN
  BY DEF BootHistory, Accepted, HoldGoesOn
<1>8. downSince' <= ui'.last_now /\ (Counting(ui') => downSince' <= ui'.press_since)
  BY <1>1, <1>5 DEF Ages, BootHistory, States
<1> QED BY <1>2, <1>3, <1>4, <1>6, <1>7, <1>8 DEF BootHistory, StepOK, Counting

LEMMA StampsNat ==
    ASSUME ui \in States
    PROVE  Stamps \subseteq Nat
BY BoundAssumption DEF Stamps, States

LEMMA QuietStep ==
    ASSUME IInv, NEW n, Sound(n), Ages(ui, n), ArmedAgain(n) => ArmedAgain(ui), Quiet(n)
    PROVE  IInv' /\ StepOK
<1>1. Sound(ui)' /\ Ages(ui, ui') /\ downSince' = downSince /\ HoldGoesOn(FALSE, FALSE)
  BY DEF Quiet, Sound
<1>2. BootHistory' /\ StepOK
  BY <1>1, AgesStep DEF IInv
<1>3. heard' \in BOOLEAN /\ NoWatchdogLoop'
  BY DEF Quiet, IInv, NoWatchdogLoop, ArmedAgain
<1> QED BY <1>1, <1>2, <1>3 DEF IInv


LEMMA StackStartedStep ==
    ASSUME IInv, NEW t \in Stamps, StackStartedCall(t)
    PROVE  IInv' /\ StepOK
<1> PICK f \in BOOLEAN, w \in BOOLEAN :
        ui' = StackStarted(ui, f, w, t)
  BY DEF StackStartedCall
<1>1. t \in Nat /\ ui \in States
  BY StampsNat DEF IInv, Sound
<1>2. Sound(ui)' /\ ui' \in States
  BY <1>1, StackStartedSound DEF IInv, Sound
<1>3. /\ ui.last_now <= ui'.last_now
      /\ ui'.pending = ui.pending /\ ui'.boot_down = ui.boot_down
      /\ ui.phase \in FinalPhases => ui'.phase = ui.phase /\ (Counting(ui') => Counting(ui))
      /\ Counting(ui') => \/ Counting(ui) /\ ui'.press_since = ui.press_since
                          \/ ui'.press_since = ui'.last_now
      /\ ~ArmedAgain(ui')
  BY <1>1, StackStartedFacts
<1>4. /\ HoldGoesOn(FALSE, ui.phase \notin FinalPhases)
      /\ heard' = FALSE /\ downSince' = downSince
  BY DEF StackStartedCall
<1>5. downSince' \in Nat /\ downSince' <= ui'.last_now
      /\ (Counting(ui') => downSince' <= ui'.press_since)
  BY <1>1, <1>2, <1>3, <1>4 DEF IInv, BootHistory, States
<1>6. BootHistory' /\ heard' \in BOOLEAN
  <2>1. ~Accepted
    BY <1>3 DEF Accepted, Emitted
  <2>2. spent' => spent /\ ui.phase \in FinalPhases
    BY <1>4, <2>1 DEF HoldGoesOn
  <2>3. spent' \in BOOLEAN /\ taken' \in BOOLEAN
    BY <1>4 DEF HoldGoesOn, Accepted, IInv, BootHistory
  <2>4. spent' => ui'.boot_down /\ ~Counting(ui')
    BY <1>3, <2>2 DEF IInv, BootHistory
  <2> QED BY <1>4, <1>5, <2>3, <2>4, Zenon DEF BootHistory, Counting
<1>7. NoWatchdogLoop'
  BY <1>3 DEF NoWatchdogLoop, ArmedAgain
<1>8. StepOK
  BY <1>3 DEF StepOK, HeldLongEnough, Accepted, Emitted, StaysFinal, GoesOnward
<1> QED BY <1>2, <1>6, <1>7, <1>8 DEF IInv

LEMMA StackRetryingStep ==
    ASSUME IInv, NEW t \in Stamps, StackRetryingCall(t)
    PROVE  IInv' /\ StepOK
<1> PICK w \in BOOLEAN : ui' = StackRetrying(ui, w, t)
  BY DEF StackRetryingCall
<1>1. t \in Nat /\ ui \in States
  BY StampsNat DEF IInv, Sound
<1>2. Sound(ui)' /\ ui' \in States
  BY <1>1, StackRetryingSound DEF IInv, Sound
<1>3. /\ ui.last_now <= ui'.last_now
      /\ ui'.pending = ui.pending /\ ui'.boot_down = ui.boot_down
      /\ ui.phase \in ResetFlow \cup FinalPhases => ui'.phase = ui.phase
      /\ ui.phase \in ResetFlow \cup FinalPhases \cup {"RESTORING"} =>
             (Counting(ui') => Counting(ui))
      /\ Counting(ui') => \/ Counting(ui) /\ ui'.press_since = ui.press_since
                          \/ ui'.press_since = ui'.last_now
      /\ ~ArmedAgain(ui')
  BY <1>1, StackRetryingFacts
<1>4. /\ HoldGoesOn(FALSE, ui.phase \notin ResetFlow \cup FinalPhases \cup {"RESTORING"})
      /\ heard' = heard /\ downSince' = downSince
  BY DEF StackRetryingCall
<1>5. downSince' \in Nat /\ downSince' <= ui'.last_now
      /\ (Counting(ui') => downSince' <= ui'.press_since)
  BY <1>1, <1>2, <1>3, <1>4 DEF IInv, BootHistory, States
<1>6. BootHistory' /\ heard' \in BOOLEAN
  <2>1. ~Accepted
    BY <1>3 DEF Accepted, Emitted
  <2>2. spent' => spent /\ ui.phase \in ResetFlow \cup FinalPhases \cup {"RESTORING"}
    BY <1>4, <2>1 DEF HoldGoesOn
  <2>3. spent' \in BOOLEAN /\ taken' \in BOOLEAN
    BY <1>4 DEF HoldGoesOn, Accepted, IInv, BootHistory
  <2>4. spent' => ui'.boot_down /\ ~Counting(ui')
    BY <1>3, <2>2 DEF IInv, BootHistory
  <2> QED BY <1>4, <1>5, <2>3, <2>4, Zenon DEF BootHistory, Counting, IInv
<1>7. NoWatchdogLoop'
  BY <1>3 DEF NoWatchdogLoop, ArmedAgain
<1>8. StepOK
  BY <1>3 DEF StepOK, HeldLongEnough, Accepted, Emitted, StaysFinal, GoesOnward, Onward,
              ResetFlow, ResultPhases
<1> QED BY <1>2, <1>6, <1>7, <1>8 DEF IInv

\* What Advance does at the beginning of a BOOT call, and what the call adds.
LEMMA BootStep ==
    ASSUME IInv, NEW t \in Stamps, NEW d \in BOOLEAN, ui' = BootInput(ui, d, t)
    PROVE  /\ Sound(ui)' /\ StepOK
           /\ ui.last_now <= ui'.last_now
           /\ NoWatchdogLoop' \/ heard' # heard
           /\ ui'.boot_down = d
           /\ Accepted => ui.boot_down
           /\ d = ui.boot_down /\ Counting(ui') =>
                  Counting(ui) /\ ui'.press_since = ui.press_since /\ ~Accepted
           /\ d /\ ~ui.boot_down /\ Counting(ui') => ui'.press_since = ui'.last_now
           /\ ~d => ~Counting(ui')
<1> DEFINE a == Advance(ui, t)
<1>1. t \in Nat /\ ui \in States
  BY StampsNat DEF IInv, Sound
<1>2. Sound(ui)' /\ ui' \in States
  BY <1>1, BootInputSound DEF IInv, Sound
<1>3. /\ Ages(ui, a) /\ a \in States /\ (ArmedAgain(a) => ArmedAgain(ui))
      /\ ui'.boot_down = d
      /\ d = ui.boot_down => ui' = a
      /\ ui'.last_now = a.last_now /\ ui'.phase = a.phase /\ ui'.pending = a.pending
      /\ ui'.lease_armed = a.lease_armed
      /\ ui'.boot_was_watchdog = a.boot_was_watchdog
      /\ d /\ ~ui.boot_down /\ Counting(ui') => ui'.press_since = ui'.last_now
      /\ ~d /\ ui.boot_down => ~Counting(ui')
  BY <1>1, BootInputFacts
<1> HIDE DEF a
<1>4. Counting(ui) => ui.boot_down /\ downSince <= ui.press_since
  BY DEF IInv, Sound, PressOffered, BootHistory, Counting
<1>5. HeldLongEnough
  <2>1. /\ ui'.last_now \in Nat /\ ui.press_since \in Nat /\ downSince \in Nat
    BY <1>1, <1>2 DEF States, IInv, BootHistory
  <2> QED BY <1>3, <1>4, <2>1, TimeFacts DEF HeldLongEnough, Emitted, Ages, Counting
<1>6. Accepted => Counting(ui) /\ ~Counting(a)
  BY <1>3 DEF Accepted, Emitted, BootActions, Ages, Counting
<1>7. Accepted => ~spent
  BY <1>6 DEF IInv, BootHistory
<1>8. StaysFinal /\ GoesOnward
  BY <1>3 DEF Ages, StaysFinal, GoesOnward, Emitted
<1>9. NoWatchdogLoop' \/ heard' # heard
  BY <1>3 DEF NoWatchdogLoop, ArmedAgain, IInv
<1>10. ui.last_now <= ui'.last_now
  BY <1>3 DEF Ages
<1>11. d = ui.boot_down /\ Counting(ui') =>
          Counting(ui) /\ ui'.press_since = ui.press_since /\ ~Accepted
  BY <1>3, <1>6 DEF Ages, Counting
<1>12. ~d => ~Counting(ui')
  BY <1>2, <1>3 DEF Sound, PressOffered, Counting
<1>13. StepOK
  BY <1>5, <1>7, <1>8 DEF StepOK
<1>14. Accepted => ui.boot_down
  BY <1>4, <1>6
<1>15. ui'.boot_down = d /\ (d /\ ~ui.boot_down /\ Counting(ui') => ui'.press_since = ui'.last_now)
  BY <1>3
<1> QED BY <1>2, <1>9, <1>10, <1>11, <1>12, <1>13, <1>14, <1>15, Zenon

LEMMA BootPressedStep ==
    ASSUME IInv, NEW t \in Stamps, BootPressedCall(t)
    PROVE  IInv' /\ StepOK
<1>1. /\ Sound(ui)' /\ StepOK
      /\ ui.last_now <= ui'.last_now
      /\ NoWatchdogLoop' \/ heard' # heard
      /\ ui'.boot_down = TRUE
      /\ Accepted => ui.boot_down
      /\ ui.boot_down = TRUE /\ Counting(ui') =>
             Counting(ui) /\ ui'.press_since = ui.press_since /\ ~Accepted
      /\ ~ui.boot_down /\ Counting(ui') => ui'.press_since = ui'.last_now
  BY BootStep DEF BootPressedCall
<1>2. /\ downSince' = IF ui.boot_down THEN downSince ELSE ui'.last_now
      /\ HoldGoesOn(~ui.boot_down /\ ~Offers(ui'.phase), FALSE) /\ heard' = heard
  BY DEF BootPressedCall
<1>3. ui.boot_down \in BOOLEAN /\ ui.last_now \in Nat /\ ui'.last_now \in Nat
  BY <1>1 DEF IInv, Sound, States
<1>4. /\ downSince' \in Nat /\ downSince' <= ui'.last_now
      /\ Counting(ui') => downSince' <= ui'.press_since
  BY <1>1, <1>2, <1>3 DEF IInv, BootHistory
<1>5. spent' \in BOOLEAN /\ taken' \in BOOLEAN /\ (spent' => ~Counting(ui'))
  <2>1. spent => ui.boot_down = TRUE /\ ~Counting(ui)
    BY <1>3 DEF IInv, BootHistory
  <2>2. Accepted => ui.boot_down = TRUE
    BY <1>1, <1>3
  <2>3. spent' => Accepted \/ spent \/ ~Offers(ui'.phase)
    BY <1>2 DEF HoldGoesOn
  <2>4. spent' \in BOOLEAN /\ taken' \in BOOLEAN
    BY <1>2 DEF HoldGoesOn, Accepted, IInv, BootHistory
  <2>5. Counting(ui') => Offers(ui'.phase)
    BY <1>1 DEF Sound, PressOffered, Counting, Offers
  <2> QED BY <1>1, <2>1, <2>2, <2>3, <2>4, <2>5
<1>6. BootHistory'
  BY <1>1, <1>4, <1>5, Zenon DEF BootHistory, Counting
<1> QED BY <1>1, <1>2, <1>6 DEF IInv

LEMMA BootReleasedStep ==
    ASSUME IInv, NEW t \in Stamps, BootReleasedCall(t)
    PROVE  IInv' /\ StepOK
<1>1. /\ Sound(ui)' /\ StepOK
      /\ ui.last_now <= ui'.last_now
      /\ NoWatchdogLoop' \/ heard' # heard
      /\ ~Counting(ui')
  BY BootStep DEF BootReleasedCall
<1>2. downSince' = downSince /\ spent' = FALSE /\ taken' = FALSE /\ heard' = heard
  BY DEF BootReleasedCall
<1>3. downSince' \in Nat /\ downSince' <= ui'.last_now
  BY <1>1, <1>2 DEF IInv, BootHistory, Sound, States
<1>4. BootHistory'
  BY <1>1, <1>2, <1>3, Zenon DEF BootHistory, Counting
<1> QED BY <1>1, <1>2, <1>4 DEF IInv

LEMMA SupervisorStep ==
    ASSUME IInv, NEW t \in Stamps, ReadyCall(t) \/ LeasePingCall(t)
    PROVE  IInv' /\ StepOK
<1>1. t \in Nat /\ ui \in States /\ Sound(ui)
  BY StampsNat DEF IInv, Sound
<1>2. Sound(ui)' /\ Ages(ui, ui')
  BY <1>1, ReadySound, LeasePingSound, ReadyAges, LeasePingAges DEF ReadyCall, LeasePingCall
<1>3. downSince' = downSince /\ HoldGoesOn(FALSE, FALSE) /\ heard' = TRUE
  BY DEF ReadyCall, LeasePingCall
<1>4. BootHistory' /\ StepOK
  BY <1>2, <1>3, AgesStep DEF IInv
<1>5. heard' \in BOOLEAN /\ NoWatchdogLoop'
  BY <1>3 DEF NoWatchdogLoop
<1> QED BY <1>2, <1>4, <1>5 DEF IInv

\* A loss of the network takes away what a hold was for.
LEMMA NetworkLeftStep ==
    ASSUME IInv, NEW t \in Stamps, NetworkLeftCall(t)
    PROVE  IInv' /\ StepOK
<1> PICK r \in BOOLEAN :
        /\ ui' = NetworkLeft(ui, r, t)
        /\ HoldGoesOn(ui.boot_down /\ ui'.phase = AwayPhase(r), FALSE)
  BY DEF NetworkLeftCall
<1>1. t \in Nat /\ ui \in States /\ Sound(ui)
  BY StampsNat DEF IInv, Sound
<1>2. Sound(ui)' /\ Ages(ui, ui') /\ (ArmedAgain(ui') => ArmedAgain(ui))
  BY <1>1, NetworkLeftSound, NetworkLeftAges
<1>3. ui'.phase = AwayPhase(r) => ~Counting(ui')
  BY <1>1, LossMissed
<1>4. downSince' = downSince /\ heard' = heard
  BY DEF NetworkLeftCall
<1>5. BootHistory' /\ StepOK
  BY <1>2, <1>3, <1>4, AgesStep DEF IInv
<1>6. heard' \in BOOLEAN /\ NoWatchdogLoop'
  BY <1>2, <1>4 DEF IInv, NoWatchdogLoop, ArmedAgain
<1> QED BY <1>2, <1>5, <1>6 DEF IInv

\* Every step of the machine, one case per call.
LEMMA NextStep ==
    ASSUME IInv, Next
    PROVE  IInv' /\ StepOK
<1>1. Sound(ui) /\ ui \in States
  BY DEF IInv, Sound
<1>2. CASE TakeActionsCall
  BY <1>1, <1>2, TakeActionsSound, TakeActionsAges, QuietStep DEF TakeActionsCall
<1>3. ASSUME NEW t \in Stamps, Call(t) PROVE IInv' /\ StepOK
  <2>0. t \in Nat
    BY <1>1, StampsNat
  <2>1. CASE StackStartedCall(t)
    BY <2>1, StackStartedStep
  <2>2. CASE StackRetryingCall(t)
    BY <2>2, StackRetryingStep
  <2>3. CASE BootPressedCall(t)
    BY <2>3, BootPressedStep
  <2>4. CASE BootReleasedCall(t)
    BY <2>4, BootReleasedStep
  <2>5. CASE JoinedCall(t)
    BY <1>1, <2>0, <2>5, JoinedSound, JoinedAges, QuietStep DEF JoinedCall
  <2>6. CASE ReadyCall(t) \/ LeasePingCall(t)
    BY <2>6, SupervisorStep
  <2>7. CASE NetworkLeftCall(t)
    BY <2>7, NetworkLeftStep
  <2>8. CASE LeaveSucceededCall(t)
    BY <1>1, <2>0, <2>8, LeaveSucceededSound, LeaveSucceededAges, QuietStep
       DEF LeaveSucceededCall
  <2>9. CASE ForcedWipeArmedCall(t)
    BY <1>1, <2>0, <2>9, ForcedWipeArmedSound, ForcedWipeArmedAges, QuietStep
       DEF ForcedWipeArmedCall
  <2>10. CASE GatewayEventCall(t)
    BY <1>1, <2>0, <2>10, GatewayEventSound, GatewayEventAges, QuietStep DEF GatewayEventCall
  <2>11. CASE AdvanceCall(t)
    BY <1>1, <2>0, <2>11, AdvanceSound, AdvanceAges, QuietStep DEF AdvanceCall
  <2> QED BY <1>3, <2>1, <2>2, <2>3, <2>4, <2>5, <2>6, <2>7, <2>8, <2>9, <2>10, <2>11 DEF Call
<1> QED BY <1>2, <1>3 DEF Next

LEMMA StutterStep ==
    ASSUME IInv, UNCHANGED vars
    PROVE  IInv'
BY DEF vars, IInv, BootHistory, NoWatchdogLoop

-----------------------------------------------------------------------------
(* The theorems.                                                            *)

\* IInv holds in every state of every behaviour: the state record of
\* cr11_ui_state.c stays sound, and the histories agree with it.
THEOREM InductiveInvariant == Spec => []IInv
<1>1. IInv /\ [Next]_vars => IInv'
  BY NextStep, StutterStep
<1> QED BY InitIInv, <1>1, PTL DEF Spec

\* The record never leaves its type, whatever calls are made on it and in
\* whatever order.
THEOREM TypeCorrect == Spec => []TypeOK
<1>1. IInv => TypeOK
  BY DEF IInv, Sound, BootHistory, TypeOK
<1> QED BY InductiveInvariant, <1>1, PTL

\* No time the code subtracts from its clock lies in the future, so that no
\* unsigned difference wraps around.
THEOREM NoUnderflowTheorem == Spec => []NoUnderflow
<1>1. IInv => NoUnderflow
  BY DEF IInv, Sound, NoUnderflow
<1> QED BY InductiveInvariant, <1>1, PTL

\* A counting hold always counts for the action of the present phase.
THEOREM PressTheorem == Spec => []PressMatchesPhase
<1>1. IInv => PressMatchesPhase
  BY DEF IInv, Sound, PressMatchesPhase
<1> QED BY InductiveInvariant, <1>1, PTL

\* No lease outlives the stay in READY it was granted in.
THEOREM LeaseTheorem == Spec => []LeaseBelongsToSession
<1>1. IInv => LeaseBelongsToSession
  BY DEF IInv, Sound, LeaseBelongsToSession
<1> QED BY InductiveInvariant, <1>1, PTL

\* After a watchdog reset the lease is armed only once the supervisor spoke.
THEOREM WatchdogLoopTheorem == Spec => []NoWatchdogLoop
<1>1. IInv => NoWatchdogLoop
  BY DEF IInv
<1> QED BY InductiveInvariant, <1>1, PTL

\* The action properties: every step from a state of IInv is a StepOK step.
LEMMA Steps == Spec => [][StepOK]_vars
<1>1. IInv /\ [Next]_vars => [StepOK]_vars
  BY NextStep
<1> QED BY InductiveInvariant, <1>1, PTL DEF Spec

\* No action without a hold of its full length.
THEOREM HoldTheorem == Spec => HoldBeforeAction
<1>1. [StepOK]_vars => [HeldLongEnough]_vars
  BY DEF StepOK
<1> QED BY Steps, <1>1, PTL DEF HoldBeforeAction

\* A hold that has had its effect, that began in vain or that lost its network has
\* no effect until it is released or counted anew by the stack's start or retry.
THEOREM SpentHoldTheorem == Spec => SpentHoldStaysSpent
<1>1. [StepOK]_vars => [Accepted => ~spent]_vars
  BY DEF StepOK
<1> QED BY Steps, <1>1, PTL DEF SpentHoldStaysSpent

\* TERMINAL and ERROR are left only by a power cycle.
THEOREM FinalTheorem == Spec => FinalIsFinal
<1>1. [StepOK]_vars => [StaysFinal]_vars
  BY DEF StepOK
<1> QED BY Steps, <1>1, PTL DEF FinalIsFinal

\* Only a start of the stack interrupts a local reset.
THEOREM ResetTheorem == Spec => ResetOnlyForward
<1>1. [StepOK]_vars => [GoesOnward]_vars
  BY DEF StepOK
<1> QED BY Steps, <1>1, PTL DEF ResetOnlyForward


-----------------------------------------------------------------------------
(* Records.  What is shown of a state changes as one of the updates that     *)
(* UiPhases is written in.                                                   *)

\* What is shown of n is what is shown of s, but for the phase.
LEMMA ShownTo ==
    ASSUME NEW s \in States, NEW n \in States, NEW phase, n.phase = phase,
           n.pending = s.pending, n.leave_succeeded = s.leave_succeeded,
           n.lease_armed = s.lease_armed, n.boot_was_watchdog = s.boot_was_watchdog
    PROVE  Shown(n) = Promise!To(Shown(s), phase)
BY DEF Shown, Promise!To

LEMMA ShownAskFor ==
    ASSUME NEW s \in States, NEW n \in States, NEW phase, NEW action, n.phase = phase,
           n.pending = s.pending \cup {action}, n.leave_succeeded = s.leave_succeeded,
           n.lease_armed = s.lease_armed, n.boot_was_watchdog = s.boot_was_watchdog
    PROVE  Shown(n) = Promise!AskFor(Shown(s), phase, action)
<1> DEFINE pending == s.pending \cup {action}
<1>1. Promise!AskFor(Shown(s), phase, action)
        = [Shown(s) EXCEPT !.phase = phase, !.pending = pending]
  BY DEF Shown, Promise!AskFor
<1>2. n.pending = pending
  OBVIOUS
<1> HIDE DEF pending
<1> QED BY <1>1, <1>2 DEF Shown

LEMMA ShownSame ==
    ASSUME NEW s \in States, NEW n \in States, n.phase = s.phase,
           n.pending = s.pending, n.leave_succeeded = s.leave_succeeded,
           n.lease_armed = s.lease_armed, n.boot_was_watchdog = s.boot_was_watchdog
    PROVE  Shown(n) = Shown(s)
BY DEF Shown

LEMMA ShownLeft ==
    ASSUME NEW s, NEW n, n.phase = s.phase,
           n.pending = s.pending, NEW left, n.leave_succeeded = left,
           n.lease_armed = s.lease_armed, n.boot_was_watchdog = s.boot_was_watchdog
    PROVE  Shown(n) = [Shown(s) EXCEPT !.left = left]
BY DEF Shown

\* The fields of what is shown.
LEMMA ShownFields ==
    ASSUME NEW s
    PROVE  /\ Shown(s).phase = s.phase
           /\ Shown(s).pending = s.pending
           /\ Shown(s).left = s.leave_succeeded
           /\ Shown(s).lease = s.lease_armed
           /\ Shown(s).watchdog = s.boot_was_watchdog
BY DEF Shown

\* What may be due, by the phase.
LEMMA DueViews ==
    ASSUME NEW p
    PROVE  /\ p.phase = "UNPROVISIONED" =>
                Promise!Due(p) = {Promise!AskFor(p, "JOINING", "START_STEERING")}
           /\ AcceptsReset(p.phase) =>
                Promise!Due(p) = {[Promise!AskFor(p, "LEAVING", "BEGIN_LOCAL_RESET")
                                      EXCEPT !.left = FALSE]}
           /\ p.phase = "LEAVING" /\ p.left =>
                Promise!Due(p) = {Promise!To(p, "RESULT_GRACEFUL"), Promise!To(p, "TERMINAL")}
           /\ p.phase = "LEAVING" /\ ~p.left =>
                Promise!Due(p) = {Promise!AskFor(p, "FORCE_PENDING", "ARM_FORCED_WIPE")}
           /\ p.phase \in ResultPhases =>
                Promise!Due(p) = {Promise!To(p, "TERMINAL")}
<1> USE DEF Promise!AcceptsReset, AcceptsReset, Promise!ResultPhases, ResultPhases
<1>1. p.phase = "UNPROVISIONED" =>
        Promise!Due(p) = {Promise!AskFor(p, "JOINING", "START_STEERING")}
  BY DEF Promise!Due
<1>2. AcceptsReset(p.phase) =>
        Promise!Due(p) = {[Promise!AskFor(p, "LEAVING", "BEGIN_LOCAL_RESET")
                              EXCEPT !.left = FALSE]}
  BY DEF Promise!Due
<1>3. p.phase = "LEAVING" =>
        Promise!Due(p) = IF p.left
                         THEN {Promise!To(p, "RESULT_GRACEFUL"), Promise!To(p, "TERMINAL")}
                         ELSE {Promise!AskFor(p, "FORCE_PENDING", "ARM_FORCED_WIPE")}
  BY DEF Promise!Due
<1>4. p.phase \in ResultPhases => Promise!Due(p) = {Promise!To(p, "TERMINAL")}
  BY DEF Promise!Due
<1> QED BY <1>1, <1>2, <1>3, <1>4, Zenon

-----------------------------------------------------------------------------
(* Advance is a drift.  The four stages of Advance exclude each other by the *)
(* phase, but for a leave that ends and whose result is over as well.        *)

\* A stage that is of another phase changes nothing.
LEMMA IdleStages ==
    ASSUME NEW s \in States
    PROVE  /\ s.phase # "UNPROVISIONED" => AdvanceJoin(s) = s
           /\ ~AcceptsReset(s.phase) => AdvanceReset(s) = s
           /\ s.phase # "LEAVING" => AdvanceLeave(s) = s
           /\ s.phase \notin ResultPhases => AdvanceResult(s) = s
BY DEF AdvanceJoin, JoinDue, AdvanceReset, ResetDue, AdvanceLeave, AdvanceResult

LEMMA JoinDrift ==
    ASSUME NEW s \in States, s.phase = "UNPROVISIONED"
    PROVE  /\ Shown(AdvanceJoin(s)) \in Promise!Drift(Shown(s))
           /\ AdvanceJoin(s).phase \in {"UNPROVISIONED", "JOINING"}
<1>1. CASE ~JoinDue(s)
  BY <1>1 DEF AdvanceJoin, Promise!Drift
<1>2. CASE JoinDue(s)
  <2> DEFINE n == AdvanceJoin(s)
  <2>1. n = Accept(s, "JOINING", "START_STEERING")
    BY <1>2 DEF AdvanceJoin
  <2>2. n \in States
    BY AdvanceJoinType
  <2> HIDE DEF n
  <2>3. /\ n.phase = "JOINING" /\ n.pending = s.pending \cup {"START_STEERING"}
        /\ n.leave_succeeded = s.leave_succeeded
        /\ n.lease_armed = s.lease_armed /\ n.boot_was_watchdog = s.boot_was_watchdog
    BY <2>1 DEF Accept, EnterPhase, States
  <2>4. Shown(n) = Promise!AskFor(Shown(s), "JOINING", "START_STEERING")
    BY <2>2, <2>3, ShownAskFor
  <2>5. Promise!AskFor(Shown(s), "JOINING", "START_STEERING") \in Promise!Due(Shown(s))
    BY ShownFields, DueViews, Zenon
  <2> QED BY <2>3, <2>4, <2>5 DEF Promise!Drift, n
<1> QED BY <1>1, <1>2

LEMMA ResetDrift ==
    ASSUME NEW s \in States, AcceptsReset(s.phase)
    PROVE  /\ Shown(AdvanceReset(s)) \in Promise!Drift(Shown(s))
           /\ \/ AdvanceReset(s) = s
              \/ /\ AdvanceReset(s).phase = "LEAVING"
                 /\ ~AdvanceReset(s).leave_succeeded
                 /\ AdvanceReset(s).leave_started = AdvanceReset(s).last_now
<1>1. CASE ~ResetDue(s)
  BY <1>1 DEF AdvanceReset, Promise!Drift
<1>2. CASE ResetDue(s)
  <2> DEFINE n == AdvanceReset(s)
             b == Accept(s, "LEAVING", "BEGIN_LOCAL_RESET")
  <2>1. n = [b EXCEPT !.leave_started = s.last_now, !.leave_succeeded = FALSE]
    BY <1>2 DEF AdvanceReset
  <2>2. n \in States /\ b \in States
    BY AdvanceResetType, AcceptType DEF Phases, Actions
  <2>3. /\ b.phase = "LEAVING" /\ b.pending = s.pending \cup {"BEGIN_LOCAL_RESET"}
        /\ b.leave_succeeded = s.leave_succeeded /\ b.last_now = s.last_now
        /\ b.lease_armed = s.lease_armed /\ b.boot_was_watchdog = s.boot_was_watchdog
    BY DEF Accept, EnterPhase, States
  <2> HIDE DEF n, b
  <2>4. /\ n.phase = b.phase /\ n.pending = b.pending /\ n.last_now = b.last_now
        /\ n.leave_started = s.last_now /\ n.leave_succeeded = FALSE
        /\ n.lease_armed = b.lease_armed /\ n.boot_was_watchdog = b.boot_was_watchdog
    BY <2>1, <2>2 DEF States
  <2>5. Shown(b) = Promise!AskFor(Shown(s), "LEAVING", "BEGIN_LOCAL_RESET")
    BY <2>2, <2>3, ShownAskFor
  <2>6. Shown(n) = [Shown(b) EXCEPT !.left = FALSE]
    BY <2>4, ShownLeft
  <2>7. [Promise!AskFor(Shown(s), "LEAVING", "BEGIN_LOCAL_RESET") EXCEPT !.left = FALSE]
          \in Promise!Due(Shown(s))
    BY ShownFields, DueViews, Zenon
  <2> QED BY <2>3, <2>4, <2>5, <2>6, <2>7 DEF Promise!Drift, n
<1> QED BY <1>1, <1>2

LEMMA LeaveDrift ==
    ASSUME NEW s, Sound(s), s.phase = "LEAVING"
    PROVE  /\ Shown(AdvanceLeave(s)) \in Promise!Drift(Shown(s))
           /\ \/ AdvanceLeave(s) = s
              \/ s.leave_succeeded /\ AdvanceLeave(s).phase = "RESULT_GRACEFUL"
              \/ AdvanceLeave(s).phase = "FORCE_PENDING"
<1> DEFINE n == AdvanceLeave(s)
<1>1. s \in States /\ n \in States
  BY AdvanceLeaveType DEF Sound
<1>2. CASE n = s
  BY <1>2 DEF Promise!Drift
<1>3. CASE s.leave_succeeded /\ n # s
  <2>1. n = EnterPhase(s, "RESULT_GRACEFUL", ResultAt(s))
    BY <1>3 DEF AdvanceLeave
  <2>2. Shown(n) = Promise!To(Shown(s), "RESULT_GRACEFUL") /\ n.phase = "RESULT_GRACEFUL"
    <3> HIDE DEF n
    <3>1. /\ n.phase = "RESULT_GRACEFUL" /\ n.pending = s.pending
          /\ n.leave_succeeded = s.leave_succeeded
          /\ n.lease_armed = s.lease_armed /\ n.boot_was_watchdog = s.boot_was_watchdog
      BY <1>1, <2>1 DEF EnterPhase, States
    <3> QED BY <1>1, <3>1, ShownTo
  <2>3. Promise!To(Shown(s), "RESULT_GRACEFUL") \in Promise!Due(Shown(s))
    BY <1>3, ShownFields, DueViews, Zenon
  <2> QED BY <1>3, <2>2, <2>3 DEF Promise!Drift
<1>4. CASE ~s.leave_succeeded /\ n # s
  <2> DEFINE e == EnterPhase(s, "FORCE_PENDING", s.last_now)
  <2>1. n = [e EXCEPT !.pending = @ \cup {"ARM_FORCED_WIPE"}]
    BY <1>4 DEF AdvanceLeave
  <2>2. /\ e \in States /\ e.phase = "FORCE_PENDING" /\ e.pending = s.pending
        /\ e.leave_succeeded = s.leave_succeeded
        /\ e.lease_armed = s.lease_armed /\ e.boot_was_watchdog = s.boot_was_watchdog
    <3>1. "FORCE_PENDING" \in Phases /\ s.last_now \in Nat
      BY <1>1 DEF States, Phases
    <3>2. e \in States
      BY <1>1, <3>1, EnterPhaseType
    <3> QED BY <1>1, <3>2 DEF EnterPhase, States
  <2> HIDE DEF n, e
  <2>3. /\ n.phase = "FORCE_PENDING" /\ n.pending = s.pending \cup {"ARM_FORCED_WIPE"}
        /\ n.leave_succeeded = s.leave_succeeded
        /\ n.lease_armed = s.lease_armed /\ n.boot_was_watchdog = s.boot_was_watchdog
    BY <2>1, <2>2 DEF States
  <2>4. Shown(n) = Promise!AskFor(Shown(s), "FORCE_PENDING", "ARM_FORCED_WIPE")
    BY <1>1, <2>3, ShownAskFor
  <2>5. Promise!AskFor(Shown(s), "FORCE_PENDING", "ARM_FORCED_WIPE")
          \in Promise!Due(Shown(s))
    BY <1>4, ShownFields, DueViews, Zenon
  <2> QED BY <2>3, <2>4, <2>5 DEF Promise!Drift, n
<1> QED BY <1>2, <1>3, <1>4 DEF Sound, States

LEMMA ResultDrift ==
    ASSUME NEW s \in States, s.phase \in ResultPhases
    PROVE  \/ AdvanceResult(s) = s
           \/ Shown(AdvanceResult(s)) = Promise!To(Shown(s), "TERMINAL")
<1> DEFINE n == AdvanceResult(s)
           e == EnterPhase(s, "TERMINAL", s.phase_since + RESULT)
<1>1. CASE n # s
  <2>1. n = [e EXCEPT !.press = "IGNORED", !.require_release = TRUE]
    BY <1>1 DEF AdvanceResult
  <2>2. /\ e \in States /\ e.phase = "TERMINAL" /\ e.pending = s.pending
        /\ e.leave_succeeded = s.leave_succeeded
        /\ e.lease_armed = s.lease_armed /\ e.boot_was_watchdog = s.boot_was_watchdog
    <3>1. "TERMINAL" \in Phases /\ s.phase_since + RESULT \in Nat
      BY TimeFacts DEF States, Phases
    <3>2. e \in States
      BY <3>1, EnterPhaseType
    <3> QED BY <3>2 DEF EnterPhase, States
  <2>3. n \in States
    BY AdvanceResultType
  <2> HIDE DEF n, e
  <2>4. /\ n.phase = "TERMINAL" /\ n.pending = s.pending
        /\ n.leave_succeeded = s.leave_succeeded
        /\ n.lease_armed = s.lease_armed /\ n.boot_was_watchdog = s.boot_was_watchdog
    BY <2>1, <2>2 DEF States
  <2> QED BY <2>3, <2>4, ShownTo DEF n
<1> QED BY <1>1

\* The passing of time: whatever Advance does is due.
LEMMA AdvanceShown ==
    ASSUME NEW s, Sound(s), NEW t \in Nat
    PROVE  Shown(Advance(s, t)) \in Promise!Drift(Shown(s))
<1> DEFINE m == Monotonic(s, t)
           j == AdvanceJoin(m)
           r == AdvanceReset(j)
           l == AdvanceLeave(r)
           a == AdvanceResult(l)
<1>1. Sound(m) /\ m \in States /\ Shown(m) = Shown(s)
  <2>1. m \in States /\ s \in States
    BY MonotonicType DEF Sound
  <2> QED BY <2>1, MonotonicSound, ShownSame DEF Monotonic, States
<1>2. j \in States /\ r \in States /\ l \in States
  BY <1>1, AdvanceJoinType, AdvanceResetType, AdvanceLeaveType
<1>3. Advance(s, t) = a
  BY DEF Advance
<1> HIDE DEF m, j, r, l, a
<1>4. CASE m.phase = "UNPROVISIONED"
  <2>1. Shown(j) \in Promise!Drift(Shown(m)) /\ j.phase \in {"UNPROVISIONED", "JOINING"}
    BY <1>1, <1>4, JoinDrift DEF j
  <2>2. r = j
    BY <1>2, <2>1, IdleStages DEF r, AcceptsReset
  <2>3. l = j
    BY <1>2, <2>1, <2>2, IdleStages DEF l
  <2>4. a = j
    BY <1>2, <2>1, <2>3, IdleStages DEF a, ResultPhases
  <2> QED BY <1>1, <1>3, <2>1, <2>4
<1>5. CASE AcceptsReset(m.phase)
  <2>1. j = m
    BY <1>1, <1>5, IdleStages DEF j, AcceptsReset
  <2>2. /\ Shown(r) \in Promise!Drift(Shown(m))
        /\ r = m \/ /\ r.phase = "LEAVING" /\ ~r.leave_succeeded
                    /\ r.leave_started = r.last_now
    BY <1>1, <1>5, <2>1, ResetDrift DEF r
  <2>3. l = r
    <3>1. CASE r = m
      BY <1>1, <1>5, <3>1, IdleStages DEF l, AcceptsReset
    <3>2. CASE r.phase = "LEAVING" /\ ~r.leave_succeeded /\ r.leave_started = r.last_now
      <4>1. r.last_now - r.leave_started = 0
        BY <1>2, <3>2 DEF States
      <4> QED BY <3>2, <4>1, TimeFacts DEF l, AdvanceLeave
    <3> QED BY <2>2, <3>1, <3>2
  <2>4. a = r
    BY <1>2, <1>5, <2>2, <2>3, IdleStages DEF a, AcceptsReset, ResultPhases
  <2> QED BY <1>1, <1>3, <2>2, <2>4
<1>6. CASE m.phase = "LEAVING"
  <2>1. j = m
    BY <1>1, <1>6, IdleStages DEF j
  <2>2. r = m
    BY <1>1, <1>6, <2>1, IdleStages DEF r, AcceptsReset
  <2>3. /\ Shown(l) \in Promise!Drift(Shown(m))
        /\ \/ l = m
           \/ m.leave_succeeded /\ l.phase = "RESULT_GRACEFUL"
           \/ l.phase = "FORCE_PENDING"
    BY <1>1, <1>6, <2>2, LeaveDrift DEF l
  <2>4. CASE l.phase \notin ResultPhases
    BY <1>1, <1>2, <1>3, <2>3, <2>4, IdleStages DEF a
  <2>5. CASE l.phase \in ResultPhases
    <3>1. m.leave_succeeded /\ l.phase = "RESULT_GRACEFUL"
      BY <1>6, <2>3, <2>5 DEF ResultPhases
    <3>2. l = EnterPhase(m, "RESULT_GRACEFUL", ResultAt(m))
      BY <1>6, <2>2, <3>1 DEF l, AdvanceLeave
    <3>3. /\ l.pending = m.pending /\ l.leave_succeeded = m.leave_succeeded
          /\ l.lease_armed = m.lease_armed /\ l.boot_was_watchdog = m.boot_was_watchdog
      BY <1>1, <3>2 DEF EnterPhase, States
    <3>4. Promise!To(Shown(l), "TERMINAL") = Promise!To(Shown(m), "TERMINAL")
      BY <3>3 DEF Shown, Promise!To
    <3>5. Promise!To(Shown(m), "TERMINAL") \in Promise!Due(Shown(m))
      BY <1>6, <3>1, ShownFields, DueViews, Zenon
    <3>6. a = l \/ Shown(a) = Promise!To(Shown(l), "TERMINAL")
      BY <1>2, <2>5, ResultDrift DEF a
    <3> QED BY <1>1, <1>3, <2>3, <3>4, <3>5, <3>6 DEF Promise!Drift
  <2> QED BY <2>4, <2>5
<1>7. CASE m.phase \notin {"UNPROVISIONED", "LEAVING"} /\ ~AcceptsReset(m.phase)
  <2>1. j = m
    BY <1>1, <1>7, IdleStages DEF j
  <2>2. r = m
    BY <1>1, <1>7, <2>1, IdleStages DEF r
  <2>3. l = m
    BY <1>1, <1>7, <2>2, IdleStages DEF l
  <2>4. CASE m.phase \in ResultPhases
    <3>1. a = m \/ Shown(a) = Promise!To(Shown(m), "TERMINAL")
      BY <1>1, <2>3, <2>4, ResultDrift DEF a
    <3>2. Promise!To(Shown(m), "TERMINAL") \in Promise!Due(Shown(m))
      BY <2>4, ShownFields, DueViews, Zenon
    <3> QED BY <1>1, <1>3, <3>1, <3>2 DEF Promise!Drift
  <2>5. CASE m.phase \notin ResultPhases
    BY <1>1, <1>3, <2>3, <2>5, IdleStages DEF a, Promise!Drift
  <2> QED BY <2>4, <2>5
<1> QED BY <1>4, <1>5, <1>6, <1>7

-----------------------------------------------------------------------------
(* The calls.  s is the record before the call and n the one after it.       *)

LEMMA MonotonicShown ==
    ASSUME NEW s \in States, NEW t \in Nat
    PROVE  Shown(Monotonic(s, t)) = Shown(s)
BY MonotonicType, ShownSame DEF Monotonic, States

Updated(p, phase, lease, watchdog) ==
    [p EXCEPT !.phase = phase, !.lease = lease, !.watchdog = watchdog]

LEMMA ShownUpdate ==
    ASSUME NEW s, NEW n, NEW phase, NEW lease, NEW watchdog, n.phase = phase,
           n.pending = s.pending, n.leave_succeeded = s.leave_succeeded,
           n.lease_armed = lease, n.boot_was_watchdog = watchdog
    PROVE  Shown(n) = Updated(Shown(s), phase, lease, watchdog)
<1> DEFINE View(f, l, w) == [phase |-> f, pending |-> s.pending,
                             left |-> s.leave_succeeded, lease |-> l, watchdog |-> w]
<1>1. [Shown(s) EXCEPT !.phase = phase] = View(phase, s.lease_armed, s.boot_was_watchdog)
  BY DEF Shown
<1>2. [View(phase, s.lease_armed, s.boot_was_watchdog) EXCEPT !.lease = lease]
        = View(phase, lease, s.boot_was_watchdog)
  OBVIOUS
<1>3. [View(phase, lease, s.boot_was_watchdog) EXCEPT !.watchdog = watchdog]
        = View(phase, lease, watchdog)
  OBVIOUS
<1>4. Shown(n) = View(phase, lease, watchdog)
  BY DEF Shown
<1> HIDE DEF View
<1> QED BY <1>1, <1>2, <1>3, <1>4, Zenon DEF Updated

Leased(p, phase, lease) == [p EXCEPT !.phase = phase, !.lease = lease]

LEMMA ShownLease ==
    ASSUME NEW s, NEW n, NEW phase, NEW lease, n.phase = phase,
           n.pending = s.pending, n.leave_succeeded = s.leave_succeeded,
           n.lease_armed = lease, n.boot_was_watchdog = s.boot_was_watchdog
    PROVE  Shown(n) = Leased(Shown(s), phase, lease)
<1> DEFINE View(f, l) == [phase |-> f, pending |-> s.pending, left |-> s.leave_succeeded,
                          lease |-> l, watchdog |-> s.boot_was_watchdog]
<1>1. [Shown(s) EXCEPT !.phase = phase] = View(phase, s.lease_armed)
  BY DEF Shown
<1>2. [View(phase, s.lease_armed) EXCEPT !.lease = lease] = View(phase, lease)
  OBVIOUS
<1>3. Shown(n) = View(phase, lease)
  BY DEF Shown
<1> HIDE DEF View
<1> QED BY <1>1, <1>2, <1>3, Zenon DEF Leased

\* What is shown of n is what is shown of s, but for the lease.
LEMMA ShownArmed ==
    ASSUME NEW s, NEW n, n.phase = s.phase,
           n.pending = s.pending, n.leave_succeeded = s.leave_succeeded,
           NEW lease, n.lease_armed = lease, n.boot_was_watchdog = s.boot_was_watchdog
    PROVE  Shown(n) = [Shown(s) EXCEPT !.lease = lease]
BY DEF Shown

LEMMA StackStartedShown ==
    ASSUME NEW s \in States, NEW f \in BOOLEAN, NEW w \in BOOLEAN, NEW t \in Nat
    PROVE  Shown(StackStarted(s, f, w, t)) = Promise!Started(Shown(s), f, w)
<1> DEFINE m == Monotonic(s, t)
           n == StackStarted(s, f, w, t)
           phase == IF f THEN "UNPROVISIONED" ELSE "READY"
           lease == ~f /\ ~w
<1>1. m \in States /\ Shown(m) = Shown(s) /\ Shown(s).phase = m.phase
  BY MonotonicType, MonotonicShown, ShownFields
<1>2. CASE m.phase \in FinalPhases
  <2>1. n = m
    BY <1>2 DEF StackStarted
  <2>2. Promise!Started(Shown(s), f, w) = Shown(s)
    BY <1>1, <1>2 DEF Promise!Started, FinalPhases, Promise!FinalPhases
  <2> QED BY <1>1, <2>1, <2>2
<1>3. CASE m.phase \notin FinalPhases
  <2>1. /\ n.phase = phase /\ n.pending = m.pending
        /\ n.leave_succeeded = m.leave_succeeded
        /\ n.lease_armed = lease /\ n.boot_was_watchdog = w
    <3> HIDE DEF m
    <3> QED BY <1>1, <1>3 DEF StackStarted, Begin, EnterPhase, States, m
  <2>2. Promise!Started(Shown(s), f, w)
          = Updated(Shown(s), phase, lease, w)
    BY <1>1, <1>3 DEF Updated, Promise!Started, FinalPhases, Promise!FinalPhases
  <2> HIDE DEF m, n, phase, lease
  <2>3. Shown(n) = Updated(Shown(m), phase, lease, w)
    BY <2>1, ShownUpdate
  <2> QED BY <1>1, <2>2, <2>3 DEF n
<1> QED BY <1>2, <1>3

LEMMA StackRetryingShown ==
    ASSUME NEW s \in States, NEW w \in BOOLEAN, NEW t \in Nat
    PROVE  Shown(StackRetrying(s, w, t)) = Promise!Retrying(Shown(s), w)
<1> DEFINE m == Monotonic(s, t)
           n == StackRetrying(s, w, t)
           unarmed == FALSE
<1> USE DEF ResetFlow, FinalPhases, ResultPhases, Promise!ResetFlow, Promise!FinalPhases,
            Promise!ResultPhases
<1>1. m \in States /\ Shown(m) = Shown(s) /\ Shown(s).phase = m.phase
  BY MonotonicType, MonotonicShown, ShownFields
<1>2. CASE m.phase \in ResetFlow \cup FinalPhases
  <2>1. n = m
    BY <1>2 DEF StackRetrying
  <2>2. Promise!Retrying(Shown(s), w) = Shown(s)
    BY <1>1, <1>2 DEF Promise!Retrying
  <2> QED BY <1>1, <2>1, <2>2
<1>3. CASE m.phase \notin ResetFlow \cup FinalPhases
  <2>1. /\ n.phase = "RESTORING" /\ n.pending = m.pending
        /\ n.leave_succeeded = m.leave_succeeded
        /\ n.lease_armed = unarmed /\ n.boot_was_watchdog = w
    <3> HIDE DEF m
    <3> QED BY <1>1, <1>3 DEF StackRetrying, Retry, EnterPhase, States, m
  <2>2. Promise!Retrying(Shown(s), w)
          = Updated(Shown(s), "RESTORING", unarmed, w)
    BY <1>1, <1>3 DEF Updated, Promise!Retrying
  <2> HIDE DEF m, n, unarmed
  <2>3. Shown(n) = Updated(Shown(m), "RESTORING", unarmed, w)
    BY <2>1, ShownUpdate
  <2> QED BY <1>1, <2>2, <2>3 DEF n
<1> QED BY <1>2, <1>3

LEMMA JoinedShown ==
    ASSUME NEW s, Sound(s), NEW t \in Nat
    PROVE  Shown(Joined(s, t)) \in Promise!JoinedViews(Shown(s))
<1> DEFINE a == Advance(s, t)
           n == Joined(s, t)
<1>1. a \in States /\ n \in States /\ Shown(a) \in Promise!Drift(Shown(s))
  BY AdvanceType, JoinedType, AdvanceShown DEF Sound
<1>2. Shown(n) = IF Shown(a).phase = "JOINING" THEN Promise!To(Shown(a), "POST_JOIN")
                                              ELSE Shown(a)
  <2>1. CASE a.phase # "JOINING"
    BY <2>1, ShownFields DEF Joined
  <2>2. CASE a.phase = "JOINING"
    <3>1. /\ n.phase = "POST_JOIN" /\ n.pending = a.pending
          /\ n.leave_succeeded = a.leave_succeeded
          /\ n.lease_armed = a.lease_armed /\ n.boot_was_watchdog = a.boot_was_watchdog
      <4> HIDE DEF a
      <4> QED BY <1>1, <2>2 DEF Joined, EnterPhase, States, a
    <3> HIDE DEF a, n
    <3> QED BY <1>1, <2>2, <3>1, ShownTo, ShownFields
  <2> QED BY <2>1, <2>2
<1> QED BY <1>1, <1>2 DEF Promise!JoinedViews

LEMMA LeaveSucceededShown ==
    ASSUME NEW s, Sound(s), NEW t \in Nat
    PROVE  /\ Shown(LeaveSucceeded(s, t)) \in Promise!LeaveViews(Shown(s))
           /\ Advance(s, t).phase = "LEAVING" =>
                Shown(LeaveSucceeded(s, t))
                  \in Promise!Drift([Shown(Advance(s, t)) EXCEPT !.left = TRUE])
<1> DEFINE a == Advance(s, t)
           b == [a EXCEPT !.leave_succeeded = TRUE, !.leave_succeeded_at = a.last_now]
           n == LeaveSucceeded(s, t)
<1>1. /\ Sound(a) /\ a \in States /\ a.last_now \in Nat
      /\ Shown(a) \in Promise!Drift(Shown(s)) /\ Shown(a).phase = a.phase
  BY AdvanceSound, AdvanceShown, ShownFields DEF Sound, States
<1>2. CASE a.phase # "LEAVING"
  <2>1. n = a
    BY <1>2 DEF LeaveSucceeded
  <2> HIDE DEF a, n
  <2> QED BY <1>1, <1>2, <2>1 DEF Promise!LeaveViews, a, n
<1>3. CASE a.phase = "LEAVING"
  <2>1. n = Advance(b, a.last_now)
    BY <1>3 DEF LeaveSucceeded
  <2> HIDE DEF a, n
  <2>2. b \in States
    BY <1>1 DEF States
  <2>3. /\ b.phase = a.phase /\ b.pending = a.pending
        /\ b.leave_succeeded = TRUE
        /\ b.lease_armed = a.lease_armed /\ b.boot_was_watchdog = a.boot_was_watchdog
        /\ b.last_now = a.last_now /\ b.phase_since = a.phase_since
        /\ b.press_since = a.press_since /\ b.leave_started = a.leave_started
        /\ b.last_lease_ping = a.last_lease_ping
        /\ b.press = a.press /\ b.boot_down = a.boot_down
    BY <1>1 DEF States
  <2> HIDE DEF b
  <2>4. Sound(b)
    BY <1>1, <2>2, <2>3 DEF Sound, TimesPassed, PressOffered, LeaseOfSession, FeedbackGiven
  <2>5. Shown(b) = [Shown(a) EXCEPT !.left = TRUE]
    BY <2>3, ShownLeft, Zenon
  <2>6. Shown(n) \in Promise!Drift([Shown(a) EXCEPT !.left = TRUE])
    BY <1>1, <2>1, <2>4, <2>5, AdvanceShown
  <2>7. Shown(n) \in Promise!LeaveViews(Shown(s))
    <3> DEFINE Reached(q) == IF q.phase = "LEAVING" THEN Promise!Drift([q EXCEPT !.left = TRUE])
                                                   ELSE {q}
    <3>1. Shown(n) \in Reached(Shown(a))
      BY <1>1, <1>3, <2>6
    <3>2. Promise!LeaveViews(Shown(s)) = UNION {Reached(q) : q \in Promise!Drift(Shown(s))}
      BY DEF Promise!LeaveViews
    <3> HIDE DEF Reached
    <3> QED BY <1>1, <3>1, <3>2
  <2> QED BY <2>6, <2>7 DEF a, n
<1> QED BY <1>2, <1>3

\* A leave that is still going on goes on at the same time.
LEMMA StillLeaving ==
    ASSUME NEW s \in States, NEW t \in Nat, Advance(s, t).phase = "LEAVING"
    PROVE  Advance(Advance(s, t), Advance(s, t).last_now) = Advance(s, t)
<1> DEFINE r == AdvanceReset(AdvanceJoin(Monotonic(s, t)))
           l == AdvanceLeave(r)
           a == AdvanceResult(l)
<1>1. r \in States /\ l \in States /\ a \in States
  BY MonotonicType, AdvanceJoinType, AdvanceResetType, AdvanceLeaveType, AdvanceResultType
<1>2. Advance(s, t) = a
  BY DEF Advance
<1> HIDE DEF r, l, a
<1>3. a = l
  BY <1>1, <1>2 DEF a, AdvanceResult, EnterPhase, States
<1>4. l = r
  BY <1>1, <1>2, <1>3 DEF l, AdvanceLeave, EnterPhase, States
<1>5. Monotonic(a, a.last_now) = a
  BY <1>1 DEF Monotonic, Later, States
<1>6. AdvanceJoin(a) = a /\ AdvanceReset(a) = a /\ AdvanceResult(a) = a
  BY <1>1, <1>2, IdleStages DEF AcceptsReset, ResultPhases
<1>7. AdvanceLeave(a) = a
  BY <1>3, <1>4 DEF l
<1> QED BY <1>2, <1>5, <1>6, <1>7 DEF Advance

\* A network that is lost in a leave is the end of it.
LEMMA LostLeaving ==
    ASSUME NEW p, NEW r, p.phase = "LEAVING"
    PROVE  Promise!LostFrom(p, r) = Promise!Drift([p EXCEPT !.left = TRUE])
BY DEF Promise!LostFrom, Promise!FinalPhases, Promise!ResultPhases

LEMMA NetworkLeftShown ==
    ASSUME NEW s, Sound(s), NEW r \in BOOLEAN, NEW t \in Nat
    PROVE  Shown(NetworkLeft(s, r, t)) \in Promise!LostViews(Shown(s), r)
<1> DEFINE a == Advance(s, t)
           n == NetworkLeft(s, r, t)
           phase == AwayPhase(r)
           unarmed == FALSE
<1>1. /\ Sound(a) /\ s \in States /\ a \in States /\ a.last_now \in Nat
      /\ Shown(a) \in Promise!Drift(Shown(s)) /\ Shown(a).phase = a.phase
  BY AdvanceSound, AdvanceShown, ShownFields DEF Sound, States
<1> SUFFICES Shown(n) \in Promise!LostFrom(Shown(a), r)
  BY <1>1 DEF Promise!LostViews
<1>2. CASE a.phase = "LEAVING"
  <2>1. n = LeaveSucceeded(a, a.last_now)
    BY <1>2 DEF NetworkLeft
  <2>2. Advance(a, a.last_now) = a
    BY <1>1, <1>2, StillLeaving
  <2>3. Promise!LostFrom(Shown(a), r) = Promise!Drift([Shown(a) EXCEPT !.left = TRUE])
    BY <1>1, <1>2, LostLeaving
  <2> HIDE DEF a, n
  <2>4. Shown(n) \in Promise!Drift([Shown(a) EXCEPT !.left = TRUE])
    BY <1>1, <1>2, <2>1, <2>2, LeaveSucceededShown
  <2> QED BY <2>3, <2>4
<1>3. CASE a.phase \in (ResetFlow \cup FinalPhases) \ {"LEAVING"}
  <2>1. n = a
    BY <1>3 DEF NetworkLeft
  <2>2. Promise!LostFrom(Shown(a), r) = {Shown(a)}
    BY <1>1, <1>3 DEF Promise!LostFrom, ResetFlow, FinalPhases, ResultPhases,
       Promise!FinalPhases, Promise!ResultPhases
  <2> QED BY <2>1, <2>2
<1>4. CASE a.phase \notin ResetFlow \cup FinalPhases
  <2>1. /\ n.phase = phase /\ n.pending = a.pending
        /\ n.leave_succeeded = a.leave_succeeded
        /\ n.lease_armed = unarmed /\ n.boot_was_watchdog = a.boot_was_watchdog
    <3> HIDE DEF a
    <3> QED BY <1>1, <1>4 DEF NetworkLeft, Disconnect, EnterPhase, ResetFlow, States, a
  <2>2. Promise!LostFrom(Shown(a), r) = {Leased(Shown(a), phase, unarmed)}
    BY <1>1, <1>4 DEF Leased, Promise!LostFrom, AwayPhase, ResetFlow, FinalPhases, ResultPhases,
       Promise!FinalPhases, Promise!ResultPhases
  <2> HIDE DEF a, n, phase, unarmed
  <2>3. Shown(n) = Leased(Shown(a), phase, unarmed)
    BY <2>1, ShownLease
  <2> QED BY <2>2, <2>3
<1> QED BY <1>2, <1>3, <1>4 DEF ResetFlow

LEMMA ReadyShown ==
    ASSUME NEW s, Sound(s), NEW t \in Nat
    PROVE  Shown(Ready(s, t)) \in Promise!ReadyViews(Shown(s))
<1> DEFINE a == Advance(s, t)
           n == Ready(s, t)
           ready == "READY"
           armed == TRUE
<1>1. /\ a \in States /\ a.last_now \in Nat
      /\ Shown(a) \in Promise!Drift(Shown(s)) /\ Shown(a).phase = a.phase
  BY AdvanceType, AdvanceShown, ShownFields DEF Sound, States
<1>2. CASE a.phase \notin {"READY", "POST_JOIN"}
  <2>1. n = a
    BY <1>2 DEF Ready
  <2> HIDE DEF a, n
  <2> QED BY <1>1, <1>2, <2>1 DEF Promise!ReadyViews, n
<1>3. CASE a.phase \in {"READY", "POST_JOIN"}
  <2>1. /\ n.phase = ready /\ n.pending = a.pending
        /\ n.leave_succeeded = a.leave_succeeded
        /\ n.lease_armed = armed /\ n.boot_was_watchdog = a.boot_was_watchdog
    <3> HIDE DEF a
    <3> QED BY <1>1, <1>3 DEF Ready, GrantLease, EnterPhase, States, a
  <2> HIDE DEF a, n
  <2>2. Promise!ReadyViews(Shown(s))
          = {IF q.phase \in {"READY", "POST_JOIN"}
             THEN Leased(q, ready, armed) ELSE q :
               q \in Promise!Drift(Shown(s))}
    BY DEF Promise!ReadyViews, Leased
  <2> HIDE DEF ready, armed
  <2>3. Shown(n) = Leased(Shown(a), ready, armed)
    BY <2>1, ShownLease
  <2> QED BY <1>1, <1>3, <2>2, <2>3 DEF n
<1> QED BY <1>2, <1>3

LEMMA LeasePingShown ==
    ASSUME NEW s, Sound(s), NEW t \in Nat
    PROVE  Shown(LeasePing(s, t)) \in Promise!PingViews(Shown(s))
<1> DEFINE a == Advance(s, t)
           n == LeasePing(s, t)
           armed == TRUE
<1>1. /\ a \in States /\ a.last_now \in Nat
      /\ Shown(a) \in Promise!Drift(Shown(s)) /\ Shown(a).phase = a.phase
  BY AdvanceType, AdvanceShown, ShownFields DEF Sound, States
<1>2. CASE a.phase # "READY"
  <2>1. n = a
    BY <1>2 DEF LeasePing
  <2> HIDE DEF a, n
  <2> QED BY <1>1, <1>2, <2>1 DEF Promise!PingViews, n
<1>3. CASE a.phase = "READY"
  <2>1. /\ n.phase = a.phase /\ n.pending = a.pending
        /\ n.leave_succeeded = a.leave_succeeded
        /\ n.lease_armed = armed /\ n.boot_was_watchdog = a.boot_was_watchdog
    <3> HIDE DEF a
    <3> QED BY <1>1, <1>3 DEF LeasePing, GrantLease, States, a
  <2> HIDE DEF a, n
  <2>2. Promise!PingViews(Shown(s))
          = {IF q.phase = "READY" THEN [q EXCEPT !.lease = armed] ELSE q :
               q \in Promise!Drift(Shown(s))}
    BY DEF Promise!PingViews
  <2> HIDE DEF armed
  <2>3. Shown(n) = [Shown(a) EXCEPT !.lease = armed]
    BY <2>1, ShownArmed
  <2> QED BY <1>1, <1>3, <2>2, <2>3 DEF n
<1> QED BY <1>2, <1>3

LEMMA ForcedWipeArmedShown ==
    ASSUME NEW s, Sound(s), NEW ok \in BOOLEAN, NEW t \in Nat
    PROVE  Shown(ForcedWipeArmed(s, ok, t)) \in Promise!WipeViews(Shown(s), ok)
<1> DEFINE a == Advance(s, t)
           n == ForcedWipeArmed(s, ok, t)
           phase == IF ok THEN "RESULT_FORCED" ELSE "ERROR"
<1>1. /\ a \in States /\ n \in States
      /\ Shown(a) \in Promise!Drift(Shown(s)) /\ Shown(a).phase = a.phase
  BY AdvanceType, ForcedWipeArmedType, AdvanceShown, ShownFields DEF Sound, States
<1>2. CASE a.phase # "FORCE_PENDING"
  <2>1. n = a
    BY <1>2 DEF ForcedWipeArmed
  <2> HIDE DEF a, n
  <2> QED BY <1>1, <1>2, <2>1 DEF Promise!WipeViews, n
<1>3. CASE a.phase = "FORCE_PENDING"
  <2>1. /\ n.phase = phase /\ n.pending = a.pending
        /\ n.leave_succeeded = a.leave_succeeded
        /\ n.lease_armed = a.lease_armed /\ n.boot_was_watchdog = a.boot_was_watchdog
    <3> HIDE DEF a
    <3> QED BY <1>1, <1>3 DEF ForcedWipeArmed, EnterPhase, States, a
  <2> HIDE DEF a, n
  <2>2. Promise!WipeViews(Shown(s), ok)
          = {IF q.phase = "FORCE_PENDING" THEN Promise!To(q, phase) ELSE q :
               q \in Promise!Drift(Shown(s))}
    BY DEF Promise!WipeViews
  <2> HIDE DEF phase
  <2>3. Shown(n) = Promise!To(Shown(a), phase)
    BY <1>1, <2>1, ShownTo
  <2> QED BY <1>1, <1>3, <2>2, <2>3 DEF n
<1> QED BY <1>2, <1>3

\* BOOT and the pulses of gateway events are not shown.
LEMMA GatewayEventShown ==
    ASSUME NEW s, Sound(s), NEW b \in BOOLEAN, NEW t \in Nat
    PROVE  Shown(GatewayEvent(s, b, t)) \in Promise!Drift(Shown(s))
<1> DEFINE a == Advance(s, t)
           n == GatewayEvent(s, b, t)
<1>1. /\ a \in States /\ n \in States /\ Shown(a) \in Promise!Drift(Shown(s))
  BY AdvanceType, GatewayEventType, AdvanceShown DEF Sound
<1>2. /\ n.phase = a.phase /\ n.pending = a.pending
      /\ n.leave_succeeded = a.leave_succeeded
      /\ n.lease_armed = a.lease_armed /\ n.boot_was_watchdog = a.boot_was_watchdog
  <2> HIDE DEF a
  <2> QED BY <1>1 DEF GatewayEvent, States, a
<1> HIDE DEF a, n
<1> QED BY <1>1, <1>2, ShownSame DEF n

LEMMA BootInputShown ==
    ASSUME NEW s, Sound(s), NEW d \in BOOLEAN, NEW t \in Nat
    PROVE  Shown(BootInput(s, d, t)) \in Promise!Drift(Shown(s))
<1> DEFINE a == Advance(s, t)
           n == BootInput(s, d, t)
<1>1. /\ a \in States /\ n \in States /\ Shown(a) \in Promise!Drift(Shown(s))
  BY AdvanceType, BootInputType, AdvanceShown DEF Sound
<1>2. /\ n.phase = a.phase /\ n.pending = a.pending
      /\ n.leave_succeeded = a.leave_succeeded
      /\ n.lease_armed = a.lease_armed /\ n.boot_was_watchdog = a.boot_was_watchdog
  <2> HIDE DEF a
  <2> QED BY <1>1 DEF BootInput, BootPressed, BootReleased, States, a
<1> HIDE DEF a, n
<1> QED BY <1>1, <1>2, ShownSame DEF n

LEMMA TakeActionsShown ==
    ASSUME NEW s
    PROVE  Shown(TakeActions(s)) = Promise!Taken(Shown(s))
BY DEF Shown, TakeActions, Promise!Taken

-----------------------------------------------------------------------------
(* Every call is a step of UiPhases.                                        *)

LEMMA InitShown == Init => Promise!Init
<1>1. Init => Shown(ui) = Promise!Fresh
  BY DEF Init, InitState, Shown, Promise!Fresh
<1> QED BY <1>1 DEF Promise!Init

LEMMA CallShown ==
    ASSUME IInv, NEW t \in Stamps, Call(t)
    PROVE  Promise!Next
<1>1. Sound(ui) /\ ui \in States /\ t \in Nat
  BY StampsNat DEF IInv, Sound
<1>2. CASE StackStartedCall(t)
  <2>1. PICK f \in BOOLEAN, w \in BOOLEAN : ui' = StackStarted(ui, f, w, t)
    BY <1>2 DEF StackStartedCall
  <2>2. Shown(ui)' = Promise!Started(Shown(ui), f, w)
    BY <1>1, <2>1, StackStartedShown
  <2> QED BY <2>2 DEF Promise!Next
<1>3. CASE StackRetryingCall(t)
  <2>1. PICK w \in BOOLEAN : ui' = StackRetrying(ui, w, t)
    BY <1>3 DEF StackRetryingCall
  <2>2. Shown(ui)' = Promise!Retrying(Shown(ui), w)
    BY <1>1, <2>1, StackRetryingShown
  <2> QED BY <2>2 DEF Promise!Next
<1>4. CASE BootPressedCall(t)
  <2>1. Shown(ui)' \in Promise!Drift(Shown(ui))
    BY <1>1, <1>4, BootInputShown DEF BootPressedCall
  <2> QED BY <2>1 DEF Promise!Next
<1>5. CASE BootReleasedCall(t)
  <2>1. Shown(ui)' \in Promise!Drift(Shown(ui))
    BY <1>1, <1>5, BootInputShown DEF BootReleasedCall
  <2> QED BY <2>1 DEF Promise!Next
<1>6. CASE JoinedCall(t)
  <2>1. Shown(ui)' \in Promise!JoinedViews(Shown(ui))
    BY <1>1, <1>6, JoinedShown DEF JoinedCall, Quiet
  <2> QED BY <2>1 DEF Promise!Next
<1>7. CASE ReadyCall(t)
  <2>1. Shown(ui)' \in Promise!ReadyViews(Shown(ui))
    BY <1>1, <1>7, ReadyShown DEF ReadyCall
  <2> QED BY <2>1 DEF Promise!Next
<1>8. CASE LeasePingCall(t)
  <2>1. Shown(ui)' \in Promise!PingViews(Shown(ui))
    BY <1>1, <1>8, LeasePingShown DEF LeasePingCall
  <2> QED BY <2>1 DEF Promise!Next
<1>9. CASE NetworkLeftCall(t)
  <2>1. PICK r \in BOOLEAN : ui' = NetworkLeft(ui, r, t)
    BY <1>9 DEF NetworkLeftCall, Quiet
  <2>2. Shown(ui)' \in Promise!LostViews(Shown(ui), r)
    BY <1>1, <2>1, NetworkLeftShown
  <2> QED BY <2>2 DEF Promise!Next
<1>10. CASE LeaveSucceededCall(t)
  <2>1. Shown(ui)' \in Promise!LeaveViews(Shown(ui))
    BY <1>1, <1>10, LeaveSucceededShown DEF LeaveSucceededCall, Quiet
  <2> QED BY <2>1 DEF Promise!Next
<1>11. CASE ForcedWipeArmedCall(t)
  <2>1. PICK ok \in BOOLEAN : ui' = ForcedWipeArmed(ui, ok, t)
    BY <1>11 DEF ForcedWipeArmedCall, Quiet
  <2>2. Shown(ui)' \in Promise!WipeViews(Shown(ui), ok)
    BY <1>1, <2>1, ForcedWipeArmedShown
  <2> QED BY <2>2 DEF Promise!Next
<1>12. CASE GatewayEventCall(t)
  <2>1. PICK b \in BOOLEAN : ui' = GatewayEvent(ui, b, t)
    BY <1>12 DEF GatewayEventCall, Quiet
  <2>2. Shown(ui)' \in Promise!Drift(Shown(ui))
    BY <1>1, <2>1, GatewayEventShown
  <2> QED BY <2>2 DEF Promise!Next
<1>13. CASE AdvanceCall(t)
  <2>1. Shown(ui)' \in Promise!Drift(Shown(ui))
    BY <1>1, <1>13, AdvanceShown DEF AdvanceCall, Quiet
  <2> QED BY <2>1 DEF Promise!Next
<1> QED BY <1>2, <1>3, <1>4, <1>5, <1>6, <1>7, <1>8, <1>9, <1>10, <1>11, <1>12, <1>13 DEF Call

LEMMA StepShown ==
    ASSUME IInv, [Next]_vars
    PROVE  [Promise!Next]_(Shown(ui))
<1>1. CASE TakeActionsCall
  <2>1. Shown(ui)' = Promise!Taken(Shown(ui))
    BY <1>1, TakeActionsShown DEF TakeActionsCall, Quiet
  <2> QED BY <2>1 DEF Promise!Next
<1>2. CASE \E t \in Stamps : Call(t)
  BY <1>2, CallShown
<1>3. CASE UNCHANGED vars
  BY <1>3 DEF vars
<1> QED BY <1>1, <1>2, <1>3 DEF Next

\* The state machine of cr11_ui_state.c implements UiPhases: whatever calls are
\* made on it and whenever, the phase, the requested actions and the lease
\* change only in the steps that are promised to the rest of the gateway.
THEOREM RefinementTheorem == Spec => KeepsPromise
<1>1. IInv /\ [Next]_vars => [Promise!Next]_(Shown(ui))
  BY StepShown
<1> QED BY InitShown, InductiveInvariant, <1>1, PTL DEF Spec, KeepsPromise, Promise!Spec

-----------------------------------------------------------------------------
(* The light of a reset.  Good relates the record, the task's sample of the   *)
(* clock and the light at any moment of a cycle; every call keeps it, and a   *)
(* cycle that ends shows what the phase asks for.                            *)

Lamp(phase) == IF phase = "RESULT_GRACEFUL" THEN "GRACEFUL_RESULT" ELSE "FORCED_RESULT"

\* A clock c, a sample n of it, and a light that has been lit since l.
Cycle(c, n, l) ==
    /\ c \in Nat /\ n \in Nat /\ l \in Nat
    /\ n <= c /\ c <= n + MaxDelay /\ l <= c

Good(s, c, n, e, l) ==
    /\ Sound(s)
    /\ s.last_now <= c
    /\ n <= s.last_now + Interval
    /\ s.phase \in {"LEAVING", "FORCE_PENDING"} /\ e # "LEAVE" =>
           n <= s.leave_started + Interval
    /\ s.phase \in ResetFlow /\ e = "LEAVE" => l <= s.leave_started + Slack
    /\ s.phase = "LEAVING" /\ s.leave_succeeded => n <= ResultAt(s) + Interval
    /\ s.phase \in ResultPhases =>
           \/ e = "LEAVE" /\ n <= s.phase_since + Interval
           \/ e = Lamp(s.phase) /\ l <= s.phase_since + Slack
    /\ s.phase = "TERMINAL" /\ e # "TERMINAL" =>
           e \in ResultLights /\ l + RESULT <= s.last_now + Slack

LEMMA CycleFacts ==
    /\ Interval \in Nat /\ Slack = Interval + MaxDelay /\ Slack \in Nat
    /\ PERIOD \in Nat /\ MaxDelay \in Nat
    /\ PERIOD <= Interval /\ MaxDelay <= Interval
    /\ Slack < LEAVE_MIN_RED /\ Slack < RESULT
BY CycleAssumption, ShortCycleAssumption DEF Interval, Slack, Later

\* Two records that agree in these fields are the same to Good.
Alike(s, r) ==
    /\ r.phase = s.phase /\ r.phase_since = s.phase_since /\ r.last_now = s.last_now
    /\ r.leave_started = s.leave_started
    /\ r.leave_succeeded = s.leave_succeeded
    /\ r.leave_succeeded_at = s.leave_succeeded_at

LEMMA AlikeGood ==
    ASSUME NEW s, NEW r, NEW c, NEW n, NEW e, NEW l, Good(s, c, n, e, l), Sound(r), Alike(s, r)
    PROVE  Good(r, c, n, e, l)
BY DEF Good, Alike, ResultAt

LEMMA IdleGood ==
    ASSUME NEW r, NEW c, NEW n, NEW e, NEW l, Sound(r),
           r.last_now <= c, n <= r.last_now + Interval,
           r.phase \notin ResetFlow \cup {"TERMINAL"}
    PROVE  Good(r, c, n, e, l)
BY DEF Good, ResetFlow, ResultPhases

LEMMA MonotonicGood ==
    ASSUME NEW s, NEW c, NEW n, NEW e, NEW l, Cycle(c, n, l), Good(s, c, n, e, l),
           NEW t \in Nat, t <= c
    PROVE  Good(Monotonic(s, t), c, n, e, l)
<1> DEFINE m == Monotonic(s, t)
<1>1. Sound(m)
  BY MonotonicSound DEF Good
<1>2. s \in States
  BY DEF Good, Sound
<1>3. /\ m.phase = s.phase /\ m.phase_since = s.phase_since
      /\ m.leave_started = s.leave_started /\ m.leave_succeeded = s.leave_succeeded
      /\ m.leave_succeeded_at = s.leave_succeeded_at
      /\ m.last_now = Later(s.last_now, t)
  BY <1>2 DEF Monotonic, States
<1>4. m.last_now \in Nat /\ s.last_now \in Nat /\ s.last_now <= m.last_now /\ m.last_now <= c
  BY <1>2, <1>3 DEF Later, Good, States
<1> HIDE DEF m
<1>5. ResultAt(m) = ResultAt(s)
  BY <1>3 DEF ResultAt
<1> QED BY <1>1, <1>3, <1>4, <1>5, CycleFacts, TimeFacts DEF Good, Cycle, m

LEMMA AdvanceJoinGood ==
    ASSUME NEW s, NEW c, NEW n, NEW e, NEW l, Cycle(c, n, l), Good(s, c, n, e, l)
    PROVE  Good(AdvanceJoin(s), c, n, e, l)
<1> DEFINE r == AdvanceJoin(s)
<1>1. Sound(r) /\ s \in States
  BY AdvanceJoinSound DEF Good, Sound
<1>2. CASE r = s
  BY <1>2
<1>3. CASE r # s
  <2>1. r.phase = "JOINING" /\ r.last_now = s.last_now
    BY <1>1, <1>3 DEF AdvanceJoin, Accept, EnterPhase, States
  <2> HIDE DEF r
  <2>2. Good(r, c, n, e, l)
    BY <1>1, <2>1, IdleGood DEF Good, ResetFlow, ResultPhases
  <2> QED BY <2>2 DEF r
<1> QED BY <1>2, <1>3

LEMMA AdvanceResetGood ==
    ASSUME NEW s, NEW c, NEW n, NEW e, NEW l, Cycle(c, n, l), Good(s, c, n, e, l)
    PROVE  Good(AdvanceReset(s), c, n, e, l)
<1> DEFINE r == AdvanceReset(s)
<1>1. Sound(r) /\ s \in States
  BY AdvanceResetSound DEF Good, Sound
<1>2. CASE r = s
  BY <1>2
<1>3. CASE r # s
  <2>1. /\ r.phase = "LEAVING" /\ r.last_now = s.last_now
        /\ r.leave_started = s.last_now /\ r.leave_succeeded = FALSE
    BY <1>1, <1>3 DEF AdvanceReset, Accept, EnterPhase, States
  <2>2. s.last_now \in Nat
    BY <1>1 DEF States
  <2> HIDE DEF r
  <2>3. l <= s.last_now + Slack
    BY <2>2, CycleFacts DEF Good, Cycle
  <2>4. Good(r, c, n, e, l)
    BY <1>1, <2>1, <2>3 DEF Good, ResultPhases
  <2> QED BY <2>4 DEF r
<1> QED BY <1>2, <1>3

\* While no red light has been lit, not enough time has passed for the reset to
\* go on.
LEMMA StillEarly ==
    ASSUME NEW s, NEW c, NEW n, NEW e, NEW l, Cycle(c, n, l), Good(s, c, n, e, l),
           s.phase \in {"LEAVING", "FORCE_PENDING"}, e # "LEAVE"
    PROVE  s.last_now < s.leave_started + LEAVE_MIN_RED
<1>1. s.last_now \in Nat /\ s.leave_started \in Nat
  BY DEF Good, Sound, States
<1> QED BY <1>1, CycleFacts, TimeFacts DEF Good, Cycle

LEMMA AdvanceLeaveGood ==
    ASSUME NEW s, NEW c, NEW n, NEW e, NEW l, Cycle(c, n, l), Good(s, c, n, e, l)
    PROVE  Good(AdvanceLeave(s), c, n, e, l)
<1> DEFINE r == AdvanceLeave(s)
<1>1. Sound(r) /\ s \in States
  BY AdvanceLeaveSound DEF Good, Sound
<1>2. CASE r = s
  BY <1>2
<1>3. ASSUME r # s, s.leave_succeeded PROVE Good(r, c, n, e, l)
  <2>1. /\ s.phase = "LEAVING" /\ s.last_now >= ResultAt(s)
        /\ r.phase = "RESULT_GRACEFUL" /\ r.phase_since = ResultAt(s)
        /\ r.last_now = s.last_now /\ r.leave_started = s.leave_started
    BY <1>1, <1>3 DEF AdvanceLeave, EnterPhase, States
  <2>2. s.last_now \in Nat /\ s.leave_started \in Nat /\ ResultAt(s) \in Nat
        /\ s.leave_started + LEAVE_MIN_RED <= ResultAt(s)
    BY <1>1, TimeFacts DEF States, ResultAt, Later
  <2>3. e = "LEAVE"
    BY <2>1, <2>2, StillEarly, TimeFacts
  <2> HIDE DEF r
  <2> QED BY <1>1, <1>3, <2>1, <2>3 DEF Good, ResetFlow, ResultPhases
<1>4. ASSUME r # s, ~s.leave_succeeded PROVE Good(r, c, n, e, l)
  <2>1. /\ s.phase = "LEAVING" /\ r.phase = "FORCE_PENDING"
        /\ r.last_now = s.last_now /\ r.leave_started = s.leave_started
    BY <1>1, <1>4 DEF AdvanceLeave, EnterPhase, States
  <2> HIDE DEF r
  <2> QED BY <1>1, <2>1 DEF Good, ResetFlow, ResultPhases
<1> QED BY <1>2, <1>3, <1>4

LEMMA AdvanceResultGood ==
    ASSUME NEW s, NEW c, NEW n, NEW e, NEW l, Cycle(c, n, l), Good(s, c, n, e, l)
    PROVE  Good(AdvanceResult(s), c, n, e, l)
<1> DEFINE r == AdvanceResult(s)
<1>1. Sound(r) /\ s \in States
  BY AdvanceResultSound DEF Good, Sound
<1>2. CASE r = s
  BY <1>2
<1>3. CASE r # s
  <2>1. /\ s.phase \in ResultPhases /\ s.last_now - s.phase_since >= RESULT
        /\ r.phase = "TERMINAL" /\ r.last_now = s.last_now
    BY <1>1, <1>3 DEF AdvanceResult, EnterPhase, States
  <2>2. s.last_now \in Nat /\ s.phase_since \in Nat
    BY <1>1 DEF States
  <2>3. ~(n <= s.phase_since + Interval)
    BY <2>1, <2>2, CycleFacts, TimeFacts DEF Good, Cycle
  <2>4. e = Lamp(s.phase) /\ l <= s.phase_since + Slack
    BY <2>1, <2>3 DEF Good
  <2>5. e \in ResultLights /\ l + RESULT <= s.last_now + Slack
    BY <2>1, <2>2, <2>4, CycleFacts, TimeFacts DEF Lamp, ResultLights, Cycle
  <2> HIDE DEF r
  <2>6. Good(r, c, n, e, l)
    BY <1>1, <2>1, <2>5 DEF Good, ResetFlow, ResultPhases
  <2> QED BY <2>6 DEF r
<1> QED BY <1>2, <1>3

LEMMA AdvanceGood ==
    ASSUME NEW s, NEW c, NEW n, NEW e, NEW l, Cycle(c, n, l), Good(s, c, n, e, l),
           NEW t \in Nat, t <= c
    PROVE  Good(Advance(s, t), c, n, e, l)
BY MonotonicGood, AdvanceJoinGood, AdvanceResetGood, AdvanceLeaveGood, AdvanceResultGood
   DEF Advance

-----------------------------------------------------------------------------
(* The calls.                                                               *)

LEMMA LeaveSucceededGood ==
    ASSUME NEW s, NEW c, NEW n, NEW e, NEW l, Cycle(c, n, l), Good(s, c, n, e, l),
           NEW t \in Nat, t <= c
    PROVE  Good(LeaveSucceeded(s, t), c, n, e, l)
<1> DEFINE a == Advance(s, t)
           b == [a EXCEPT !.leave_succeeded = TRUE, !.leave_succeeded_at = a.last_now]
<1>1. Good(a, c, n, e, l)
  BY AdvanceGood
<1> HIDE DEF a
<1>2. Sound(a) /\ a \in States /\ a.last_now \in Nat /\ a.leave_started \in Nat /\ a.last_now <= c
  BY <1>1 DEF Good, Sound, States
<1>3. ASSUME a.phase = "LEAVING" PROVE Good(Advance(b, a.last_now), c, n, e, l)
  <2>1. /\ b.phase = "LEAVING" /\ b.phase_since = a.phase_since
        /\ b.last_now = a.last_now /\ b.leave_started = a.leave_started
        /\ b.press_since = a.press_since /\ b.press = a.press /\ b.boot_down = a.boot_down
        /\ b.last_lease_ping = a.last_lease_ping /\ b.lease_armed = a.lease_armed
        /\ b.leave_succeeded_at = a.last_now
    BY <1>2, <1>3 DEF States
  <2>2. b \in States
    BY <1>2 DEF States
  <2> HIDE DEF b
  <2>3. Sound(b)
    BY <1>2, <1>3, <2>1, <2>2
       DEF Sound, TimesPassed, PressOffered, LeaseOfSession, FeedbackGiven
  <2>4. ResultAt(b) \in Nat /\ a.last_now <= ResultAt(b)
    BY <1>2, <2>1, TimeFacts DEF ResultAt, Later
  <2>5. n <= ResultAt(b) + Interval
    BY <1>1, <1>2, <2>4, CycleFacts DEF Good, Cycle
  <2>6. Good(b, c, n, e, l)
    BY <1>1, <1>3, <2>1, <2>3, <2>5 DEF Good, ResultPhases
  <2> QED BY <1>2, <2>6, AdvanceGood
<1> QED BY <1>1, <1>3 DEF LeaveSucceeded, a

LEMMA NetworkLeftGood ==
    ASSUME NEW s, NEW c, NEW n, NEW e, NEW l, Cycle(c, n, l), Good(s, c, n, e, l),
           NEW w \in BOOLEAN, NEW t \in Nat, t <= c
    PROVE  Good(NetworkLeft(s, w, t), c, n, e, l)
<1> DEFINE a == Advance(s, t)
           r == NetworkLeft(s, w, t)
<1>1. Good(a, c, n, e, l)
  BY AdvanceGood
<1>2. Sound(a) /\ a \in States /\ a.last_now \in Nat /\ a.last_now <= c
  BY <1>1 DEF Good, Sound, States
<1>3. Sound(r)
  BY NetworkLeftSound DEF Good
<1>4. CASE a.phase = "LEAVING"
  <2>1. r = LeaveSucceeded(a, a.last_now)
    BY <1>4 DEF NetworkLeft
  <2> HIDE DEF a, r
  <2>2. Good(r, c, n, e, l)
    BY <1>1, <1>2, <2>1, LeaveSucceededGood
  <2> QED BY <2>2 DEF r
<1>5. CASE a.phase # "LEAVING" /\ a.phase \in ResetFlow \cup FinalPhases
  BY <1>1, <1>5 DEF NetworkLeft
<1>6. CASE a.phase \notin ResetFlow \cup FinalPhases
  <2>1. r.phase \in {"RESTORING", "UNPROVISIONED"} /\ r.last_now = a.last_now
    <3> HIDE DEF a
    <3> QED BY <1>2, <1>6 DEF NetworkLeft, Disconnect, AwayPhase, EnterPhase, States, ResetFlow, a
  <2> HIDE DEF a, r
  <2>2. Good(r, c, n, e, l)
    BY <1>1, <1>3, <2>1, IdleGood DEF Good, ResetFlow, ResultPhases
  <2> QED BY <2>2 DEF r
<1> QED BY <1>4, <1>5, <1>6

LEMMA StackStartedGood ==
    ASSUME NEW s, NEW c, NEW n, NEW e, NEW l, Cycle(c, n, l), Good(s, c, n, e, l),
           NEW t \in Nat, t <= c
    PROVE  Good(StackStarted(s, FALSE, FALSE, t), c, n, e, l)
<1> DEFINE m == Monotonic(s, t)
           r == StackStarted(s, FALSE, FALSE, t)
<1>1. Good(m, c, n, e, l)
  BY MonotonicGood
<1>2. Sound(r) /\ m \in States
  BY <1>1, StackStartedSound DEF Good, Sound
<1>3. CASE m.phase \in FinalPhases
  BY <1>1, <1>3 DEF StackStarted
<1>4. CASE m.phase \notin FinalPhases
  <2>1. r.phase = "READY" /\ r.last_now = m.last_now
    <3> HIDE DEF m
    <3> QED BY <1>2, <1>4 DEF StackStarted, Begin, EnterPhase, States, m
  <2> HIDE DEF m, r
  <2>2. Good(r, c, n, e, l)
    BY <1>1, <1>2, <2>1, IdleGood DEF Good, ResetFlow, ResultPhases
  <2> QED BY <2>2 DEF r
<1> QED BY <1>3, <1>4

LEMMA StackRetryingGood ==
    ASSUME NEW s, NEW c, NEW n, NEW e, NEW l, Cycle(c, n, l), Good(s, c, n, e, l),
           NEW t \in Nat, t <= c
    PROVE  Good(StackRetrying(s, FALSE, t), c, n, e, l)
<1> DEFINE m == Monotonic(s, t)
           r == StackRetrying(s, FALSE, t)
<1>1. Good(m, c, n, e, l)
  BY MonotonicGood
<1>2. Sound(r) /\ m \in States
  BY <1>1, StackRetryingSound DEF Good, Sound
<1>3. CASE m.phase \in ResetFlow \cup FinalPhases
  BY <1>1, <1>3 DEF StackRetrying
<1>4. CASE m.phase \notin ResetFlow \cup FinalPhases
  <2>1. r.phase = "RESTORING" /\ r.last_now = m.last_now
    <3> HIDE DEF m
    <3> QED BY <1>2, <1>4 DEF StackRetrying, Retry, EnterPhase, States, m
  <2> HIDE DEF m, r
  <2>2. Good(r, c, n, e, l)
    BY <1>1, <1>2, <2>1, IdleGood DEF Good, ResetFlow, ResultPhases
  <2> QED BY <2>2 DEF r
<1> QED BY <1>3, <1>4

LEMMA GatewayEventGood ==
    ASSUME NEW s, NEW c, NEW n, NEW e, NEW l, Cycle(c, n, l), Good(s, c, n, e, l),
           NEW t \in Nat, t <= c
    PROVE  Good(GatewayEvent(s, FALSE, t), c, n, e, l)
<1> DEFINE a == Advance(s, t)
           r == GatewayEvent(s, FALSE, t)
<1>0. Sound(s)
  BY DEF Good
<1>1. Good(a, c, n, e, l) /\ a \in States
  <2>1. Good(a, c, n, e, l)
    BY AdvanceGood
  <2> HIDE DEF a
  <2> QED BY <2>1 DEF Good, Sound
<1>4. Sound(r)
  BY <1>0, GatewayEventSound
<1>2. Alike(a, r)
  <2> HIDE DEF a
  <2> QED BY <1>1 DEF Alike, GatewayEvent, States, a
<1> HIDE DEF a, r
<1>3. Good(r, c, n, e, l)
  BY <1>1, <1>2, <1>4, AlikeGood
<1> QED BY <1>3 DEF r

LEMMA BootInputGood ==
    ASSUME NEW s, NEW c, NEW n, NEW e, NEW l, Cycle(c, n, l), Good(s, c, n, e, l),
           NEW down \in BOOLEAN, NEW t \in Nat, t <= c
    PROVE  Good(BootInput(s, down, t), c, n, e, l)
<1> DEFINE a == Advance(s, t)
           r == BootInput(s, down, t)
<1>0. Sound(s)
  BY DEF Good
<1>1. Good(a, c, n, e, l) /\ a \in States
  <2>1. Good(a, c, n, e, l)
    BY AdvanceGood
  <2> HIDE DEF a
  <2> QED BY <2>1 DEF Good, Sound
<1>4. Sound(r)
  BY <1>0, BootInputSound
<1>2. Alike(a, r)
  <2> HIDE DEF a
  <2> QED BY <1>1 DEF Alike, BootInput, BootPressed, BootReleased, States, a
<1> HIDE DEF a, r
<1>3. Good(r, c, n, e, l)
  BY <1>1, <1>2, <1>4, AlikeGood
<1> QED BY <1>3 DEF r

LEMMA TakeActionsGood ==
    ASSUME NEW s, NEW c, NEW n, NEW e, NEW l, Good(s, c, n, e, l)
    PROVE  Good(TakeActions(s), c, n, e, l)
<1>1. Sound(TakeActions(s)) /\ s \in States
  BY TakeActionsSound DEF Good, Sound
<1>2. Alike(s, TakeActions(s))
  BY <1>1 DEF Alike, TakeActions, States
<1> QED BY <1>1, <1>2, AlikeGood

LEMMA ForcedWipeArmedGood ==
    ASSUME NEW s, NEW c, NEW n, NEW e, NEW l, Cycle(c, n, l), Good(s, c, n, e, l),
           NEW t \in Nat, t <= c
    PROVE  Good(ForcedWipeArmed(s, TRUE, t), c, n, e, l)
<1> DEFINE a == Advance(s, t)
           r == ForcedWipeArmed(s, TRUE, t)
<1>1. Good(a, c, n, e, l)
  BY AdvanceGood
<1>2. Sound(r) /\ Sound(a) /\ a \in States
  BY <1>1, ForcedWipeArmedSound DEF Good, Sound
<1>3. CASE a.phase # "FORCE_PENDING"
  BY <1>1, <1>3 DEF ForcedWipeArmed
<1>4. CASE a.phase = "FORCE_PENDING"
  <2>1. /\ r.phase = "RESULT_FORCED" /\ r.phase_since = a.last_now
        /\ r.last_now = a.last_now /\ r.leave_started = a.leave_started
    <3> HIDE DEF a
    <3> QED BY <1>2, <1>4 DEF ForcedWipeArmed, EnterPhase, States, a
  <2> HIDE DEF a, r
  <2>2. a.last_now >= a.leave_started + LEAVE_MIN_RED
    BY <1>2, <1>4, TimeFacts DEF Sound, States, TimesPassed, FeedbackGiven
  <2>3. e = "LEAVE"
    <3>1. a.last_now \in Nat /\ a.leave_started \in Nat
      BY <1>2 DEF States
    <3> QED BY <1>1, <1>4, <2>2, <3>1, StillEarly, TimeFacts
  <2>4. Good(r, c, n, e, l)
    BY <1>1, <1>2, <1>4, <2>1, <2>3 DEF Good, ResetFlow, ResultPhases
  <2> QED BY <2>4 DEF r
<1> QED BY <1>3, <1>4

-----------------------------------------------------------------------------
(* The end of a cycle.                                                      *)

\* The record has caught up with the sample of the clock.
Caught(s, n) ==
    /\ n <= s.last_now
    /\ s.phase = "LEAVING" /\ s.leave_succeeded => n <= ResultAt(s)

\* The light is that of the phase, if the phase is one of a reset.
Matches(phase, e) ==
    /\ phase \in {"LEAVING", "FORCE_PENDING"} => e = "LEAVE"
    /\ phase \in ResultPhases => e = Lamp(phase)
    /\ phase = "TERMINAL" => e = "TERMINAL"

LEMMA AdvanceCaught ==
    ASSUME NEW s, Sound(s), NEW n \in Nat
    PROVE  Caught(Advance(s, n), n)
<1> DEFINE m == Monotonic(s, n)
           j == AdvanceJoin(m)
           r == AdvanceReset(j)
           v == AdvanceLeave(r)
           a == AdvanceResult(v)
<1>1. Sound(m) /\ Sound(j) /\ Sound(r) /\ Sound(v)
  BY MonotonicSound, AdvanceJoinSound, AdvanceResetSound, AdvanceLeaveSound
<1>2. m \in States /\ j \in States /\ r \in States /\ v \in States /\ s \in States
  BY <1>1 DEF Sound
<1>3. n <= m.last_now
  BY <1>2 DEF Monotonic, Later, States
<1>4. j.last_now = m.last_now
  <2> HIDE DEF m
  <2> QED BY <1>2 DEF AdvanceJoin, Accept, EnterPhase, States, j
<1>5. r.last_now = j.last_now
  <2> HIDE DEF j
  <2> QED BY <1>2 DEF AdvanceReset, Accept, EnterPhase, States, r
<1>6. v.last_now = r.last_now /\ (v.phase = "LEAVING" /\ v.leave_succeeded => v.last_now < ResultAt(v))
  <2> HIDE DEF r
  <2>1. CASE v = r
    <3>1. r.last_now \in Nat /\ ResultAt(r) \in Nat
      BY <1>2, TimeFacts DEF States, ResultAt, Later
    <3>2. ~(r.phase = "LEAVING" /\ r.leave_succeeded /\ r.last_now >= ResultAt(r))
      <4> SUFFICES ASSUME r.phase = "LEAVING", r.leave_succeeded, r.last_now >= ResultAt(r)
                   PROVE  FALSE
        OBVIOUS
      <4>1. v.phase = "RESULT_GRACEFUL"
        BY <1>2 DEF AdvanceLeave, EnterPhase, States, v
      <4> QED BY <2>1, <4>1
    <3> QED BY <2>1, <3>1, <3>2
  <2>2. CASE v # r
    BY <1>2, <2>2 DEF AdvanceLeave, EnterPhase, States, v
  <2> QED BY <2>1, <2>2
<1>7. CASE a = v
  <2>1. v.last_now \in Nat /\ ResultAt(v) \in Nat
    BY <1>2, TimeFacts DEF States, ResultAt, Later
  <2>2. Caught(v, n)
    <3> HIDE DEF m, j, r, v
    <3> QED BY <1>3, <1>4, <1>5, <1>6, <2>1 DEF Caught
  <2> QED BY <1>7, <2>2 DEF Advance
<1>8. CASE a # v
  <2>1. a.phase = "TERMINAL" /\ a.last_now = v.last_now
    <3> HIDE DEF v
    <3> QED BY <1>2, <1>8 DEF AdvanceResult, EnterPhase, States, a
  <2>2. Caught(a, n)
    <3> HIDE DEF m, j, r, v, a
    <3> QED BY <1>3, <1>4, <1>5, <1>6, <2>1 DEF Caught
  <2> QED BY <2>2 DEF Advance
<1> QED BY <1>7, <1>8

LEMMA DispatchCaught ==
    ASSUME NEW s, Sound(s), Caught(s, now), now \in Nat
    PROVE  Caught(DispatchActions(s), now)
<1> DEFINE k == TakeActions(s)
           a == Advance(k, now)
           r == ForcedWipeArmed(k, TRUE, now)
<1>1. Sound(k) /\ s \in States
  BY TakeActionsSound DEF Sound
<1>2. Caught(k, now)
  BY <1>1 DEF Caught, TakeActions, ResultAt, States
<1>3. Caught(r, now)
  <2>1. Caught(a, now) /\ Sound(a) /\ a \in States
    <3> HIDE DEF k
    <3> QED BY <1>1, AdvanceCaught, AdvanceSound DEF Sound
  <2>2. CASE a.phase # "FORCE_PENDING"
    BY <2>1, <2>2 DEF ForcedWipeArmed
  <2>3. CASE a.phase = "FORCE_PENDING"
    <3>1. r.phase = "RESULT_FORCED" /\ r.last_now = a.last_now
      <4> HIDE DEF a
      <4> QED BY <2>1, <2>3 DEF ForcedWipeArmed, EnterPhase, States, a
    <3> HIDE DEF a, r
    <3>2. Caught(r, now)
      BY <2>1, <3>1 DEF Caught
    <3> QED BY <3>2 DEF r
  <2> QED BY <2>2, <2>3
<1> QED BY <1>2, <1>3 DEF DispatchActions

LEMMA DispatchGood ==
    ASSUME NEW s, NEW c, NEW e, NEW l, Cycle(c, now, l), Good(s, c, now, e, l)
    PROVE  Good(DispatchActions(s), c, now, e, l)
BY TakeActionsGood, ForcedWipeArmedGood DEF DispatchActions, Cycle

LEMMA FlashEffect ==
    ASSUME NEW x, NEW p, NEW a, NEW b, NEW e
    PROVE  TwoFlashes(x, p, a, b, e).effect = e
BY DEF TwoFlashes, Led

LEMMA ReadyEffect ==
    ASSUME NEW s, NEW t
    PROVE  ReadyLed(s, t).effect \in {"LOWER_EVENT", "UPPER_EVENT", "LEASE_UNARMED",
                                      "LEASE_WARNING", "READY_HEARTBEAT"}
BY FlashEffect DEF ReadyLed, LeaseWarningLed, Lit, Led

LEMMA LightOfPhase ==
    ASSUME NEW s, Sound(s), NEW n
    PROVE  LET e == LightAt(s, n).effect
           IN  /\ Matches(s.phase, e)
               /\ e \in ResultLights => s.phase \in ResultPhases
               /\ e = "TERMINAL" => s.phase = "TERMINAL"
<1> DEFINE t == Later(n, s.last_now)
           e == LightAt(s, n).effect
<1>1. s.phase \in Phases
  BY DEF Sound, States
<1>2. CASE HoldsForReset(s)
  <2>1. e = "RESET_HOLD"
    BY <1>2 DEF LightAt, ResetHoldLed, Lit, Led
  <2>2. s.phase \in {"READY", "POST_JOIN", "RESTORING"}
    BY <1>2 DEF HoldsForReset, AcceptsReset
  <2> HIDE DEF e
  <2>3. /\ Matches(s.phase, e)
        /\ e \in ResultLights => s.phase \in ResultPhases
        /\ e = "TERMINAL" => s.phase = "TERMINAL"
    BY <2>1, <2>2 DEF Matches, ResultLights, ResultPhases
  <2> QED BY <2>3 DEF e
<1>3. CASE ~HoldsForReset(s)
  <2>1. LightAt(s, n) = PhaseLed(s, t)
    BY <1>3 DEF LightAt
  <2> HIDE DEF t
  <2>2. /\ s.phase \in {"LEAVING", "FORCE_PENDING"} => PhaseLed(s, t).effect = "LEAVE"
        /\ s.phase = "RESULT_GRACEFUL" => PhaseLed(s, t).effect = "GRACEFUL_RESULT"
        /\ s.phase = "RESULT_FORCED" => PhaseLed(s, t).effect = "FORCED_RESULT"
    BY DEF PhaseLed, Led
  <2>3. s.phase = "TERMINAL" => PhaseLed(s, t).effect = "TERMINAL"
    BY FlashEffect DEF PhaseLed
  <2>4. s.phase \in {"STARTING", "UNPROVISIONED", "JOINING", "POST_JOIN", "ERROR"} =>
            PhaseLed(s, t).effect \in {"OFF", "JOIN_HOLD", "UNPROVISIONED_HEARTBEAT",
                                       "JOINING", "POST_JOIN", "ERROR"}
    BY DEF PhaseLed, Lit, Led
  <2>5. s.phase = "RESTORING" => PhaseLed(s, t).effect = "RESTORING"
    BY FlashEffect DEF PhaseLed
  <2>6. s.phase = "READY" =>
            PhaseLed(s, t).effect \in {"LOWER_EVENT", "UPPER_EVENT", "LEASE_UNARMED",
                                       "LEASE_WARNING", "READY_HEARTBEAT"}
    BY ReadyEffect DEF PhaseLed
  <2>7. e = PhaseLed(s, t).effect
    BY <2>1
  <2> HIDE DEF e
  <2>8. /\ Matches(s.phase, e)
        /\ e \in ResultLights => s.phase \in ResultPhases
        /\ e = "TERMINAL" => s.phase = "TERMINAL"
    BY <1>1, <2>2, <2>3, <2>4, <2>5, <2>6, <2>7
       DEF Matches, ResultLights, ResultPhases, Lamp, Phases
  <2> QED BY <2>8 DEF e
<1> QED BY <1>2, <1>3

\* A light that takes its new effect at the end of a cycle.
LEMMA LitGood ==
    ASSUME NEW s, NEW c, NEW n, NEW e, NEW l, Cycle(c, n, l), Good(s, c, n, e, l),
           NEW f, Matches(s.phase, f)
    PROVE  Good(s, c, n, f, IF f = e THEN l ELSE c)
<1> DEFINE k == IF f = e THEN l ELSE c
<1>1. /\ s.last_now \in Nat /\ s.leave_started \in Nat /\ s.phase_since \in Nat
      /\ s.phase \in Phases
  BY DEF Good, Sound, States
<1>2. (k = l /\ f = e) \/ (k = c /\ f # e)
  OBVIOUS
<1> HIDE DEF k
<1>3. s.phase \in ResetFlow /\ f = "LEAVE" => k <= s.leave_started + Slack
  <2> SUFFICES ASSUME s.phase \in ResetFlow, f = "LEAVE" PROVE k <= s.leave_started + Slack
    OBVIOUS
  <2>1. s.phase \in {"LEAVING", "FORCE_PENDING"}
    BY DEF Matches, Lamp, ResetFlow, ResultPhases
  <2> QED BY <1>1, <1>2, <2>1, CycleFacts DEF Good, Cycle
<1>4. s.phase \in ResultPhases => f = Lamp(s.phase) /\ k <= s.phase_since + Slack
  <2> SUFFICES ASSUME s.phase \in ResultPhases
               PROVE  f = Lamp(s.phase) /\ k <= s.phase_since + Slack
    OBVIOUS
  <2>1. f = Lamp(s.phase)
    BY DEF Matches
  <2> QED BY <1>1, <1>2, <2>1, CycleFacts DEF Good, Cycle
<1>5. Good(s, c, n, f, k)
  BY <1>1, <1>3, <1>4 DEF Good, Matches
<1> QED BY <1>5 DEF k

\* A new cycle, and its sample of the clock.
LEMMA SampledGood ==
    ASSUME NEW s, NEW c \in Nat, NEW n \in Nat, NEW e, NEW l, Good(s, c, n, e, l),
           c <= n + Interval, Caught(s, n), Matches(s.phase, e)
    PROVE  Good(s, c, c, e, l)
<1>1. /\ s.last_now \in Nat /\ s.leave_succeeded_at \in Nat /\ s.leave_started \in Nat
      /\ s.phase_since \in Nat
  BY DEF Good, Sound, States
<1>2. ResultAt(s) \in Nat
  BY <1>1, TimeFacts DEF ResultAt, Later
<1>3. c <= s.last_now + Interval
  BY <1>1, CycleFacts DEF Caught
<1>4. s.phase = "LEAVING" /\ s.leave_succeeded => c <= ResultAt(s) + Interval
  BY <1>2, CycleFacts DEF Caught
<1>5. s.phase \in ResultPhases => e = Lamp(s.phase) /\ e # "LEAVE"
  BY DEF Matches, Lamp
<1> QED BY <1>3, <1>4, <1>5 DEF Good, Matches

\* The clock goes on.
LEMMA LaterGood ==
    ASSUME NEW s, NEW c \in Nat, NEW d \in Nat, c <= d, NEW n, NEW e, NEW l, Good(s, c, n, e, l)
    PROVE  Good(s, d, n, e, l)
<1>1. s.last_now \in Nat
  BY DEF Good, Sound, States
<1> QED BY <1>1 DEF Good

\* What the light that comes on at the end of a cycle relieves.
LEMMA LitSeen ==
    ASSUME NEW s, NEW c, NEW n, NEW e, NEW l, Cycle(c, n, l), Good(s, c, n, e, l), NEW f,
           f \in ResultLights => s.phase \in ResultPhases,
           f = "TERMINAL" => s.phase = "TERMINAL"
    PROVE  /\ f \in ResultLights /\ e \notin ResultLights =>
                  e = "LEAVE" /\ c - l >= LEAVE_MIN_RED - Slack
           /\ f = "TERMINAL" /\ e # "TERMINAL" =>
                  e \in ResultLights /\ c - l >= RESULT - Slack
<1>1. /\ s.last_now \in Nat /\ s.leave_started \in Nat /\ s.phase_since \in Nat
      /\ s.last_now <= c /\ s.phase_since <= s.last_now
  BY DEF Good, Sound, States, TimesPassed
<1>2. ASSUME f \in ResultLights, e \notin ResultLights
      PROVE  e = "LEAVE" /\ c - l >= LEAVE_MIN_RED - Slack
  <2>1. s.phase \in ResultPhases /\ s.phase \in ResetFlow
    BY <1>2 DEF ResultPhases, ResetFlow
  <2>2. e = "LEAVE"
    BY <1>2, <2>1 DEF Good, Lamp, ResultLights
  <2>3. s.leave_started + LEAVE_MIN_RED <= s.phase_since
    BY <1>1, <2>1, TimeFacts DEF Good, Sound, FeedbackGiven, ResultPhases
  <2>4. l <= s.leave_started + Slack
    BY <2>1, <2>2 DEF Good
  <2> QED BY <1>1, <2>2, <2>3, <2>4, CycleFacts, TimeFacts DEF Cycle
<1>3. ASSUME f = "TERMINAL", e # "TERMINAL"
      PROVE  e \in ResultLights /\ c - l >= RESULT - Slack
  <2>1. e \in ResultLights /\ l + RESULT <= s.last_now + Slack
    BY <1>3 DEF Good
  <2> QED BY <1>1, <2>1, CycleFacts, TimeFacts DEF Cycle
<1> QED BY <1>2, <1>3

-----------------------------------------------------------------------------
(* The steps of the gateway.                                                *)

\* The time a cycle, or the pause before it, may take.
Stretch(g) == IF g = "delay" THEN Interval ELSE MaxDelay

Posted == [kind : Messages, at : Nat]

Lights(c, q, g, n, s, e, l) ==
    /\ g \in {"delay", "queue", "light"}
    /\ c \in Nat /\ n \in Nat /\ l \in Nat
    /\ n <= c /\ l <= c /\ c <= n + Stretch(g)
    /\ q \in Seq(Posted)
    /\ \A i \in 1 .. Len(q) : q[i].at <= c
    /\ Good(s, c, n, e, l)
    /\ g # "queue" => Caught(s, n)
    /\ g = "delay" => Matches(s.phase, e)

LightInv == Lights(clock, queue, stage, now, state, light, litSince)

LEMMA ResetInitInv == ResetInit => LightInv
<1> SUFFICES ASSUME ResetInit PROVE LightInv
  OBVIOUS
<1> DEFINE s == InitState(0)
           m == Monotonic(s, 0)
           r == StackStarted(s, FALSE, FALSE, 0)
<1>1. Sound(s) /\ s \in States
  BY InitStateSound DEF Sound
<1>2. Sound(r) /\ m \in States /\ m.phase = "STARTING" /\ m.last_now = 0
  <2>1. Sound(r)
    BY <1>1, StackStartedSound
  <2>2. s.phase = "STARTING" /\ s.last_now = 0
    BY DEF InitState
  <2>3. Sound(m)
    BY <1>1, MonotonicSound
  <2> HIDE DEF s
  <2> QED BY <1>1, <2>1, <2>2, <2>3 DEF Monotonic, Later, States, Sound
<1>3. r.phase = "READY" /\ r.last_now = 0
  <2> HIDE DEF m
  <2> QED BY <1>2 DEF StackStarted, Begin, EnterPhase, States, FinalPhases, m
<1> HIDE DEF s, m, r
<1>4. Good(r, 0, 0, "OFF", 0)
  BY <1>2, <1>3, IdleGood, CycleFacts DEF ResetFlow, ResultPhases
<1>5. Lights(0, <<>>, "delay", 0, r, "OFF", 0)
  BY <1>3, <1>4, CycleFacts DEF Lights, Stretch, Caught, Matches, ResultPhases
<1> QED BY <1>5 DEF ResetInit, LightInv, r, s

LEMMA TickInv == LightInv /\ Tick => LightInv'
<1> SUFFICES ASSUME LightInv, Tick PROVE LightInv'
  OBVIOUS
<1> DEFINE d == clock + 1
<1>1. clock \in Nat /\ now \in Nat /\ litSince \in Nat /\ d \in Nat /\ clock <= d
      /\ d <= now + Stretch(stage)
  BY CycleFacts DEF LightInv, Lights, Tick, Stretch
<1> HIDE DEF d
<1>2. Good(state, d, now, light, litSince)
  BY <1>1, LaterGood DEF LightInv, Lights
<1>3. \A i \in 1 .. Len(queue) : queue[i].at <= d
  <2> SUFFICES ASSUME NEW i \in 1 .. Len(queue) PROVE queue[i].at <= d
    OBVIOUS
  <2>1. queue \in Seq(Posted) /\ queue[i].at <= clock
    BY DEF LightInv, Lights
  <2>2. queue[i] \in Posted
    BY <2>1
  <2>3. queue[i].at \in Nat
    BY <2>2 DEF Posted
  <2> QED BY <1>1, <2>1, <2>3
<1>4. Lights(d, queue, stage, now, state, light, litSince)
  BY <1>1, <1>2, <1>3 DEF LightInv, Lights
<1> QED BY <1>4 DEF LightInv, Tick, d

LEMMA PostInv == LightInv /\ Post => LightInv'
<1> SUFFICES ASSUME LightInv, NEW kind \in Messages,
                    queue' = Append(queue, [kind |-> kind, at |-> clock]),
                    UNCHANGED <<clock, stage, now, state, light, litSince>>
             PROVE  LightInv'
  BY DEF Post
<1> DEFINE m == [kind |-> kind, at |-> clock]
           q == Append(queue, m)
<1>1. m \in Posted /\ m.at <= clock
  BY DEF LightInv, Lights, Posted
<1>2. queue \in Seq(Posted)
  BY DEF LightInv, Lights
<1> HIDE DEF m
<1>3. q \in Seq(Posted) /\ \A i \in 1 .. Len(q) : q[i].at <= clock
  BY <1>1, <1>2 DEF LightInv, Lights
<1> HIDE DEF q
<1>4. Lights(clock, q, stage, now, state, light, litSince)
  BY <1>3 DEF LightInv, Lights
<1> QED BY <1>4 DEF LightInv, q, m

LEMMA BeginCycleInv == LightInv /\ BeginCycle => LightInv'
<1> SUFFICES ASSUME LightInv, BeginCycle PROVE LightInv'
  OBVIOUS
<1>1. stage = "delay"
  BY DEF BeginCycle
<1>2. Good(state, clock, clock, light, litSince)
  BY <1>1, SampledGood DEF LightInv, Lights, Stretch
<1>3. Lights(clock, queue, "queue", clock, state, light, litSince)
  BY <1>2, CycleFacts DEF LightInv, Lights, Stretch
<1> QED BY <1>3 DEF LightInv, BeginCycle

LEMMA LightCycle ==
    ASSUME LightInv, stage # "delay"
    PROVE  Cycle(clock, now, litSince)
BY DEF LightInv, Lights, Stretch, Cycle

LEMMA HandledGood ==
    ASSUME Cycle(clock, now, litSince), Good(state, clock, now, light, litSince),
           NEW m \in Posted, m.at <= clock
    PROVE  Good(Handled(m), clock, now, light, litSince)
<1>0. m.at \in Nat /\ m.kind \in Messages
  BY DEF Posted
<1>1. CASE m.kind = "LEAVE_SUCCEEDED"
  BY <1>0, <1>1, LeaveSucceededGood DEF Handled
<1>2. CASE m.kind = "NETWORK_LEFT"
  BY <1>0, <1>2, NetworkLeftGood DEF Handled
<1>3. CASE m.kind = "STACK_STARTED"
  BY <1>0, <1>3, StackStartedGood DEF Handled
<1>4. CASE m.kind = "STACK_RETRYING"
  BY <1>0, <1>4, StackRetryingGood DEF Handled
<1>5. CASE m.kind = "GATEWAY_EVENT"
  BY <1>0, <1>5, GatewayEventGood DEF Handled
<1> QED BY <1>0, <1>1, <1>2, <1>3, <1>4, <1>5 DEF Messages

LEMMA HandleMessageInv == LightInv /\ HandleMessage => LightInv'
<1> SUFFICES ASSUME LightInv, HandleMessage PROVE LightInv'
  OBVIOUS
<1> DEFINE m == Head(queue)
           q == Tail(queue)
           s == Handled(m)
<1>1. stage = "queue" /\ queue # <<>> /\ queue \in Seq(Posted)
  BY DEF HandleMessage, LightInv, Lights
<1>2. m \in Posted /\ m.at <= clock
  <2>1. Len(queue) \in Nat \ {0} /\ m = queue[1] /\ m \in Posted
    BY <1>1
  <2>2. queue[1].at <= clock
    BY <2>1 DEF LightInv, Lights
  <2> QED BY <2>1, <2>2
<1>3. q \in Seq(Posted) /\ \A i \in 1 .. Len(q) : q[i].at <= clock
  BY <1>1 DEF LightInv, Lights
<1> HIDE DEF m, q
<1>4. Good(s, clock, now, light, litSince)
  BY <1>1, <1>2, LightCycle, HandledGood DEF LightInv, Lights
<1> HIDE DEF s
<1>5. Lights(clock, q, "queue", now, s, light, litSince)
  BY <1>1, <1>3, <1>4 DEF LightInv, Lights
<1> QED BY <1>1, <1>5 DEF LightInv, HandleMessage, m, q, s

LEMMA ActInv == LightInv /\ Act => LightInv'
<1> SUFFICES ASSUME LightInv, Act PROVE LightInv'
  OBVIOUS
<1>1. PICK down \in BOOLEAN :
          /\ stage = "queue" /\ stage' = "light"
          /\ state' = LET s == IF down = state.boot_down THEN state
                               ELSE BootInput(state, down, now)
                      IN  DispatchActions(Advance(s, now))
          /\ UNCHANGED <<clock, queue, now, light, litSince>>
  BY DEF Act
<1> DEFINE s == IF down = state.boot_down THEN state ELSE BootInput(state, down, now)
           a == Advance(s, now)
           r == DispatchActions(a)
<1>2. Cycle(clock, now, litSince) /\ Good(state, clock, now, light, litSince)
      /\ now \in Nat /\ now <= clock
  BY <1>1, LightCycle DEF LightInv, Lights
<1>3. Good(s, clock, now, light, litSince)
  <2>1. Good(BootInput(state, down, now), clock, now, light, litSince)
    BY <1>2, BootInputGood
  <2> QED BY <1>2, <2>1
<1> HIDE DEF s
<1>4. Good(a, clock, now, light, litSince)
  BY <1>2, <1>3, AdvanceGood
<1>5. Caught(a, now)
  BY <1>2, <1>3, AdvanceCaught DEF Good
<1> HIDE DEF a
<1>6. Good(r, clock, now, light, litSince) /\ Caught(r, now)
  BY <1>2, <1>4, <1>5, DispatchGood, DispatchCaught DEF Good
<1> HIDE DEF r
<1>7. Lights(clock, queue, "light", now, r, light, litSince)
  BY <1>1, <1>6 DEF LightInv, Lights, Stretch
<1> QED BY <1>1, <1>7 DEF LightInv, r, a, s

LEMMA ApplyLedInv == LightInv /\ ApplyLed => LightInv'
<1> SUFFICES ASSUME LightInv, ApplyLed PROVE LightInv'
  OBVIOUS
<1> DEFINE f == LightAt(state, now).effect
           k == IF f = light THEN litSince ELSE clock
<1>1. stage = "light" /\ Cycle(clock, now, litSince) /\ Good(state, clock, now, light, litSince)
  BY LightCycle DEF ApplyLed, LightInv, Lights
<1>2. Matches(state.phase, f)
  BY <1>1, LightOfPhase DEF Good
<1> HIDE DEF f
<1>3. Good(state, clock, now, f, k)
  BY <1>1, <1>2, LitGood
<1>4. k \in Nat /\ k <= clock
  BY <1>1 DEF Cycle
<1> HIDE DEF k
<1>5. Lights(clock, queue, "delay", now, state, f, k)
  BY <1>1, <1>2, <1>3, <1>4, CycleFacts DEF LightInv, Lights, Stretch, Cycle
<1> QED BY <1>5 DEF LightInv, ApplyLed, f, k

LEMMA LightInvInductive == LightInv /\ [ResetNext]_resetVars => LightInv'
<1>1. LightInv /\ UNCHANGED resetVars => LightInv'
  BY DEF LightInv, resetVars
<1> QED BY <1>1, TickInv, PostInv, BeginCycleInv, HandleMessageInv, ActInv, ApplyLedInv
        DEF ResetNext

\* A reset is seen: whatever the clock, the reports of the stack and the lateness of
\* the task's cycles, red is lit for all of LEAVE_MIN_RED before green or purple, and
\* green or purple for all of RESULT before the terminal pattern, but for the Slack
\* of the cycles (cr11_ui_state.c:351-376, cr11_ui_runtime.c).
THEOREM ResetSeenTheorem == ResetSpec => ResetIsSeen
<1> DEFINE Seen ==
        /\ light' \in ResultLights /\ light \notin ResultLights =>
             Relieves({"LEAVE"}, LEAVE_MIN_RED - Slack)
        /\ light' = "TERMINAL" /\ light # "TERMINAL" =>
             Relieves(ResultLights, RESULT - Slack)
<1>1. LightInv /\ [ResetNext]_resetVars => [Seen]_resetVars
  <2> SUFFICES ASSUME LightInv, ResetNext PROVE Seen
    OBVIOUS
  <2>1. CASE ApplyLed
    <3> DEFINE f == LightAt(state, now).effect
    <3>1. Cycle(clock, now, litSince) /\ Good(state, clock, now, light, litSince) /\ light' = f
      BY <2>1, LightCycle DEF ApplyLed, LightInv, Lights
    <3>2. /\ f \in ResultLights => state.phase \in ResultPhases
          /\ f = "TERMINAL" => state.phase = "TERMINAL"
      BY <3>1, LightOfPhase DEF Good
    <3> HIDE DEF f
    <3>3. /\ f \in ResultLights /\ light \notin ResultLights =>
                 light = "LEAVE" /\ clock - litSince >= LEAVE_MIN_RED - Slack
          /\ f = "TERMINAL" /\ light # "TERMINAL" =>
                 light \in ResultLights /\ clock - litSince >= RESULT - Slack
      BY <3>1, <3>2, LitSeen
    <3> QED BY <3>1, <3>3 DEF Relieves
  <2>2. CASE Tick \/ Post \/ BeginCycle \/ HandleMessage \/ Act
    <3>1. light' = light
      BY <2>2 DEF Tick, Post, BeginCycle, HandleMessage, Act
    <3> QED BY <3>1
  <2> QED BY <2>1, <2>2 DEF ResetNext
<1> QED BY <1>1, ResetInitInv, LightInvInductive, PTL DEF ResetSpec, ResetIsSeen
=============================================================================
