------------------------ MODULE LeaseWatchdogProofs ------------------------
(***************************************************************************)
(* The lease and its watchdog on real time, for every length of the queue,   *)
(* every span that TimeAssumption, LeaseAssumption and SpanAssumption allow,  *)
(* any number of commands and any number of failed calls.                   *)
(*                                                                         *)
(* A session keeps its lease in every function of the state machine; the      *)
(* light shows the last pulse in some cycle after the lease has run out and   *)
(* before the watchdog bites; and the invariant ties the clock, the stamps in *)
(* the queue and the record to the deadline of the watchdog.                  *)
(***************************************************************************)
EXTENDS LeaseWatchdog, TLAPS

LEMMA SpanFacts ==
    /\ JOIN_HOLD \in Nat /\ RESET_HOLD \in Nat /\ RESULT \in Nat
    /\ LEAVE_MIN_RED \in Nat /\ LEAVE_TIMEOUT \in Nat
    /\ LEASE_TIMEOUT \in Nat /\ LEASE_WDT_GUARD \in Nat /\ FINAL_PULSE_GRACE \in Nat
    /\ LEASE_WDT_ARM \in Nat
    /\ LEASE_WDT_ARM + LEASE_WDT_GUARD = LEASE_TIMEOUT + FINAL_PULSE_GRACE
    /\ PERIOD \in Nat /\ 0 < PERIOD /\ PERIOD < LEASE_WDT_ARM
    /\ LEASE_WARN \in Nat /\ LEASE_WARN <= LEASE_WDT_ARM
    /\ WDT_RETRY \in Nat /\ 0 < WDT_RETRY
BY TimeAssumption, LightAssumption, LeaseAssumption, SpanAssumption DEF LEASE_WDT_ARM

-----------------------------------------------------------------------------
(* What the state machine's functions do to a lease.                        *)

\* The session of r is one that s had.
Carried(s, r) ==
    /\ r \in States
    /\ r.phase = "READY" => s.phase = "READY"
    /\ r.lease_armed = s.lease_armed
    /\ r.last_lease_ping = s.last_lease_ping

LEMMA CarriedOn ==
    ASSUME NEW s, NEW r, NEW z, Carried(s, r), Carried(r, z)
    PROVE  Carried(s, z)
BY DEF Carried

LEMMA AcceptCarries ==
    ASSUME NEW s \in States, NEW p \in Phases, p # "READY", NEW a \in Actions
    PROVE  Carried(s, Accept(s, p, a)) /\ Accept(s, p, a).last_now = s.last_now
BY DEF States, EnterPhase, Accept, Presses, Carried

LEMMA JoinCarries ==
    ASSUME NEW s \in States
    PROVE  Carried(s, AdvanceJoin(s)) /\ AdvanceJoin(s).last_now = s.last_now
<1>1. Carried(s, s)
  BY DEF Carried
<1>2. "JOINING" \in Phases /\ "START_STEERING" \in Actions
  BY DEF Phases, Actions
<1> QED BY <1>1, <1>2, AcceptCarries DEF AdvanceJoin

LEMMA ResetCarries ==
    ASSUME NEW s \in States
    PROVE  Carried(s, AdvanceReset(s)) /\ AdvanceReset(s).last_now = s.last_now
<1> DEFINE a == Accept(s, "LEAVING", "BEGIN_LOCAL_RESET")
           r == [a EXCEPT !.leave_started = s.last_now, !.leave_succeeded = FALSE]
<1>1. Carried(s, a) /\ a.last_now = s.last_now
  BY AcceptCarries DEF Phases, Actions
<1>2. Carried(a, r) /\ r.last_now = a.last_now
  <2>1. a \in States /\ s.last_now \in Nat
    BY <1>1 DEF Carried, States
  <2> HIDE DEF a
  <2> QED BY <2>1 DEF States, Carried
<1>3. Carried(s, r) /\ r.last_now = s.last_now
  <2> HIDE DEF a, r
  <2> QED BY <1>1, <1>2, CarriedOn
<1>4. Carried(s, s)
  BY DEF Carried
<1> QED BY <1>3, <1>4 DEF AdvanceReset

LEMMA EnterCarries ==
    ASSUME NEW s \in States, NEW p \in Phases, p # "READY", NEW t \in Nat
    PROVE  Carried(s, EnterPhase(s, p, t)) /\ EnterPhase(s, p, t).last_now = s.last_now
BY DEF States, EnterPhase, Carried

LEMMA LeaveCarries ==
    ASSUME NEW s \in States
    PROVE  Carried(s, AdvanceLeave(s)) /\ AdvanceLeave(s).last_now = s.last_now
<1> DEFINE f == EnterPhase(s, "FORCE_PENDING", s.last_now)
           g == EnterPhase(s, "RESULT_GRACEFUL", ResultAt(s))
           w == [f EXCEPT !.pending = @ \cup {"ARM_FORCED_WIPE"}]
<1>1. ResultAt(s) \in Nat /\ s.last_now \in Nat
  BY SpanFacts DEF ResultAt, Later, States
<1>2. Carried(s, f) /\ f.last_now = s.last_now
  BY <1>1, EnterCarries DEF Phases
<1>3. Carried(s, g) /\ g.last_now = s.last_now
  BY <1>1, EnterCarries DEF Phases
<1>4. Carried(f, w) /\ w.last_now = f.last_now
  <2>1. f \in States
    BY <1>2 DEF Carried
  <2> HIDE DEF f
  <2> QED BY <2>1 DEF States, Actions, Carried
<1>5. Carried(s, w) /\ w.last_now = s.last_now
  <2> HIDE DEF f, w
  <2> QED BY <1>2, <1>4, CarriedOn
<1>6. Carried(s, s)
  BY DEF Carried
<1> QED BY <1>3, <1>5, <1>6 DEF AdvanceLeave

LEMMA ResultCarries ==
    ASSUME NEW s \in States
    PROVE  Carried(s, AdvanceResult(s)) /\ AdvanceResult(s).last_now = s.last_now
<1> DEFINE e == EnterPhase(s, "TERMINAL", s.phase_since + RESULT)
           r == [e EXCEPT !.press = "IGNORED", !.require_release = TRUE]
<1>1. s.phase_since + RESULT \in Nat
  BY SpanFacts DEF States
<1>2. Carried(s, e) /\ e.last_now = s.last_now
  BY <1>1, EnterCarries DEF Phases
<1>3. Carried(e, r) /\ r.last_now = e.last_now
  <2>1. e \in States
    BY <1>2 DEF Carried
  <2> HIDE DEF e
  <2> QED BY <2>1 DEF States, Presses, Carried
<1>4. Carried(s, r) /\ r.last_now = s.last_now
  <2> HIDE DEF e, r
  <2> QED BY <1>2, <1>3, CarriedOn
<1>5. Carried(s, s)
  BY DEF Carried
<1> QED BY <1>4, <1>5 DEF AdvanceResult

LEMMA MonotonicCarries ==
    ASSUME NEW s \in States, NEW t \in Nat
    PROVE  Carried(s, Monotonic(s, t)) /\ Monotonic(s, t).last_now = Later(s.last_now, t)
BY DEF States, Monotonic, Later, Carried

LEMMA AdvanceCarries ==
    ASSUME NEW s \in States, NEW t \in Nat
    PROVE  /\ Carried(s, Advance(s, t))
           /\ Advance(s, t).last_now = Later(s.last_now, t)
<1> DEFINE m == Monotonic(s, t)
           j == AdvanceJoin(m)
           r == AdvanceReset(j)
           l == AdvanceLeave(r)
           z == AdvanceResult(l)
<1>1. m \in States /\ Carried(s, m) /\ m.last_now = Later(s.last_now, t)
  BY MonotonicCarries DEF Carried
<1> HIDE DEF m
<1>2. j \in States /\ Carried(m, j) /\ j.last_now = m.last_now
  BY <1>1, JoinCarries DEF Carried
<1> HIDE DEF j
<1>3. r \in States /\ Carried(j, r) /\ r.last_now = j.last_now
  BY <1>2, ResetCarries DEF Carried
<1> HIDE DEF r
<1>4. l \in States /\ Carried(r, l) /\ l.last_now = r.last_now
  BY <1>3, LeaveCarries DEF Carried
<1> HIDE DEF l
<1>5. z \in States /\ Carried(l, z) /\ z.last_now = l.last_now
  BY <1>4, ResultCarries DEF Carried
<1>6. Advance(s, t) = z
  BY DEF Advance, m, j, r, l
<1> HIDE DEF z
<1>7. Carried(s, z)
  BY <1>1, <1>2, <1>3, <1>4, <1>5, CarriedOn
<1> QED BY <1>1, <1>2, <1>3, <1>4, <1>5, <1>6, <1>7

\* At time t a session may end and none begins.
Passes(s, r, t) == Carried(s, r) /\ r.last_now = Later(s.last_now, t)

LEMMA LaterOfLater ==
    ASSUME NEW x \in Nat, NEW t \in Nat
    PROVE  Later(Later(x, t), Later(x, t)) = Later(x, t) /\ Later(x, t) \in Nat
BY DEF Later

LEMMA LeaveSucceededPasses ==
    ASSUME NEW s \in States, NEW t \in Nat
    PROVE  Passes(s, LeaveSucceeded(s, t), t)
<1> DEFINE a == Advance(s, t)
           x == [a EXCEPT !.leave_succeeded = TRUE, !.leave_succeeded_at = a.last_now]
           y == Advance(x, a.last_now)
<1>1. a \in States /\ Carried(s, a) /\ a.last_now = Later(s.last_now, t)
  BY AdvanceCarries DEF Carried
<1>2. a.last_now \in Nat /\ Later(a.last_now, a.last_now) = a.last_now
  BY <1>1 DEF States, Later
<1>3. LeaveSucceeded(s, t) = IF a.phase # "LEAVING" THEN a ELSE y
  BY DEF LeaveSucceeded
<1> HIDE DEF a
<1>4. x \in States /\ Carried(a, x) /\ x.last_now = a.last_now
  BY <1>1, <1>2 DEF States, Carried
<1> HIDE DEF x
<1>5. Carried(x, y) /\ y.last_now = a.last_now
  BY <1>2, <1>4, AdvanceCarries
<1> HIDE DEF y
<1>6. Carried(s, y)
  BY <1>1, <1>4, <1>5, CarriedOn
<1> QED BY <1>1, <1>3, <1>5, <1>6 DEF Passes

LEMMA GatewayEventPasses ==
    ASSUME NEW s \in States, NEW t \in Nat
    PROVE  Passes(s, GatewayEvent(s, FALSE, t), t)
<1> DEFINE a == Advance(s, t)
           x == [a EXCEPT !.event_color = "BLUE",
                          !.event_until = a.last_now + EVENT_PULSE,
                          !.heartbeat_anchor = a.last_now + HEARTBEAT_PERIOD]
<1>1. a \in States /\ Carried(s, a) /\ a.last_now = Later(s.last_now, t)
  BY AdvanceCarries DEF Carried
<1>2. GatewayEvent(s, FALSE, t) = IF a.phase # "READY" THEN a ELSE x
  BY DEF GatewayEvent
<1>3. a.last_now + EVENT_PULSE \in Nat /\ a.last_now + HEARTBEAT_PERIOD \in Nat
  BY <1>1, TimeAssumption DEF States
<1> HIDE DEF a
<1>4. Carried(a, x) /\ x.last_now = a.last_now
  BY <1>1, <1>3 DEF States, EventColors, Carried
<1> HIDE DEF x
<1>5. Carried(s, x)
  BY <1>1, <1>4, CarriedOn
<1> QED BY <1>1, <1>2, <1>4, <1>5 DEF Passes

LEMMA BootInputPasses ==
    ASSUME NEW s \in States, NEW down \in BOOLEAN, NEW t \in Nat
    PROVE  Passes(s, BootInput(s, down, t), t)
<1> DEFINE a == Advance(s, t)
<1>1. a \in States /\ Carried(s, a) /\ a.last_now = Later(s.last_now, t)
  BY AdvanceCarries DEF Carried
<1>2. BootInput(s, down, t) \in {a, BootPressed(a), BootReleased(a)}
  BY DEF BootInput
<1> HIDE DEF a
<1>3. Carried(a, BootPressed(a)) /\ BootPressed(a).last_now = a.last_now
  BY <1>1 DEF States, Presses, BootPressed, Carried
<1>4. Carried(a, BootReleased(a)) /\ BootReleased(a).last_now = a.last_now
  <2>1. a.last_now + HEARTBEAT_PERIOD \in Nat
    BY <1>1, TimeAssumption DEF States
  <2> QED BY <2>1, <1>1 DEF States, Presses, BootReleased, Carried
<1> QED BY <1>1, <1>2, <1>3, <1>4, CarriedOn DEF Passes

LEMMA PressedPasses ==
    ASSUME state \in States, now \in Nat, NEW down \in BOOLEAN
    PROVE  Passes(state, Pressed(down), now)
<1> DEFINE b == BootInput(state, down, now)
           s == IF down = state.boot_down THEN state ELSE b
<1>1. Passes(state, b, now)
  BY BootInputPasses
<1> HIDE DEF b
<1>2. /\ s \in States /\ Carried(state, s)
      /\ s.last_now \in {state.last_now, Later(state.last_now, now)}
  BY <1>1 DEF Passes, Carried
<1>3. Pressed(down) = Advance(s, now)
  BY DEF Pressed, b
<1> HIDE DEF s
<1>4. Carried(s, Pressed(down)) /\ Pressed(down).last_now = Later(s.last_now, now)
  BY <1>2, <1>3, AdvanceCarries
<1>5. Later(s.last_now, now) = Later(state.last_now, now)
  BY <1>2 DEF States, Later
<1> QED BY <1>2, <1>4, <1>5, CarriedOn DEF Passes

\* What has been advanced holds nothing that is due, and stays as it is.
LEMMA ReadySettled ==
    ASSUME NEW s \in States, NEW t \in Nat, Advance(s, t).phase = "READY"
    PROVE  ~ResetDue(Advance(s, t))
<1> DEFINE m == Monotonic(s, t)
           j == AdvanceJoin(m)
           r == AdvanceReset(j)
           l == AdvanceLeave(r)
           z == AdvanceResult(l)
<1>1. z.phase = "READY" /\ Advance(s, t) = z
  BY DEF Advance
<1>2. m \in States
  BY MonotonicCarries DEF Carried
<1> HIDE DEF m
<1>3. j \in States
  BY <1>2, JoinCarries DEF Carried
<1> HIDE DEF j
<1>4. r \in States
  BY <1>3, ResetCarries DEF Carried
<1>5. r.phase = "LEAVING" \/ (r = j /\ ~ResetDue(j))
  BY <1>3 DEF AdvanceReset, Accept, EnterPhase, States
<1> HIDE DEF r
<1>6. l \in States
  BY <1>4, LeaveCarries DEF Carried
<1>7. l.phase # "READY" \/ (l = r /\ r.phase # "LEAVING")
  BY <1>4 DEF AdvanceLeave, EnterPhase, States
<1> HIDE DEF l
<1>8. z = l
  BY <1>1, <1>6 DEF AdvanceResult, EnterPhase, States
<1> QED BY <1>1, <1>5, <1>7, <1>8

LEMMA SettledAdvance ==
    ASSUME NEW s \in States, s.phase = "READY", ~ResetDue(s), NEW t \in Nat, t <= s.last_now
    PROVE  Advance(s, t) = s
<1>1. Monotonic(s, t) = s
  BY DEF Monotonic, Later, States
<1>2. AdvanceJoin(s) = s /\ AdvanceReset(s) = s
  BY DEF AdvanceJoin, JoinDue, AdvanceReset
<1>3. AdvanceLeave(s) = s /\ AdvanceResult(s) = s
  BY DEF AdvanceLeave, AdvanceResult, ResultPhases
<1> QED BY <1>1, <1>2, <1>3 DEF Advance

\* The actions that are dispatched touch no session.
LEMMA DispatchPasses ==
    ASSUME NEW s \in States, NEW written \in BOOLEAN, now \in Nat, now <= s.last_now,
           s.phase = "READY" => ~ResetDue(s)
    PROVE  LET d == DispatchActions(s, written)
           IN  /\ Carried(s, d) /\ d.last_now = s.last_now
               /\ s.phase = "READY" => d.phase = "READY"
<1> DEFINE q == TakeActions(s)
           a == Advance(q, now)
           e == EnterPhase(a, IF written THEN "RESULT_FORCED" ELSE "ERROR", a.last_now)
<1>1. q \in States /\ Carried(s, q) /\ q.last_now = s.last_now /\ q.phase = s.phase
  BY DEF States, TakeActions, Carried
<1>2. ResetDue(q) = ResetDue(s)
  BY DEF States, TakeActions, ResetDue
<1>3. DispatchActions(s, written) \in {q, a, e} /\ (a.phase = "READY" => DispatchActions(s, written) \in {q, a})
  BY DEF DispatchActions, ForcedWipeArmed
<1> HIDE DEF q
<1>4. a \in States /\ Carried(q, a) /\ a.last_now = q.last_now
  BY <1>1, AdvanceCarries DEF Carried, Later, States
<1>5. s.phase = "READY" => a = q
  BY <1>1, <1>2, SettledAdvance
<1> HIDE DEF a
<1>6. Carried(a, e) /\ e.last_now = a.last_now
  <2>1. a.last_now \in Nat
    BY <1>4 DEF States
  <2> QED BY <2>1, <1>4, EnterCarries DEF Phases
<1> HIDE DEF e
<1>7. Carried(s, a) /\ Carried(s, e)
  BY <1>1, <1>4, <1>6, CarriedOn
<1> QED BY <1>1, <1>3, <1>4, <1>5, <1>6, <1>7

Held(s) == s.phase = "READY" /\ s.lease_armed

\* A message of the stack's start or of the supervisor at time t: a session that goes
\* on after it has been renewed by it.
Handles(s, r, t) ==
    /\ r \in States
    /\ r.last_now = Later(s.last_now, t)
    /\ Held(r) => r.last_lease_ping = r.last_now
    /\ r.last_lease_ping = s.last_lease_ping \/ r.last_lease_ping = r.last_now

LEMMA HandlesFromNow ==
    ASSUME NEW s \in States, NEW t \in Nat, NEW a, NEW r, Carried(s, a),
           a.last_now = Later(s.last_now, t), Handles(a, r, a.last_now)
    PROVE  Handles(s, r, t)
<1>1. Later(a.last_now, a.last_now) = a.last_now
  BY DEF Later
<1> QED BY <1>1 DEF Carried, Handles

LEMMA IdleHandles ==
    ASSUME NEW a \in States, ~Held(a)
    PROVE  Handles(a, a, a.last_now)
BY DEF Handles, Later

LEMMA GrantHandles ==
    ASSUME NEW a \in States
    PROVE  Handles(a, GrantLease(a), a.last_now)
BY DEF Handles, Held, GrantLease, States, Later

LEMMA StackStartedHandles ==
    ASSUME NEW s \in States, NEW w \in BOOLEAN, NEW t \in Nat
    PROVE  Handles(s, StackStarted(s, FALSE, w, t), t)
<1> DEFINE m == Monotonic(s, t)
           e == EnterPhase(m, "READY", m.last_now)
           press == IF ~m.boot_down THEN "NONE" ELSE "RESET"
           lease == ~w
           ping == IF lease THEN m.last_now ELSE e.last_lease_ping
           since == IF m.boot_down THEN m.last_now ELSE e.press_since
           r == [e EXCEPT !.event_color = "OFF",
                          !.event_until = m.last_now,
                          !.boot_was_watchdog = w,
                          !.lease_armed = lease,
                          !.last_lease_ping = ping,
                          !.heartbeat_anchor = m.last_now,
                          !.press = press,
                          !.press_since = since]
<1>1. m \in States /\ Carried(s, m) /\ m.last_now = Later(s.last_now, t)
  BY MonotonicCarries DEF Carried
<1>2. m.last_now \in Nat
  BY <1>1 DEF States
<1> HIDE DEF m
<1>3. /\ e \in States /\ e.last_now = m.last_now
      /\ e.last_lease_ping = m.last_lease_ping
  BY <1>1, <1>2 DEF EnterPhase, States, Phases
<1>4. press \in Presses /\ "OFF" \in EventColors
  BY DEF Presses, EventColors
<1>5. ping \in Nat /\ since \in Nat
  BY <1>2, <1>3 DEF States
<1>6. Handles(m, r, m.last_now)
  <2>1. r \in States
    <3>1. lease \in BOOLEAN
      OBVIOUS
    <3> HIDE DEF e, lease, press, ping, since
    <3> DEFINE q == [e EXCEPT !.event_color = "OFF",
                              !.event_until = m.last_now,
                              !.boot_was_watchdog = w,
                              !.lease_armed = lease]
    <3>2. q \in States
      BY <3>1, <1>2, <1>3, <1>4 DEF States
    <3>3. r = [q EXCEPT !.last_lease_ping = ping,
                        !.heartbeat_anchor = m.last_now,
                        !.press = press,
                        !.press_since = since]
      BY <1>3 DEF States
    <3> HIDE DEF q, r
    <3> QED BY <3>2, <3>3, <1>2, <1>4, <1>5 DEF States
  <2>2. /\ r.last_now = e.last_now
        /\ r.lease_armed = lease
        /\ r.last_lease_ping = ping
    <3> HIDE DEF e, lease, press, ping, since
    <3> QED BY <1>3 DEF States
  <2>3. Held(r) => lease
    BY <2>2 DEF Held
  <2> HIDE DEF e, r, lease, press, since
  <2> QED BY <2>1, <2>2, <2>3, <1>3, <1>2 DEF Handles, Later
<1>7. Handles(s, r, t)
  <2> HIDE DEF r
  <2> QED BY <1>1, <1>6, HandlesFromNow
<1>8. CASE m.phase \in FinalPhases
  <2>1. StackStarted(s, FALSE, w, t) = m
    BY <1>8 DEF StackStarted, m
  <2>2. ~Held(m)
    BY <1>8 DEF Held, FinalPhases
  <2> QED BY <2>1, <2>2, <1>1, IdleHandles, HandlesFromNow
<1>9. CASE m.phase \notin FinalPhases
  <2>1. StackStarted(s, FALSE, w, t) = r
    BY <1>9 DEF StackStarted, Begin, m
  <2> QED BY <2>1, <1>7
<1> QED BY <1>8, <1>9

LEMMA StackRetryingHandles ==
    ASSUME NEW s \in States, NEW w \in BOOLEAN, NEW t \in Nat
    PROVE  Handles(s, StackRetrying(s, w, t), t)
<1> DEFINE m == Monotonic(s, t)
           quiet == [m EXCEPT !.event_color = "OFF",
                              !.event_until = m.last_now,
                              !.lease_armed = FALSE,
                              !.boot_was_watchdog = w]
           e == EnterPhase(quiet, "RESTORING", m.last_now)
           press == IF m.boot_down THEN "RESET" ELSE "NONE"
           r == [e EXCEPT !.press = press, !.press_since = m.last_now, !.require_release = FALSE]
<1>1. m \in States /\ Carried(s, m) /\ m.last_now = Later(s.last_now, t)
  BY MonotonicCarries DEF Carried
<1>2. m.last_now \in Nat
  BY <1>1 DEF States
<1> HIDE DEF m
<1>3. /\ quiet \in States /\ quiet.last_now = m.last_now
      /\ quiet.last_lease_ping = m.last_lease_ping
      /\ quiet.lease_armed = FALSE
  BY <1>1, <1>2 DEF States, EventColors
<1> HIDE DEF quiet
<1>4. press \in Presses
  BY DEF Presses
<1>5. /\ r \in States /\ r.last_now = m.last_now
      /\ r.last_lease_ping = m.last_lease_ping
      /\ r.lease_armed = FALSE
  <2>1. /\ e \in States /\ e.last_now = m.last_now
        /\ e.last_lease_ping = m.last_lease_ping
        /\ e.lease_armed = FALSE
    BY <1>2, <1>3 DEF EnterPhase, States, Phases
  <2> HIDE DEF e, press
  <2> QED BY <2>1, <1>2, <1>4 DEF States
<1> HIDE DEF r
<1>6. Handles(m, r, m.last_now) /\ Handles(m, quiet, m.last_now)
  BY <1>3, <1>5, <1>2 DEF Handles, Held, Later
<1>7. CASE m.phase \in ResetFlow \cup FinalPhases
  <2>1. StackRetrying(s, w, t) = m
    BY <1>7 DEF StackRetrying, m
  <2>2. ~Held(m)
    BY <1>7 DEF Held, FinalPhases, ResetFlow, ResultPhases
  <2> QED BY <2>1, <2>2, <1>1, IdleHandles, HandlesFromNow
<1>8. CASE m.phase \notin ResetFlow \cup FinalPhases
  <2>1. StackRetrying(s, w, t) = IF m.phase = "RESTORING" THEN quiet ELSE r
    BY <1>8 DEF StackRetrying, Retry, m, quiet, r
  <2> QED BY <2>1, <1>1, <1>6, HandlesFromNow
<1> QED BY <1>7, <1>8

LEMMA NetworkLeftHandles ==
    ASSUME NEW s \in States, NEW t \in Nat
    PROVE  Handles(s, NetworkLeft(s, TRUE, t), t)
<1> DEFINE a == Advance(s, t)
           d == Disconnect(a, TRUE)
           b == Advance(a, a.last_now)
           x == [b EXCEPT !.leave_succeeded = TRUE, !.leave_succeeded_at = b.last_now]
           l == LeaveSucceeded(a, a.last_now)
<1>1. a \in States /\ Carried(s, a) /\ a.last_now = Later(s.last_now, t)
  BY AdvanceCarries DEF Carried
<1>2. a.last_now \in Nat /\ Later(a.last_now, a.last_now) = a.last_now
  BY <1>1 DEF States, Later
<1> HIDE DEF a
<1>3. Handles(a, d, a.last_now)
  <2> DEFINE e == EnterPhase(a, "RESTORING", a.last_now)
  <2>1. /\ e \in States /\ e.last_now = a.last_now
        /\ e.last_lease_ping = a.last_lease_ping
    BY <1>1, <1>2 DEF EnterPhase, States, Phases
  <2>2. d = [e EXCEPT !.press = "NONE", !.require_release = a.boot_down, !.lease_armed = FALSE]
    BY DEF Disconnect, AwayPhase
  <2>3. a.boot_down \in BOOLEAN
    BY <1>1 DEF States
  <2> HIDE DEF e, d
  <2>4. /\ d \in States /\ d.last_now = a.last_now
        /\ d.last_lease_ping = a.last_lease_ping
        /\ d.lease_armed = FALSE
    BY <2>1, <2>2, <2>3 DEF States, Presses
  <2> QED BY <2>4, <1>2 DEF Handles, Held
<1>4. CASE a.phase = "LEAVING"
  <2>1. b \in States /\ Carried(a, b) /\ b.last_now = a.last_now
    BY <1>1, <1>2, AdvanceCarries DEF Carried
  <2> HIDE DEF b
  <2>2. Carried(b, x) /\ x.last_now = b.last_now
    BY <2>1, <1>2 DEF States, Carried
  <2>3. x \in States /\ Carried(a, x) /\ x.last_now = a.last_now
    <3> HIDE DEF x
    <3> QED BY <2>1, <2>2, CarriedOn DEF Carried
  <2> HIDE DEF x
  <2> DEFINE y == Advance(x, b.last_now)
  <2>4. Carried(x, y) /\ y.last_now = a.last_now
    BY <2>1, <2>3, <1>2, AdvanceCarries
  <2>5. l = IF b.phase # "LEAVING" THEN b ELSE y
    BY DEF LeaveSucceeded, b, x
  <2> HIDE DEF y, l
  <2>6. l \in States /\ Carried(a, l) /\ l.last_now = a.last_now
    BY <2>1, <2>3, <2>4, <2>5, CarriedOn DEF Carried
  <2>7. Handles(a, l, a.last_now)
    BY <2>6, <1>2, <1>4 DEF Carried, Handles, Held
  <2>8. NetworkLeft(s, TRUE, t) = l
    BY <1>4 DEF NetworkLeft, a, l
  <2> QED BY <2>7, <2>8, <1>1, HandlesFromNow
<1>5. CASE a.phase # "LEAVING" /\ a.phase \in ResetFlow \cup FinalPhases
  <2>1. ~Held(a)
    BY <1>5 DEF Held, FinalPhases, ResetFlow, ResultPhases
  <2>2. NetworkLeft(s, TRUE, t) = a
    BY <1>5 DEF NetworkLeft, a
  <2> QED BY <2>1, <2>2, <1>1, IdleHandles, HandlesFromNow
<1>6. CASE a.phase # "LEAVING" /\ a.phase \notin ResetFlow \cup FinalPhases
  <2>1. NetworkLeft(s, TRUE, t) = d
    BY <1>6 DEF NetworkLeft, a, d
  <2> HIDE DEF d
  <2> QED BY <2>1, <1>1, <1>3, HandlesFromNow
<1> QED BY <1>4, <1>5, <1>6

LEMMA ReadyHandles ==
    ASSUME NEW s \in States, NEW t \in Nat
    PROVE  Handles(s, Ready(s, t), t)
<1> DEFINE a == Advance(s, t)
           e == EnterPhase(a, "READY", a.last_now)
           x == [e EXCEPT !.heartbeat_anchor = a.last_now]
           g == GrantLease(x)
<1>1. a \in States /\ Carried(s, a) /\ a.last_now = Later(s.last_now, t)
  BY AdvanceCarries DEF Carried
<1>2. a.last_now \in Nat
  BY <1>1 DEF States
<1> HIDE DEF a
<1>3. x \in States /\ x.last_now = a.last_now
      /\ x.last_lease_ping = a.last_lease_ping
  <2>1. e \in States /\ e.last_now = a.last_now
        /\ e.last_lease_ping = a.last_lease_ping
    BY <1>1, <1>2 DEF EnterPhase, States, Phases
  <2> HIDE DEF e
  <2> QED BY <2>1, <1>2 DEF States
<1> HIDE DEF x
<1>4. Handles(a, g, a.last_now)
  <2>1. Handles(x, g, x.last_now)
    BY <1>3, GrantHandles
  <2> HIDE DEF g
  <2> QED BY <2>1, <1>3 DEF Handles
<1>5. Handles(a, GrantLease(a), a.last_now)
  BY <1>1, GrantHandles
<1>6. CASE a.phase = "READY"
  <2>1. Ready(s, t) = GrantLease(a)
    BY <1>6 DEF Ready, a
  <2> QED BY <2>1, <1>1, <1>5, HandlesFromNow
<1>7. CASE a.phase = "POST_JOIN"
  <2>1. Ready(s, t) = g
    BY <1>7 DEF Ready, a, x
  <2> HIDE DEF g
  <2> QED BY <2>1, <1>1, <1>4, HandlesFromNow
<1>8. CASE a.phase \notin {"READY", "POST_JOIN"}
  <2>1. Ready(s, t) = a
    BY <1>8 DEF Ready, a
  <2>2. ~Held(a)
    BY <1>8 DEF Held
  <2> QED BY <2>1, <2>2, <1>1, IdleHandles, HandlesFromNow
<1> QED BY <1>6, <1>7, <1>8

LEMMA LeasePingHandles ==
    ASSUME NEW s \in States, NEW t \in Nat
    PROVE  Handles(s, LeasePing(s, t), t)
<1> DEFINE a == Advance(s, t)
<1>1. a \in States /\ Carried(s, a) /\ a.last_now = Later(s.last_now, t)
  BY AdvanceCarries DEF Carried
<1> HIDE DEF a
<1>2. Handles(a, GrantLease(a), a.last_now)
  BY <1>1, GrantHandles
<1>3. CASE a.phase = "READY"
  <2>1. LeasePing(s, t) = GrantLease(a)
    BY <1>3 DEF LeasePing, a
  <2> QED BY <2>1, <1>1, <1>2, HandlesFromNow
<1>4. CASE a.phase # "READY"
  <2>1. LeasePing(s, t) = a
    BY <1>4 DEF LeasePing, a
  <2>2. ~Held(a)
    BY <1>4 DEF Held
  <2> QED BY <2>1, <2>2, <1>1, IdleHandles, HandlesFromNow
<1> QED BY <1>3, <1>4

-----------------------------------------------------------------------------
(* The invariant.                                                           *)

Messages == [kind : Commands \cup Reports, at : Nat]

\* The light when the warning is at its last pulse.
Seen == {"LEASE_WARNING"} \cup Urgent

Warned == atLastPulse \in Seen

TypeOK ==
    /\ {clock, now, deadline, retryAt, failures, bites, spoke} \subseteq Nat
    /\ state \in States
    /\ queue \in Seq(Messages)
    /\ running \in BOOLEAN /\ pending \in BOOLEAN
    /\ atLastPulse \in {None} \cup Seen

\* How far the sample of the clock, the stamps and the times in the record lie apart.
ClockInv ==
    /\ now <= clock /\ clock <= now + PERIOD
    /\ state.last_now <= clock
    /\ state.last_lease_ping <= state.last_now
    /\ ~running => now <= state.last_now
    /\ spoke <= clock
    /\ pending => clock <= deadline

\* A message waits for one cycle at most.
QueueInv ==
    \A i \in DOMAIN queue :
        /\ queue[i].at <= clock
        /\ now <= queue[i].at + (IF running THEN PERIOD ELSE 0)

\* A command that is not in the queue any more has renewed the lease.
HeardInv ==
    \/ \E i \in DOMAIN queue : queue[i].kind \in Commands /\ spoke <= queue[i].at
    \/ /\ spoke <= state.last_now
       /\ Held(state) => spoke <= state.last_lease_ping

\* What the failed calls of this boot have cost.
Delay == failures * (WDT_RETRY + PERIOD - 1)

\* The end of the watchdog's time, for a lease renewed at ping.
BiteBound(ping, delay) == ping + LEASE_WDT_ARM + LEASE_WDT_GUARD + 2 * PERIOD + delay

\* The watchdog is registered within a period of the end of the lease, or it is
\* being retried.
ArmInv ==
    /\ retryAt <= state.last_lease_ping + LEASE_WDT_ARM + Delay
    /\ ~pending /\ Held(state) =>
          now < state.last_lease_ping + LEASE_WDT_ARM + Delay
                    + (IF running THEN PERIOD ELSE 0)
    /\ pending =>
          deadline < BiteBound(state.last_lease_ping, Delay)

\* The lease that the watchdog was registered for is still the one that counts.
Silent ==
    /\ Held(state)
    /\ state.last_lease_ping + LEASE_WDT_ARM + LEASE_WDT_GUARD <= deadline

\* The session has ended, or been renewed since the cycle began: this cycle ends
\* with a cancel.
Renewed == Held(state) => now <= state.last_lease_ping + PERIOD

\* The cycles before the end of the lease; after it comes the last pulse.  The time a
\* cycle shows is its sample of the clock or the later stamp of a message.
WarnInv ==
    pending /\ failures = 0 =>
        IF running
        THEN \/ /\ Silent
                /\ Warned \/ now < state.last_lease_ping + LEASE_TIMEOUT + PERIOD
             \/ /\ Renewed
                /\ Warned \/ now + FINAL_PULSE_GRACE < deadline + PERIOD
        ELSE /\ Silent
             /\ Warned \/ state.last_now < state.last_lease_ping + LEASE_TIMEOUT

\* A command that came before the watchdog's last cycle has been counted.
SpokeInv ==
    pending /\ failures = 0 =>
        \/ spoke + LEASE_WDT_ARM + LEASE_WDT_GUARD <= deadline
        \/ now <= spoke + (IF running THEN PERIOD ELSE 0)

LeaseInv ==
    /\ TypeOK /\ ClockInv /\ QueueInv /\ HeardInv
    /\ ArmInv /\ WarnInv /\ SpokeInv

-----------------------------------------------------------------------------
(* The light.                                                               *)

LEMMA WholePeriods ==
    ASSUME NEW d \in Nat, 0 < d, NEW x \in Nat, NEW j \in Nat, x % d = 0, j < d
    PROVE  (x + j) % d = j /\ ((x + j) \div d) * d = x
<1> DEFINE q == x \div d
           p == (x + j) \div d
           k == (x + j) % d
<1>1. \A y \in Nat : /\ y = d * (y \div d) + (y % d)
                     /\ y % d \in Nat /\ y % d < d /\ y \div d \in Nat
  OBVIOUS
<1>2. x = d * q /\ q \in Nat
  BY <1>1
<1>3. x + j = d * p + k /\ p \in Nat /\ k \in Nat /\ k < d
  BY <1>1
<1> HIDE DEF q, p, k
<1>4. \A a \in Nat : \A b \in Nat : a < b => d * a + d <= d * b
  OBVIOUS
<1>5. \A a \in Nat : d * a \in Nat /\ d * a = a * d
  OBVIOUS
<1>6. d * p \in Nat /\ d * q \in Nat /\ d * p = p * d
  BY <1>2, <1>3, <1>5
<1>7. ~(p < q)
  <2> SUFFICES ASSUME p < q PROVE FALSE
    OBVIOUS
  <2>1. d * p + d <= d * q
    BY <1>2, <1>3, <1>4
  <2> QED BY <2>1, <1>2, <1>3, <1>6
<1>8. ~(q < p)
  <2> SUFFICES ASSUME q < p PROVE FALSE
    OBVIOUS
  <2>1. d * q + d <= d * p
    BY <1>2, <1>3, <1>4
  <2> QED BY <2>1, <1>2, <1>3, <1>6
<1>9. p = q
  BY <1>2, <1>3, <1>7, <1>8
<1>10. k = j /\ p * d = x
  BY <1>2, <1>3, <1>6, <1>9
<1> QED BY <1>10 DEF k, p

\* A lease that is due for the watchdog is warned of, unless something more urgent is
\* shown, and the warning is at its last pulse for the tenth after the lease is over.
LEMMA DueLight ==
    ASSUME NEW s \in States, NEW n \in Nat, Held(s), s.last_lease_ping + LEASE_WDT_ARM <= n
    PROVE  LET t == Later(n, s.last_now)
           IN  /\ LightAt(s, n).effect \in Seen
               /\ s.last_lease_ping + LEASE_TIMEOUT <= t
                  /\ t < s.last_lease_ping + LEASE_TIMEOUT + TENTH =>
                     LastPulse(LeaseWarningLed(LeaseAge(s, t)))
<1> DEFINE t == Later(n, s.last_now)
           age == t - s.last_lease_ping
           warning == age - LEASE_WARN
           begun == (warning \div WARNING_PERIOD) * WARNING_PERIOD
           led == LeaseWarningLed(age)
<1>1. /\ s.last_now \in Nat /\ s.last_lease_ping \in Nat /\ s.phase = "READY" /\ s.lease_armed
  BY DEF States, Held
<1>2. /\ LEASE_WARN \in Nat /\ LEASE_WARN <= LEASE_WDT_ARM /\ LEASE_WARN < LEASE_TIMEOUT
      /\ WARNING_PERIOD \in Nat /\ 0 < WARNING_PERIOD /\ TENTH \in Nat
      /\ TENTH <= WARNING_PERIOD
  BY LightAssumption, SpanAssumption, SpanFacts
<1>3. t \in Nat /\ n <= t /\ s.last_lease_ping <= t
  BY <1>1, SpanFacts DEF Later
<1>4. LightAt(s, n) = IF HoldsForReset(s) THEN ResetHoldLed(t - s.press_since) ELSE PhaseLed(s, t)
  BY DEF LightAt
<1> HIDE DEF t
<1>5. LeaseAge(s, t) = age
  BY <1>1, <1>3 DEF Later, LeaseAge
<1>6. age \in Nat /\ LEASE_WDT_ARM <= age /\ LEASE_WARN <= age /\ warning \in Nat
  BY <1>1, <1>2, <1>3, SpanFacts
<1>7. led.effect = "LEASE_WARNING"
  BY DEF LeaseWarningLed, Led
<1>8. LightAt(s, n).effect \in Seen
  <2>1. ResetHoldLed(t - s.press_since).effect = "RESET_HOLD"
    BY DEF ResetHoldLed, Lit, Led
  <2>2. PhaseLed(s, t) = ReadyLed(s, t)
    BY <1>1 DEF PhaseLed
  <2>3. CASE t < s.event_until
    <3>1. ReadyLed(s, t) = Led(s.event_color, IF s.event_color = "PINK" THEN "LOWER_EVENT"
                                              ELSE "UPPER_EVENT")
      <4>1. ~(t >= s.event_until)
        BY <2>3, <1>3 DEF States
      <4> QED BY <4>1, <2>3 DEF ReadyLed
    <3>2. ReadyLed(s, t).effect \in {"LOWER_EVENT", "UPPER_EVENT"}
      BY <3>1 DEF Led
    <3> QED BY <3>2, <2>1, <2>2, <1>4 DEF Seen, Urgent
  <2>4. CASE ~(t < s.event_until)
    <3>1. t >= s.event_until /\ s.lease_armed /\ LeaseAge(s, t) >= LEASE_WARN
      BY <2>4, <1>1, <1>2, <1>3, <1>5, <1>6 DEF States
    <3>2. ReadyLed(s, t) = led
      BY <3>1, <2>4, <1>5 DEF ReadyLed
    <3> HIDE DEF led
    <3> QED BY <3>2, <2>1, <2>2, <1>4, <1>7 DEF Seen, Urgent
  <2> QED BY <2>3, <2>4
<1>9. ASSUME s.last_lease_ping + LEASE_TIMEOUT <= t,
             t < s.last_lease_ping + LEASE_TIMEOUT + TENTH
      PROVE  LastPulse(led)
  <2> DEFINE j == warning - Span
  <2>1. Span \in Nat /\ Span % WARNING_PERIOD = 0
    BY <1>2, SpanFacts, SpanAssumption DEF Span
  <2>2. j \in Nat /\ j < TENTH /\ warning = Span + j
    BY <1>9, <1>1, <1>2, <1>3, <2>1, SpanFacts DEF Span
  <2>3. j < WARNING_PERIOD
    BY <2>2, <1>2
  <2> HIDE DEF j, warning
  <2>4. warning % WARNING_PERIOD = j /\ begun = Span
    BY <2>1, <2>2, <2>3, <1>2, WholePeriods
  <2>5. Pulse(warning, WARNING_PERIOD, TENTH)
    BY <2>2, <2>4 DEF Pulse
  <2>6. led = [color |-> "LEASE_GRADIENT", effect |-> "LEASE_WARNING", level |-> Span]
    <3>1. ~(begun > Span)
      BY <2>1, <2>4
    <3> HIDE DEF age, begun
    <3>2. led = IF Pulse(warning, WARNING_PERIOD, TENTH)
                THEN [color |-> "LEASE_GRADIENT", effect |-> "LEASE_WARNING",
                      level |-> IF begun > Span THEN Span ELSE begun]
                ELSE Led("OFF", "LEASE_WARNING")
      BY DEF led, LeaseWarningLed, warning, begun
    <3> QED BY <3>1, <3>2, <2>4, <2>5
  <2> HIDE DEF led
  <2> QED BY <2>6 DEF LastPulse
<1> HIDE DEF led
<1> QED BY <1>5, <1>8, <1>9 DEF led, t

-----------------------------------------------------------------------------
(* The invariant is inductive.                                              *)

LEMMA InitStateType == InitState(0) \in States
BY DEF InitState, States, Phases, Presses, EventColors

LEMMA LeaseStart == Init => LeaseInv
<1> SUFFICES ASSUME Init PROVE LeaseInv
  OBVIOUS
<1>1. /\ clock = 0 /\ queue = <<>> /\ now = 0 /\ running = FALSE /\ pending = FALSE
      /\ deadline = 0 /\ retryAt = 0 /\ failures = 0 /\ bites = 0 /\ spoke = 0
      /\ atLastPulse = None /\ state \in States
  BY InitStateType DEF Init
<1>2. /\ state.last_now = 0 /\ state.last_lease_ping = 0
      /\ ~Held(state)
  BY DEF Init, InitState, Held
<1>3. Delay = 0
  BY <1>1, SpanFacts DEF Delay
<1>4. TypeOK
  <2>1. queue \in Seq(Messages)
    BY <1>1
  <2>2. {clock, now, deadline, retryAt, failures, bites, spoke} \subseteq Nat
    BY <1>1
  <2> QED BY <2>1, <2>2, <1>1 DEF TypeOK
<1>5. ClockInv /\ QueueInv /\ HeardInv
  BY <1>1, <1>2, SpanFacts DEF ClockInv, QueueInv, HeardInv
<1>6. ArmInv
  BY <1>1, <1>2, <1>3, SpanFacts DEF ArmInv
<1>7. WarnInv /\ SpokeInv
  BY <1>1 DEF WarnInv, SpokeInv
<1> QED BY <1>4, <1>5, <1>6, <1>7 DEF LeaseInv

LEMMA TypeFacts ==
    ASSUME TypeOK
    PROVE  /\ clock \in Nat /\ now \in Nat /\ deadline \in Nat /\ retryAt \in Nat
           /\ failures \in Nat /\ bites \in Nat /\ spoke \in Nat
           /\ state \in States /\ queue \in Seq(Messages)
           /\ running \in BOOLEAN /\ pending \in BOOLEAN
           /\ state.last_now \in Nat /\ state.last_lease_ping \in Nat
           /\ Delay \in Nat
<1>1. state.last_now \in Nat /\ state.last_lease_ping \in Nat
  BY DEF TypeOK, States
<1>2. Delay \in Nat
  <2>1. failures \in Nat /\ WDT_RETRY + PERIOD - 1 \in Nat
    BY SpanFacts DEF TypeOK
  <2> QED BY <2>1 DEF Delay
<1> QED BY <1>1, <1>2 DEF TypeOK

LEMMA BiteBoundGrows ==
    ASSUME NEW p \in Nat, NEW r \in Nat, NEW d \in Nat, NEW e \in Nat, p <= r, d <= e
    PROVE  /\ BiteBound(p, d) \in Nat /\ BiteBound(r, e) \in Nat
           /\ BiteBound(p, d) <= BiteBound(r, e)
BY SpanFacts DEF BiteBound

LEMMA WithinBiteBound ==
    ASSUME NEW p \in Nat, NEW d \in Nat, NEW t \in Nat, NEW x \in Nat,
           t < p + LEASE_WDT_ARM + d + PERIOD, x <= t + PERIOD + LEASE_WDT_GUARD
    PROVE  x < BiteBound(p, d)
BY SpanFacts DEF BiteBound

LEMMA TickStep == LeaseInv /\ Tick => LeaseInv'
<1> SUFFICES ASSUME LeaseInv, Tick PROVE LeaseInv'
  OBVIOUS
<1>1. /\ clock < now + PERIOD /\ (pending => clock < deadline) /\ clock' = clock + 1
      /\ UNCHANGED <<state, queue, now, running, pending, deadline, retryAt, failures, bites,
                     spoke, atLastPulse>>
  BY DEF Tick, task, wdt, history
<1>2. /\ TypeOK /\ ClockInv /\ QueueInv /\ HeardInv /\ ArmInv /\ WarnInv /\ SpokeInv
  BY DEF LeaseInv
<1>3. clock \in Nat /\ now \in Nat /\ deadline \in Nat
  BY <1>2, TypeFacts
<1>4. TypeOK'
  BY <1>1, <1>2, <1>3 DEF TypeOK
<1>5. ClockInv'
  BY <1>1, <1>2, <1>3, TypeFacts, SpanFacts DEF ClockInv
<1>6. QueueInv'
  <2>1. \A i \in DOMAIN queue : queue[i].at \in Nat
    <3> SUFFICES ASSUME NEW i \in DOMAIN queue PROVE queue[i].at \in Nat
      OBVIOUS
    <3>1. queue[i] \in Messages
      BY <1>2, TypeFacts
    <3> QED BY <3>1 DEF Messages
  <2> QED BY <2>1, <1>1, <1>2, <1>3 DEF QueueInv
<1>7. HeardInv'
  BY <1>1, <1>2 DEF HeardInv, Held
<1>8. ArmInv'
  BY <1>1, <1>2 DEF ArmInv, Held, Delay
<1>9. WarnInv' /\ SpokeInv'
  BY <1>1, <1>2 DEF WarnInv, SpokeInv, Silent, Renewed, Held, Warned
<1> QED BY <1>4, <1>5, <1>6, <1>7, <1>8, <1>9 DEF LeaseInv

LEMMA PostStep ==
    ASSUME LeaseInv, NEW kind \in Commands \cup Reports, Post(kind),
           spoke' = spoke \/ (spoke' = clock /\ kind \in Commands),
           atLastPulse' = atLastPulse
    PROVE  LeaseInv'
<1> DEFINE m == [kind |-> kind, at |-> clock]
<1>1. /\ queue' = Append(queue, m)
      /\ UNCHANGED <<clock, state, now, running, pending, deadline, retryAt, failures, bites,
                     atLastPulse>>
  BY DEF Post, task, wdt
<1>2. /\ TypeOK /\ ClockInv /\ QueueInv /\ HeardInv /\ ArmInv /\ WarnInv /\ SpokeInv
  BY DEF LeaseInv
<1>3. /\ clock \in Nat /\ now \in Nat /\ queue \in Seq(Messages) /\ spoke \in Nat /\ spoke' \in Nat
      /\ now <= clock /\ clock <= now + PERIOD /\ spoke <= clock
  BY <1>2, TypeFacts DEF ClockInv
<1>4. m \in Messages /\ m.at = clock /\ m.kind = kind
  BY <1>3 DEF Messages
<1> HIDE DEF m
<1>5. /\ queue' \in Seq(Messages) /\ DOMAIN queue' = 1..(Len(queue) + 1)
      /\ DOMAIN queue = 1..Len(queue) /\ Len(queue) \in Nat
      /\ \A i \in DOMAIN queue : queue'[i] = queue[i]
      /\ queue'[Len(queue) + 1] = m
  BY <1>1, <1>3, <1>4
<1>6. TypeOK'
  BY <1>1, <1>2, <1>3, <1>5 DEF TypeOK
<1>7. ClockInv'
  BY <1>1, <1>2, <1>3 DEF ClockInv
<1>8. QueueInv'
  <2> SUFFICES ASSUME NEW i \in DOMAIN queue'
               PROVE  /\ queue'[i].at <= clock
                      /\ now <= queue'[i].at + (IF running THEN PERIOD ELSE 0)
    BY <1>1 DEF QueueInv
  <2>1. CASE i \in DOMAIN queue
    BY <2>1, <1>5, <1>2 DEF QueueInv
  <2>2. CASE i = Len(queue) + 1
    BY <2>2, <1>5, <1>4, <1>3, SpanFacts
  <2> QED BY <2>1, <2>2, <1>5
<1>9. HeardInv'
  <2>1. CASE spoke' = spoke
    BY <2>1, <1>1, <1>2, <1>5 DEF HeardInv, Held
  <2>2. CASE spoke' = clock /\ kind \in Commands
    <3> DEFINE n == Len(queue) + 1
    <3>1. n \in DOMAIN queue' /\ spoke' <= queue'[n].at /\ queue'[n].kind \in Commands
      BY <2>2, <1>3, <1>4, <1>5
    <3> QED BY <3>1 DEF HeardInv
  <2> QED BY <2>1, <2>2
<1>10. ArmInv' /\ WarnInv'
  BY <1>1, <1>2 DEF ArmInv, WarnInv, Silent, Renewed, Held, Delay, Warned
<1>11. SpokeInv'
  <2>1. CASE spoke' = spoke
    BY <2>1, <1>1, <1>2 DEF SpokeInv
  <2>2. CASE spoke' = clock
    <3>1. now <= clock + (IF running THEN PERIOD ELSE 0)
      BY <1>3, SpanFacts
    <3> QED BY <3>1, <2>2, <1>1 DEF SpokeInv
  <2> QED BY <2>1, <2>2
<1> QED BY <1>6, <1>7, <1>8, <1>9, <1>10, <1>11 DEF LeaseInv

LEMMA BeginStep == LeaseInv /\ BeginCycle => LeaseInv'
<1> SUFFICES ASSUME LeaseInv, BeginCycle PROVE LeaseInv'
  OBVIOUS
<1>1. /\ running = FALSE /\ running' = TRUE /\ now' = clock
      /\ UNCHANGED <<clock, state, queue, pending, deadline, retryAt, failures, bites,
                     spoke, atLastPulse>>
  BY DEF BeginCycle, wdt, history, LeaseInv, TypeOK
<1>2. /\ TypeOK /\ ClockInv /\ QueueInv /\ HeardInv /\ ArmInv /\ WarnInv /\ SpokeInv
  BY DEF LeaseInv
<1>3. /\ clock \in Nat /\ now \in Nat /\ queue \in Seq(Messages) /\ spoke \in Nat
      /\ deadline \in Nat /\ state.last_now \in Nat /\ state.last_lease_ping \in Nat
      /\ Delay \in Nat
      /\ now <= clock /\ clock <= now + PERIOD /\ state.last_now <= clock
  BY <1>2, TypeFacts DEF ClockInv
<1>4. TypeOK'
  BY <1>1, <1>2, <1>3 DEF TypeOK
<1>5. ClockInv' /\ HeardInv'
  BY <1>1, <1>2, <1>3, SpanFacts DEF ClockInv, HeardInv, Held
<1>6. QueueInv'
  <2>1. \A i \in DOMAIN queue : queue[i].at \in Nat
    <3> SUFFICES ASSUME NEW i \in DOMAIN queue PROVE queue[i].at \in Nat
      OBVIOUS
    <3>1. queue[i] \in Messages
      BY <1>3
    <3> QED BY <3>1 DEF Messages
  <2> QED BY <2>1, <1>1, <1>2, <1>3, SpanFacts DEF QueueInv
<1>7. ArmInv'
  BY <1>1, <1>2, <1>3, SpanFacts DEF ArmInv, Held, Delay
<1>8. WarnInv'
  <2>1. CASE pending /\ failures = 0
    <3>1. Silent /\ (Warned \/ state.last_now < state.last_lease_ping + LEASE_TIMEOUT)
      BY <2>1, <1>1, <1>2 DEF WarnInv
    <3>2. Silent'
      BY <3>1, <1>1, <1>3 DEF Silent, Held
    <3>3. now <= state.last_now /\ (Warned' <=> Warned)
      BY <1>1, <1>2 DEF ClockInv, Warned
    <3>4. Warned' \/ now' < state'.last_lease_ping + LEASE_TIMEOUT + PERIOD
      BY <3>1, <3>3, <1>1, <1>3, SpanFacts
    <3> QED BY <3>2, <3>4, <1>1 DEF WarnInv
  <2>2. CASE ~(pending /\ failures = 0)
    BY <2>2, <1>1 DEF WarnInv
  <2> QED BY <2>1, <2>2
<1>9. SpokeInv'
  BY <1>1, <1>2, <1>3, SpanFacts DEF SpokeInv
<1> QED BY <1>4, <1>5, <1>6, <1>7, <1>8, <1>9 DEF LeaseInv

\* A message either renews the session or leaves it as it is.
LEMMA HandledKinds ==
    ASSUME NEW m \in Messages, state \in States
    PROVE  /\ m.at \in Nat
           /\ \/ Handles(state, Handled(m), m.at)
              \/ m.kind \notin Commands /\ Passes(state, Handled(m), m.at)
<1>1. m.at \in Nat /\ m.kind \in Commands \cup Reports /\ WatchdogBoot \in BOOLEAN
  BY DEF Messages, WatchdogBoot
<1>2. CASE m.kind = "STACK_STARTED"
  BY <1>1, <1>2, StackStartedHandles DEF Handled
<1>3. CASE m.kind = "STACK_RETRYING"
  BY <1>1, <1>3, StackRetryingHandles DEF Handled
<1>4. CASE m.kind = "NETWORK_LEFT"
  BY <1>1, <1>4, NetworkLeftHandles DEF Handled
<1>5. CASE m.kind = "READY"
  BY <1>1, <1>5, ReadyHandles DEF Handled
<1>6. CASE m.kind = "LEASE_PING"
  BY <1>1, <1>6, LeasePingHandles DEF Handled
<1>7. CASE m.kind = "LEAVE_SUCCEEDED"
  BY <1>1, <1>7, LeaveSucceededPasses DEF Handled, Commands
<1>8. CASE m.kind = "GATEWAY_EVENT"
  BY <1>1, <1>8, GatewayEventPasses DEF Handled, Commands
<1> QED BY <1>1, <1>2, <1>3, <1>4, <1>5, <1>6, <1>7, <1>8 DEF Commands, Reports

LEMMA HandleStep == LeaseInv /\ HandleMessage => LeaseInv'
<1> SUFFICES ASSUME LeaseInv, HandleMessage PROVE LeaseInv'
  OBVIOUS
<1> DEFINE m == Head(queue)
<1>1. /\ running = TRUE /\ queue # <<>> /\ state' = Handled(m) /\ queue' = Tail(queue)
      /\ UNCHANGED <<clock, now, running, pending, deadline, retryAt, failures, bites,
                     spoke, atLastPulse>>
  BY DEF HandleMessage, task, wdt, history, LeaseInv, TypeOK
<1>2. /\ TypeOK /\ ClockInv /\ QueueInv /\ HeardInv /\ ArmInv /\ WarnInv /\ SpokeInv
  BY DEF LeaseInv
<1>3. /\ clock \in Nat /\ now \in Nat /\ queue \in Seq(Messages) /\ spoke \in Nat
      /\ deadline \in Nat /\ retryAt \in Nat /\ Delay \in Nat /\ state \in States
      /\ state.last_now \in Nat /\ state.last_lease_ping \in Nat
      /\ now <= clock /\ clock <= now + PERIOD /\ state.last_now <= clock
      /\ state.last_lease_ping <= state.last_now
  BY <1>2, TypeFacts DEF ClockInv
<1>4. /\ m \in Messages /\ m = queue[1] /\ 1 \in DOMAIN queue
      /\ queue' \in Seq(Messages) /\ DOMAIN queue' = 1..(Len(queue) - 1)
      /\ DOMAIN queue = 1..Len(queue) /\ Len(queue) \in Nat /\ Len(queue) > 0
      /\ \A i \in DOMAIN queue' : i + 1 \in DOMAIN queue /\ queue'[i] = queue[i + 1]
  BY <1>1, <1>3
<1> HIDE DEF m
<1>5. /\ m.at \in Nat /\ m.at <= clock /\ now <= m.at + PERIOD
      /\ \/ Handles(state, state', m.at)
         \/ m.kind \notin Commands /\ Passes(state, state', m.at)
  BY <1>1, <1>2, <1>3, <1>4, HandledKinds DEF QueueInv
<1> DEFINE renewed == state'.last_lease_ping = state'.last_now
           kept == /\ Held(state)
                   /\ state'.last_lease_ping = state.last_lease_ping
<1>6. /\ state' \in States /\ state'.last_now \in Nat
      /\ state'.last_now <= clock /\ state.last_now <= state'.last_now
      /\ m.at <= state'.last_now
      /\ Held(state') => renewed \/ kept
      /\ Held(state') /\ m.kind \in Commands => renewed
      /\ state'.last_lease_ping \in Nat
      /\ state.last_lease_ping <= state'.last_lease_ping
      /\ state'.last_lease_ping <= state'.last_now
  BY <1>5, <1>3 DEF Handles, Passes, Carried, Held, Later
<1>7. TypeOK'
  BY <1>1, <1>2, <1>3, <1>4, <1>6 DEF TypeOK
<1>8. ClockInv'
  BY <1>1, <1>2, <1>6 DEF ClockInv
<1>10. QueueInv'
  BY <1>1, <1>2, <1>4 DEF QueueInv
<1>11. HeardInv'
  <2>1. CASE \E i \in DOMAIN queue : queue[i].kind \in Commands /\ spoke <= queue[i].at
    <3>1. PICK i \in DOMAIN queue : queue[i].kind \in Commands /\ spoke <= queue[i].at
      BY <2>1
    <3>2. CASE i = 1
      <4>1. spoke <= state'.last_now
        BY <3>1, <3>2, <1>3, <1>4, <1>5, <1>6
      <4>2. m.kind \in Commands
        BY <3>1, <3>2, <1>4
      <4> QED BY <4>1, <4>2, <1>1, <1>6 DEF HeardInv
    <3>3. CASE i # 1
      <4> DEFINE j == i - 1
      <4>1. j \in DOMAIN queue' /\ queue'[j] = queue[j + 1] /\ j + 1 = i
        BY <3>3, <1>4
      <4>2. queue'[j].kind \in Commands /\ spoke' <= queue'[j].at
        BY <4>1, <3>1, <1>1
      <4> QED BY <4>1, <4>2 DEF HeardInv
    <3> QED BY <3>2, <3>3
  <2>2. CASE spoke <= state.last_now /\ (Held(state) => spoke <= state.last_lease_ping)
    <3>1. spoke <= state'.last_now /\ (Held(state') => spoke <= state'.last_lease_ping)
      BY <2>2, <1>3, <1>6
    <3> QED BY <3>1, <1>1, <1>6 DEF HeardInv
  <2> QED BY <2>1, <2>2, <1>2 DEF HeardInv
<1>12. now <= state'.last_now + PERIOD
  BY <1>3, <1>5, <1>6, SpanFacts
<1>13. Delay' = Delay
  BY <1>1 DEF Delay
<1>14. ArmInv'
  <2>1. retryAt <= state'.last_lease_ping + LEASE_WDT_ARM + Delay
    BY <1>2, <1>3, <1>6, SpanFacts DEF ArmInv
  <2>2. ~pending /\ Held(state') =>
           now < state'.last_lease_ping + LEASE_WDT_ARM + Delay + PERIOD
    <3> SUFFICES ASSUME ~pending, Held(state')
                 PROVE  now < state'.last_lease_ping + LEASE_WDT_ARM + Delay + PERIOD
      OBVIOUS
    <3>1. CASE kept
      BY <3>1, <1>1, <1>2 DEF ArmInv
    <3>2. CASE renewed
      BY <3>2, <1>3, <1>6, <1>12, SpanFacts
    <3> QED BY <3>1, <3>2, <1>6
  <2>3. pending => deadline < BiteBound(state'.last_lease_ping, Delay)
    <3> SUFFICES ASSUME pending
                 PROVE  deadline < BiteBound(state'.last_lease_ping, Delay)
      OBVIOUS
    <3>1. deadline < BiteBound(state.last_lease_ping, Delay)
      BY <1>2 DEF ArmInv
    <3> DEFINE old == state.last_lease_ping
               new == state'.last_lease_ping
    <3>2. /\ old \in Nat /\ new \in Nat /\ old <= new /\ deadline \in Nat
          /\ Delay \in Nat /\ Delay <= Delay
      BY <1>3, <1>6
    <3> HIDE DEF old, new
    <3>3. /\ BiteBound(old, Delay) \in Nat /\ BiteBound(new, Delay) \in Nat
          /\ BiteBound(old, Delay) <= BiteBound(new, Delay)
      BY <3>2, BiteBoundGrows
    <3>4. deadline < BiteBound(old, Delay)
      BY <3>1 DEF old
    <3>5. deadline < BiteBound(new, Delay)
      BY <3>2, <3>3, <3>4
    <3> QED BY <3>5 DEF new
  <2> QED BY <2>1, <2>2, <2>3, <1>1, <1>13 DEF ArmInv
<1>15. Renewed' \/ (Held(state') /\ kept)
  BY <1>1, <1>6, <1>12 DEF Renewed
<1>16. WarnInv'
  <2>1. CASE pending /\ failures = 0
    <3>1. \/ Silent /\ (Warned \/ now < state.last_lease_ping + LEASE_TIMEOUT + PERIOD)
          \/ Renewed /\ (Warned \/ now + FINAL_PULSE_GRACE < deadline + PERIOD)
      BY <2>1, <1>1, <1>2 DEF WarnInv
    <3>2. Warned \/ now + FINAL_PULSE_GRACE < deadline + PERIOD
      BY <3>1, <1>3, SpanFacts DEF Silent
    <3>3. Warned' <=> Warned
      BY <1>1 DEF Warned
    <3>4. CASE Renewed'
      BY <3>2, <3>3, <3>4, <1>1 DEF WarnInv
    <3>5. CASE Held(state') /\ kept
      <4>1. CASE Silent /\ (Warned \/ now < state.last_lease_ping + LEASE_TIMEOUT + PERIOD)
        <5>1. Silent'
          BY <4>1, <3>5, <1>1 DEF Silent
        <5> QED BY <5>1, <4>1, <3>3, <3>5, <1>1 DEF WarnInv
      <4>2. CASE Renewed
        <5>1. Renewed'
          BY <4>2, <3>5, <1>1 DEF Renewed
        <5> QED BY <5>1, <3>4
      <4> QED BY <3>1, <4>1, <4>2
    <3> QED BY <1>15, <3>4, <3>5
  <2>2. CASE ~(pending /\ failures = 0)
    BY <2>2, <1>1 DEF WarnInv
  <2> QED BY <2>1, <2>2
<1>17. SpokeInv'
  BY <1>1, <1>2 DEF SpokeInv
<1> QED BY <1>7, <1>8, <1>10, <1>11, <1>14, <1>16, <1>17 DEF LeaseInv

LEMMA DueFacts ==
    ASSUME NEW s \in States, NEW n \in Nat
    PROVE  /\ LeaseWdtDue(s, n) => Held(s) /\ s.last_lease_ping + LEASE_WDT_ARM <= n
           /\ Held(s) /\ ~LeaseWdtDue(s, n) => n < s.last_lease_ping + LEASE_WDT_ARM
<1>1. s.last_lease_ping \in Nat
  BY DEF States
<1> QED BY <1>1, SpanFacts DEF LeaseWdtDue, LeaseAge, Later, Held

LEMMA EndStep == LeaseInv /\ EndCycle => LeaseInv'
<1> SUFFICES ASSUME LeaseInv, EndCycle PROVE LeaseInv'
  OBVIOUS
<1>0. PICK down \in BOOLEAN, written \in BOOLEAN :
          /\ running /\ queue = <<>>
          /\ SyncLeaseWatchdog(Pressed(down))
          /\ state' = DispatchActions(Pressed(down), written)
          /\ ApplyLed(state')
          /\ running' = FALSE
          /\ UNCHANGED <<clock, queue, now, bites, spoke>>
  BY DEF EndCycle
<1> DEFINE before == Pressed(down)
           due == LeaseWdtDue(before, now)
           ping == state.last_lease_ping
<1>1. /\ running = TRUE /\ running' = FALSE /\ queue = <<>> /\ queue' = queue
      /\ state' = DispatchActions(before, written)
      /\ clock' = clock /\ now' = now /\ bites' = bites /\ spoke' = spoke
      /\ ApplyLed(state')
      /\ SyncLeaseWatchdog(before)
  BY <1>0 DEF LeaseInv, TypeOK
<1>2. /\ TypeOK /\ ClockInv /\ QueueInv /\ HeardInv /\ ArmInv /\ WarnInv /\ SpokeInv
  BY DEF LeaseInv
<1>3. /\ clock \in Nat /\ now \in Nat /\ queue \in Seq(Messages) /\ spoke \in Nat
      /\ failures \in Nat /\ bites \in Nat
      /\ deadline \in Nat /\ retryAt \in Nat /\ Delay \in Nat /\ state \in States
      /\ state.last_now \in Nat /\ ping \in Nat
      /\ now <= clock /\ clock <= now + PERIOD /\ state.last_now <= clock
      /\ ping <= state.last_now /\ pending \in BOOLEAN
  BY <1>2, TypeFacts DEF ClockInv
<1>4. /\ before \in States /\ Carried(state, before)
      /\ before.last_now = Later(state.last_now, now)
      /\ Carried(before, state') /\ state'.last_now = before.last_now
      /\ Held(before) => Held(state')
  <2>1. Passes(state, before, now)
    BY <1>3, PressedPasses
  <2>2. before.phase = "READY" => ~ResetDue(before)
    <3> DEFINE x == IF down = state.boot_down THEN state ELSE BootInput(state, down, now)
    <3>1. x \in States
      BY <1>3, BootInputPasses DEF Passes, Carried
    <3>2. before = Advance(x, now)
      BY DEF Pressed
    <3> HIDE DEF x, before
    <3> QED BY <3>1, <3>2, <1>3, ReadySettled
  <2>3. before \in States /\ now <= before.last_now
    BY <2>1, <1>3 DEF Passes, Carried, Later
  <2> HIDE DEF before
  <2>4. /\ Carried(before, state') /\ state'.last_now = before.last_now
        /\ before.phase = "READY" => state'.phase = "READY"
    BY <2>2, <2>3, <1>1, <1>3, DispatchPasses
  <2> QED BY <2>1, <2>3, <2>4 DEF Passes, Carried, Held
<1> HIDE DEF before
<1>5. /\ state' \in States /\ state'.last_lease_ping = ping /\ before.last_lease_ping = ping
      /\ (Held(state') => Held(state)) /\ (Held(state') <=> Held(before))
      /\ state'.last_now \in Nat /\ state.last_now <= state'.last_now
      /\ now <= state'.last_now /\ state'.last_now <= clock
  BY <1>3, <1>4 DEF Carried, Held, Later
<1>6. /\ due => Held(state') /\ ping + LEASE_WDT_ARM <= now
      /\ Held(state') /\ ~due => now < ping + LEASE_WDT_ARM
      /\ due <=> LeaseWdtDue(state', now)
  <2>1. /\ due => Held(state') /\ ping + LEASE_WDT_ARM <= now
        /\ Held(state') /\ ~due => now < ping + LEASE_WDT_ARM
    BY <1>3, <1>4, <1>5, DueFacts
  <2>2. /\ LeaseWdtDue(state', now) => Held(state') /\ ping + LEASE_WDT_ARM <= now
        /\ Held(state') /\ ~LeaseWdtDue(state', now) => now < ping + LEASE_WDT_ARM
    BY <1>3, <1>5, DueFacts
  <2> HIDE DEF due
  <2> QED BY <2>1, <2>2, <1>3, SpanFacts
<1> DEFINE cancelled == /\ ~due /\ ~pending' /\ retryAt' = 0 /\ deadline' = 0
                        /\ failures' = failures
           stays == /\ ~due /\ pending /\ pending' /\ retryAt' = 0 /\ deadline' = deadline
                    /\ failures' = failures + 1
           counts == /\ due /\ pending /\ pending'
                     /\ deadline' = deadline /\ retryAt' = retryAt /\ failures' = failures
           waits == /\ due /\ ~pending /\ ~pending' /\ now < retryAt
                    /\ deadline' = deadline /\ retryAt' = retryAt /\ failures' = failures
           armed == /\ due /\ ~pending /\ pending' /\ deadline' = clock + LEASE_WDT_GUARD
                    /\ retryAt' = retryAt /\ failures' = failures
           halfArmed == /\ due /\ ~pending /\ pending' /\ deadline' \in Nat
                        /\ clock <= deadline' /\ deadline' <= clock + LEASE_WDT_GUARD
                        /\ retryAt' = retryAt /\ failures' = failures + 1
           fails == /\ due /\ ~pending /\ ~pending' /\ deadline' = deadline
                    /\ retryAt' = now + WDT_RETRY /\ failures' = failures + 1
<1>7. cancelled \/ stays \/ counts \/ waits \/ armed \/ halfArmed \/ fails
  <2>1. CASE ~due
    <3>1. Cancel
      BY <2>1, <1>1 DEF SyncLeaseWatchdog, due
    <3> HIDE DEF due
    <3>2. CASE pending' = FALSE /\ deadline' = 0 /\ UNCHANGED failures
      BY <2>1, <3>1, <3>2 DEF Cancel
    <3>3. CASE pending /\ Fails /\ UNCHANGED <<pending, deadline>>
      BY <2>1, <3>1, <3>3 DEF Cancel, Fails
    <3> QED BY <3>1, <3>2, <3>3 DEF Cancel
  <2>2. CASE due /\ (pending \/ now < retryAt)
    <3>1. UNCHANGED wdt
      BY <2>2, <1>1 DEF SyncLeaseWatchdog, due
    <3> HIDE DEF due
    <3> QED BY <2>2, <3>1 DEF wdt
  <2>3. CASE due /\ ~(pending \/ now < retryAt)
    <3>1. Arm
      BY <2>3, <1>1 DEF SyncLeaseWatchdog, due
    <3> HIDE DEF due
    <3>2. CASE /\ pending' = TRUE /\ deadline' = clock + LEASE_WDT_GUARD
               /\ UNCHANGED <<retryAt, failures>>
      BY <2>3, <3>2
    <3>3. CASE /\ Fails /\ pending' = TRUE
               /\ deadline' \in clock .. clock + LEASE_WDT_GUARD /\ UNCHANGED retryAt
      BY <2>3, <3>3, <1>3, SpanFacts DEF Fails
    <3>4. CASE Fails /\ retryAt' = now + WDT_RETRY /\ UNCHANGED <<pending, deadline>>
      BY <2>3, <3>4 DEF Fails
    <3> QED BY <3>1, <3>2, <3>3, <3>4 DEF Arm
  <2> HIDE DEF due
  <2> QED BY <2>1, <2>2, <2>3
<1> HIDE DEF due
<1> DEFINE shown == Later(now, state'.last_now)
           atLast == LastPulse(LeaseWarningLed(LeaseAge(state', shown)))
<1>13. /\ ~due => atLastPulse' = None
       /\ due => \/ atLastPulse' = atLastPulse /\ (Warned \/ ~atLast)
                 \/ atLastPulse' \in Seen
  <2>1. due => LightAt(state', now).effect \in Seen
    BY <1>3, <1>5, <1>6, DueLight
  <2>2. /\ ~due => atLastPulse' = None
        /\ due => \/ atLastPulse' = atLastPulse /\ (atLastPulse = "LEASE_WARNING" \/ ~atLast)
                  \/ atLastPulse' = LightAt(state', now).effect
    <3> HIDE DEF atLast, shown, due
    <3> QED BY <1>1, <1>6 DEF ApplyLed, atLast, shown
  <2> HIDE DEF atLast, due
  <2> QED BY <2>1, <2>2 DEF Warned, Seen
<1> HIDE DEF atLast, shown
<1>8. /\ deadline' \in Nat /\ retryAt' \in Nat /\ failures' \in Nat /\ pending' \in BOOLEAN
      /\ failures' = failures \/ failures' = failures + 1
  <2>1. pending' \in BOOLEAN
    BY <1>1, <1>3 DEF SyncLeaseWatchdog, Cancel, Arm, wdt
  <2> QED BY <2>1, <1>3, <1>7, SpanFacts
<1>9. /\ failures' = failures => Delay' = Delay
      /\ failures' = failures + 1 => Delay' = Delay + WDT_RETRY + PERIOD - 1
  BY <1>3, SpanFacts DEF Delay
<1>10. TypeOK'
  <2>1. atLastPulse' \in {None} \cup Seen
    <3>1. atLastPulse \in {None} \cup Seen
      BY <1>2 DEF TypeOK
    <3> QED BY <3>1, <1>13
  <2>2. {clock, now, deadline, retryAt, failures, bites, spoke}' \subseteq Nat
    BY <1>1, <1>3, <1>8
  <2> QED BY <2>1, <2>2, <1>1, <1>3, <1>5, <1>8 DEF TypeOK
<1>11. ClockInv'
  <2>1. pending' => clock <= deadline'
    <3>1. pending => clock <= deadline
      BY <1>2 DEF ClockInv
    <3> QED BY <3>1, <1>3, <1>7, SpanFacts
  <2> QED BY <2>1, <1>1, <1>2, <1>3, <1>5 DEF ClockInv
<1>12. QueueInv'
  BY <1>1 DEF QueueInv
<1>14. spoke <= state.last_now /\ (Held(state) => spoke <= ping)
  BY <1>1, <1>2 DEF HeardInv
<1>15. HeardInv'
  BY <1>1, <1>3, <1>5, <1>14 DEF HeardInv
<1>16. ~pending /\ due => now < ping + LEASE_WDT_ARM + Delay + PERIOD
  BY <1>1, <1>2, <1>5, <1>6 DEF ArmInv
<1>17. ArmInv'
  <2>0. retryAt <= ping + LEASE_WDT_ARM + Delay /\ Delay' \in Nat
    BY <1>2, <1>3, <1>8, <1>9, SpanFacts DEF ArmInv
  <2>1. retryAt' <= ping + LEASE_WDT_ARM + Delay'
    <3>1. CASE fails
      <4>1. now < ping + LEASE_WDT_ARM + Delay + PERIOD /\ retryAt' = now + WDT_RETRY
        BY <3>1, <1>16
      <4>2. Delay' = Delay + WDT_RETRY + PERIOD - 1
        BY <3>1, <1>9
      <4> HIDE DEF fails
      <4> QED BY <4>1, <4>2, <1>3, SpanFacts
    <3>2. CASE retryAt' = 0 \/ retryAt' = retryAt
      <4>1. Delay <= Delay'
        BY <1>3, <1>8, <1>9, SpanFacts
      <4> QED BY <4>1, <3>2, <2>0, <1>3, SpanFacts
    <3> QED BY <3>1, <3>2, <1>7
  <2>2. ~pending' /\ Held(state') => now < ping + LEASE_WDT_ARM + Delay'
    <3> SUFFICES ASSUME ~pending', Held(state')
                 PROVE  now < ping + LEASE_WDT_ARM + Delay'
      OBVIOUS
    <3>1. CASE cancelled
      BY <3>1, <2>0, <1>3, <1>6, SpanFacts
    <3>2. CASE waits
      BY <3>2, <2>0, <1>3, <1>9, SpanFacts
    <3>3. CASE fails
      <4>1. now < ping + LEASE_WDT_ARM + Delay + PERIOD
        BY <3>3, <1>16
      <4>2. Delay' = Delay + WDT_RETRY + PERIOD - 1
        BY <3>3, <1>9
      <4> HIDE DEF fails
      <4> QED BY <4>1, <4>2, <1>3, SpanFacts
    <3> QED BY <3>1, <3>2, <3>3, <1>7
  <2>3. pending' => deadline' < BiteBound(ping, Delay')
    <3>1. pending => deadline < BiteBound(ping, Delay)
      BY <1>2 DEF ArmInv
    <3>2. Delay <= Delay'
      BY <1>3, <1>8, <1>9, SpanFacts
    <3> SUFFICES ASSUME pending'
                 PROVE  deadline' < BiteBound(ping, Delay')
      OBVIOUS
    <3> HIDE DEF ping
    <3>3. /\ BiteBound(ping, Delay) \in Nat /\ BiteBound(ping, Delay') \in Nat
          /\ BiteBound(ping, Delay) <= BiteBound(ping, Delay')
      BY <3>2, <2>0, <1>3, BiteBoundGrows
    <3>4. CASE pending /\ deadline' = deadline
      BY <3>1, <3>3, <3>4, <1>3
    <3>5. CASE due /\ ~pending /\ deadline' <= clock + LEASE_WDT_GUARD
      <4>1. now < ping + LEASE_WDT_ARM + Delay + PERIOD
        BY <3>5, <1>16
      <4>2. deadline' < BiteBound(ping, Delay)
        <5>1. deadline' <= clock + LEASE_WDT_GUARD /\ clock <= now + PERIOD
          BY <3>5, <1>3
        <5>2. deadline' <= now + PERIOD + LEASE_WDT_GUARD
          BY <5>1, <1>3, <1>8, SpanFacts
        <5> QED BY <4>1, <5>2, <1>3, <1>8, WithinBiteBound
      <4> QED BY <4>2, <3>3, <1>8
    <3>6. \/ pending /\ deadline' = deadline
          \/ due /\ ~pending /\ deadline' <= clock + LEASE_WDT_GUARD
      BY <1>3, <1>7, SpanFacts
    <3> QED BY <3>4, <3>5, <3>6
  <2> HIDE DEF cancelled, stays, counts, waits, armed, halfArmed, fails
  <2>4. state'.last_lease_ping = ping /\ now' = now /\ running' = FALSE
    BY <1>1, <1>5
  <2>5. ~pending' /\ Held(state') => now < ping + LEASE_WDT_ARM + Delay' + 0
    BY <2>0, <2>2, <1>3, SpanFacts
  <2> HIDE DEF ping
  <2> QED BY <2>1, <2>3, <2>4, <2>5 DEF ArmInv
<1>18. ASSUME pending', failures' = 0
       PROVE  /\ due /\ failures = 0
              /\ pending => deadline' = deadline
              /\ ~pending => deadline' = clock + LEASE_WDT_GUARD
  BY <1>3, <1>7, <1>18
<1>19. ASSUME due, pending, failures = 0
       PROVE  Silent /\ (Warned \/ now < ping + LEASE_TIMEOUT + PERIOD)
  <2>1. ~Renewed
    BY <1>3, <1>5, <1>6, <1>19, SpanFacts DEF Renewed
  <2> QED BY <2>1, <1>1, <1>2, <1>19 DEF WarnInv
<1>20. ASSUME due, Warned \/ now < ping + LEASE_TIMEOUT + PERIOD
       PROVE  Warned' \/ state'.last_now < ping + LEASE_TIMEOUT
  <2>1. Warned \/ now < ping + LEASE_TIMEOUT + PERIOD
    BY <1>20
  <2>2. TENTH \in Nat /\ 2 * PERIOD <= TENTH
    BY LightAssumption, SpanAssumption
  <2>3. shown = state'.last_now
    BY <1>3, <1>5 DEF shown, Later
  <2>4. /\ ping + LEASE_TIMEOUT <= shown /\ shown < ping + LEASE_TIMEOUT + TENTH => atLast
    <3>1. Held(state') /\ state'.last_lease_ping + LEASE_WDT_ARM <= now
      BY <1>5, <1>6, <1>20
    <3> QED BY <3>1, <1>3, <1>5, DueLight DEF atLast, shown
  <2>5. Warned \/ atLast \/ state'.last_now < ping + LEASE_TIMEOUT
    <3>1. state'.last_now <= now + PERIOD
      BY <1>3, <1>5, SpanFacts
    <3> HIDE DEF ping
    <3>2. ping \in Nat
      BY <1>3 DEF ping
    <3> QED BY <2>1, <2>2, <2>3, <2>4, <3>1, <3>2, <1>3, <1>5, SpanFacts
  <2>6. Warned \/ atLast => Warned'
    <3>1. \/ atLastPulse' = atLastPulse /\ (Warned \/ ~atLast)
          \/ atLastPulse' \in Seen
      BY <1>20, <1>13
    <3>2. Warned <=> atLastPulse \in Seen
      BY DEF Warned
    <3>3. Warned' <=> atLastPulse' \in Seen
      BY DEF Warned
    <3> QED BY <3>1, <3>2, <3>3, Zenon
  <2> QED BY <2>5, <2>6
<1>21. WarnInv'
  <2> SUFFICES ASSUME pending', failures' = 0
               PROVE  Silent' /\ (Warned' \/ state'.last_now < ping + LEASE_TIMEOUT)
    BY <1>1, <1>5 DEF WarnInv
  <2>1. CASE pending
    <3>1. Silent' /\ (Warned' \/ state'.last_now < ping + LEASE_TIMEOUT)
      BY <2>1, <1>5, <1>6, <1>18, <1>19, <1>20 DEF Silent
    <3> QED BY <3>1
  <2>2. CASE ~pending
    <3>1. Delay = 0
      BY <1>18, SpanFacts DEF Delay
    <3>2. Warned' \/ state'.last_now < ping + LEASE_TIMEOUT
      <4>1. now < ping + LEASE_WDT_ARM + PERIOD
        BY <2>2, <3>1, <1>3, <1>16, <1>18, SpanFacts
      <4>2. now < ping + LEASE_TIMEOUT + PERIOD
        BY <4>1, <1>3, SpanAssumption, SpanFacts
      <4> QED BY <4>2, <1>18, <1>20
    <3>3. Silent'
      BY <2>2, <1>3, <1>5, <1>6, <1>18, SpanFacts DEF Silent
    <3> QED BY <3>2, <3>3
  <2> QED BY <2>1, <2>2
<1>22. SpokeInv'
  <2> SUFFICES ASSUME pending', failures' = 0
               PROVE  spoke + LEASE_WDT_ARM + LEASE_WDT_GUARD <= deadline'
    BY <1>1 DEF SpokeInv
  <2>1. spoke <= ping /\ ping + LEASE_WDT_ARM <= now
    BY <1>5, <1>6, <1>14, <1>18
  <2>2. CASE pending
    BY <2>1, <2>2, <1>3, <1>18, <1>19, SpanFacts DEF Silent
  <2>3. CASE ~pending
    BY <2>1, <2>3, <1>3, <1>18, SpanFacts
  <2> QED BY <2>2, <2>3
<1> QED BY <1>10, <1>11, <1>12, <1>15, <1>17, <1>21, <1>22 DEF LeaseInv

LEMMA BiteStep == LeaseInv /\ Bite => LeaseInv'
<1> SUFFICES ASSUME LeaseInv, Bite PROVE LeaseInv'
  OBVIOUS
<1>1. /\ clock' = 0 /\ queue' = <<>> /\ now' = 0 /\ running' = FALSE /\ pending' = FALSE
      /\ deadline' = 0 /\ retryAt' = 0 /\ failures' = 0 /\ bites' \in Nat /\ spoke' = 0
      /\ atLastPulse' = None /\ state' \in States
  BY InitStateType DEF Bite, LeaseInv, TypeOK
<1>2. /\ state'.last_now = 0 /\ state'.last_lease_ping = 0
      /\ ~Held(state')
  BY DEF Bite, InitState, Held
<1>3. Delay' = 0
  BY <1>1, SpanFacts DEF Delay
<1>4. TypeOK'
  <2>1. queue' \in Seq(Messages)
    BY <1>1
  <2>2. {clock', now', deadline', retryAt', failures', bites', spoke'} \subseteq Nat
    BY <1>1
  <2> QED BY <2>1, <2>2, <1>1 DEF TypeOK
<1>5. ClockInv' /\ QueueInv' /\ HeardInv'
  BY <1>1, <1>2, SpanFacts DEF ClockInv, QueueInv, HeardInv
<1>6. ArmInv'
  BY <1>1, <1>2, <1>3, SpanFacts DEF ArmInv
<1>7. WarnInv' /\ SpokeInv'
  BY <1>1 DEF WarnInv, SpokeInv
<1> QED BY <1>4, <1>5, <1>6, <1>7 DEF LeaseInv

LEMMA StutterStep == LeaseInv /\ UNCHANGED vars => LeaseInv'
<1> SUFFICES ASSUME LeaseInv, UNCHANGED vars PROVE LeaseInv'
  OBVIOUS
<1>1. UNCHANGED <<clock, state, queue, now, running, pending, deadline, retryAt, failures, bites,
                  spoke, atLastPulse>>
  BY DEF vars, task, wdt, history
<1>2. TypeOK' /\ ClockInv' /\ QueueInv' /\ HeardInv'
  BY <1>1 DEF LeaseInv, TypeOK, ClockInv, QueueInv, HeardInv, Held
<1>3. ArmInv' /\ WarnInv' /\ SpokeInv'
  BY <1>1 DEF LeaseInv, ArmInv, WarnInv, SpokeInv, Silent, Renewed, Held, Delay, Warned
<1> QED BY <1>2, <1>3 DEF LeaseInv

\* The clock, the queue, the record, the light and the watchdog agree at all times (the UI
\* task of cr11_ui_runtime.c and sync_lease_watchdog).
THEOREM WatchdogTheorem == Spec => []LeaseInv
<1>1. LeaseInv /\ Next => LeaseInv'
  <2> SUFFICES ASSUME LeaseInv, Next PROVE LeaseInv'
    OBVIOUS
  <2>1. ASSUME Report PROVE LeaseInv'
    <3>1. PICK kind \in Reports : Post(kind) /\ UNCHANGED history
      BY <2>1 DEF Report
    <3> QED BY <3>1, PostStep DEF history
  <2>2. ASSUME Command PROVE LeaseInv'
    <3>1. PICK kind \in Commands : Post(kind) /\ spoke' = clock /\ UNCHANGED <<moves, atLastPulse>>
      BY <2>2 DEF Command
    <3> QED BY <3>1, PostStep
  <2> QED BY <2>1, <2>2, TickStep, BeginStep, HandleStep, EndStep, BiteStep DEF Next
<1> QED BY <1>1, LeaseStart, StutterStep, PTL DEF Spec

\* Silence is noticed: a lease that has run out is not kept any longer than the thresholds,
\* the failed registrations and the period account for (sync_lease_watchdog).
THEOREM SilenceTheorem == Spec => []SilenceIsNoticed
<1>1. LeaseInv => SilenceIsNoticed
  <2> SUFFICES ASSUME LeaseInv, state.phase = "READY" /\ state.lease_armed
               PROVE  clock - state.last_lease_ping
                          < LEASE_WDT_ARM + LEASE_WDT_GUARD + Handling
                             + failures * (WDT_RETRY + PERIOD - 1)
    BY DEF SilenceIsNoticed
  <2>1. /\ clock \in Nat /\ now \in Nat /\ deadline \in Nat /\ Delay \in Nat
        /\ state.last_lease_ping \in Nat /\ clock <= now + PERIOD /\ pending \in BOOLEAN
        /\ pending => clock <= deadline
    BY TypeFacts DEF LeaseInv, ClockInv
  <2>2. CASE pending
    <3>1. deadline < BiteBound(state.last_lease_ping, Delay)
      BY <2>2 DEF LeaseInv, ArmInv
    <3>2. clock - state.last_lease_ping < LEASE_WDT_ARM + LEASE_WDT_GUARD + 2 * PERIOD + Delay
      BY <3>1, <2>1, <2>2, SpanFacts DEF BiteBound
    <3> QED BY <3>2 DEF Handling, Delay
  <2>3. CASE ~pending
    <3>1. now < state.last_lease_ping + LEASE_WDT_ARM + Delay + PERIOD
      BY <2>1, <2>3, SpanFacts DEF LeaseInv, ArmInv, Held
    <3>2. clock - state.last_lease_ping < LEASE_WDT_ARM + LEASE_WDT_GUARD + 2 * PERIOD + Delay
      BY <3>1, <2>1, SpanFacts
    <3> QED BY <3>2 DEF Handling, Delay
  <2> QED BY <2>1, <2>2, <2>3
<1> QED BY <1>1, WatchdogTheorem, PTL

\* The watchdog bites nobody who has spoken in time (sync_lease_watchdog).
THEOREM BitesTheorem == Spec => BitesOnlySilence
<1>1. LeaseInv /\ Bite /\ failures = 0 =>
         \/ clock - spoke >= LEASE_WDT_ARM + LEASE_WDT_GUARD
         \/ clock - spoke <= Handling
  <2> SUFFICES ASSUME LeaseInv, Bite, failures = 0
               PROVE  \/ clock - spoke >= LEASE_WDT_ARM + LEASE_WDT_GUARD
                      \/ clock - spoke <= Handling
    OBVIOUS
  <2>1. /\ clock \in Nat /\ now \in Nat /\ deadline \in Nat /\ spoke \in Nat
        /\ clock <= now + PERIOD /\ pending /\ deadline <= clock
    BY TypeFacts DEF LeaseInv, ClockInv, Bite
  <2>2. \/ spoke + LEASE_WDT_ARM + LEASE_WDT_GUARD <= deadline
        \/ now <= spoke + (IF running THEN PERIOD ELSE 0)
    BY <2>1 DEF LeaseInv, SpokeInv
  <2> QED BY <2>1, <2>2, SpanFacts DEF Handling
<1> QED BY <1>1, WatchdogTheorem, PTL DEF Spec, BitesOnlySilence

\* The warning has come to its last pulse before the watchdog bites, and the light has
\* shown it unless an event's flash or a hold of BOOT was in its place
\* (cr11_ui_state_led, apply_led).
THEOREM WarnedTheorem == Spec => LastPulseSeen
<1>1. LeaseInv /\ Bite /\ failures = 0 => Warned
  <2> SUFFICES ASSUME LeaseInv, Bite, failures = 0
               PROVE  Warned
    OBVIOUS
  <2>1. /\ clock \in Nat /\ now \in Nat /\ deadline \in Nat /\ state.last_lease_ping \in Nat
        /\ clock <= now + PERIOD /\ pending /\ deadline <= clock
        /\ state.last_now \in Nat /\ (~running => now <= state.last_now)
    BY TypeFacts DEF LeaseInv, ClockInv, Bite
  <2>2. \/ /\ Silent
           /\ Warned \/ now < state.last_lease_ping + LEASE_TIMEOUT + PERIOD
        \/ Warned \/ now + FINAL_PULSE_GRACE < deadline + PERIOD
        \/ /\ Silent /\ now <= state.last_now
           /\ Warned \/ state.last_now < state.last_lease_ping + LEASE_TIMEOUT
    BY <2>1 DEF LeaseInv, WarnInv
  <2> QED BY <2>1, <2>2, SpanFacts, SpanAssumption DEF Silent
<1> QED BY <1>1, WatchdogTheorem, PTL DEF Spec, LastPulseSeen, Warned, Seen
=============================================================================
