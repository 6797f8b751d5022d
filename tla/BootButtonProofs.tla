-------------------------- MODULE BootButtonProofs --------------------------
(***************************************************************************)
(* BOOT on real time, for every debounce, period and lag of the UI task,     *)
(* every length of its queue and any moves of the finger and the console.     *)
(*                                                                         *)
(* First what a hold is to the state machine: time ages the record (Aged),    *)
(* and only a hold that has lasted takes effect.  Then the invariant, which   *)
(* ties the pin, the virtual button and the messages under way to the time    *)
(* at which BOOT was last down.                                              *)
(***************************************************************************)
EXTENDS BootButton, TLAPS

LEMMA SpanFacts ==
    /\ JOIN_HOLD \in Nat /\ 0 < JOIN_HOLD /\ RESET_HOLD \in Nat /\ 0 < RESET_HOLD
    /\ RESULT \in Nat /\ LEAVE_MIN_RED \in Nat /\ LEAVE_TIMEOUT \in Nat
    /\ EVENT_PULSE \in Nat /\ HEARTBEAT_PERIOD \in Nat
    /\ DEBOUNCE \in Nat /\ 0 < DEBOUNCE /\ HOLD_LIMIT \in Nat /\ 0 < HOLD_LIMIT
    /\ PERIOD \in Nat /\ MaxLag \in Nat
    /\ Interval \in Nat /\ PERIOD <= Interval /\ MaxLag <= Interval
BY TimeAssumption, ButtonAssumption DEF Interval, Later

-----------------------------------------------------------------------------
(* What the state machine's functions do to a hold.                         *)

\* The hold of s that r has accepted had lasted long enough.
JoinHeld(s, r) ==
    /\ s.boot_down /\ s.press = "JOIN" /\ s.phase = "UNPROVISIONED"
    /\ s.press_since + JOIN_HOLD <= r.last_now

ResetHeld(s, r) ==
    /\ s.boot_down /\ s.press = "RESET" /\ AcceptsReset(s.phase)
    /\ s.press_since + RESET_HOLD <= r.last_now

Offers(phase) == phase = "UNPROVISIONED" \/ AcceptsReset(phase)

\* Time has passed from s to r, and BOOT has not moved.
Aged(s, r) ==
    /\ r \in States
    /\ s.last_now <= r.last_now
    /\ r.boot_down = s.boot_down
    /\ r.press_since = s.press_since
    /\ Offers(r.phase) => r.phase = s.phase /\ r.press = s.press
    /\ r.phase = "JOINING" => s.phase = "JOINING" \/ JoinHeld(s, r)
    /\ r.phase = "LEAVING" => s.phase = "LEAVING" \/ ResetHeld(s, r)

LEMMA AgedOn ==
    ASSUME NEW s \in States, NEW r \in States, NEW z, Aged(s, r), Aged(r, z)
    PROVE  Aged(s, z)
<1>1. /\ s.last_now \in Nat /\ r.last_now \in Nat /\ z.last_now \in Nat /\ s.press_since \in Nat
      /\ z \in States
  BY DEF States, Aged
<1>2. s.last_now <= z.last_now
  BY <1>1 DEF Aged
<1>3. JoinHeld(r, z) => JoinHeld(s, z)
  BY DEF Aged, JoinHeld, Offers
<1>4. ResetHeld(r, z) => ResetHeld(s, z)
  BY DEF Aged, ResetHeld, Offers
<1>5. JoinHeld(s, r) => JoinHeld(s, z)
  BY <1>1, SpanFacts DEF Aged, JoinHeld
<1>6. ResetHeld(s, r) => ResetHeld(s, z)
  BY <1>1, SpanFacts DEF Aged, ResetHeld
<1> QED BY <1>1, <1>2, <1>3, <1>4, <1>5, <1>6 DEF Aged

LEMMA NotAged ==
    ASSUME NEW s \in States
    PROVE  Aged(s, s)
BY DEF Aged, States

LEMMA MonotonicAges ==
    ASSUME NEW s \in States, NEW t \in Nat
    PROVE  Aged(s, Monotonic(s, t)) /\ Monotonic(s, t).last_now = Later(s.last_now, t)
BY DEF States, Monotonic, Later, Aged

LEMMA AcceptFacts ==
    ASSUME NEW s \in States, NEW p \in Phases, NEW a \in Actions
    PROVE  /\ Accept(s, p, a) \in States
           /\ Accept(s, p, a).last_now = s.last_now /\ Accept(s, p, a).phase = p
           /\ Accept(s, p, a).boot_down = s.boot_down
           /\ Accept(s, p, a).press_since = s.press_since
BY DEF States, EnterPhase, Accept, Presses

LEMMA JoinAges ==
    ASSUME NEW s \in States
    PROVE  Aged(s, AdvanceJoin(s)) /\ AdvanceJoin(s).last_now = s.last_now
<1> DEFINE a == Accept(s, "JOINING", "START_STEERING")
<1>1. /\ a \in States /\ a.last_now = s.last_now /\ a.phase = "JOINING"
      /\ a.boot_down = s.boot_down /\ a.press_since = s.press_since
  BY AcceptFacts DEF Phases, Actions
<1> HIDE DEF a
<1>2. s.last_now \in Nat /\ s.press_since \in Nat
  BY DEF States
<1>3. JoinDue(s) => JoinHeld(s, a)
  BY <1>1, <1>2, SpanFacts DEF JoinDue, JoinHeld
<1>4. JoinDue(s) => Aged(s, a)
  BY <1>1, <1>2, <1>3 DEF Aged, Offers, AcceptsReset
<1>5. AdvanceJoin(s) = IF JoinDue(s) THEN a ELSE s
  BY DEF AdvanceJoin, a
<1> QED BY <1>1, <1>4, <1>5, NotAged

LEMMA ResetAges ==
    ASSUME NEW s \in States
    PROVE  Aged(s, AdvanceReset(s)) /\ AdvanceReset(s).last_now = s.last_now
<1> DEFINE a == Accept(s, "LEAVING", "BEGIN_LOCAL_RESET")
           r == [a EXCEPT !.leave_started = s.last_now, !.leave_succeeded = FALSE]
<1>1. /\ a \in States /\ a.last_now = s.last_now /\ a.phase = "LEAVING"
      /\ a.boot_down = s.boot_down /\ a.press_since = s.press_since
  BY AcceptFacts DEF Phases, Actions
<1> HIDE DEF a
<1>2. s.last_now \in Nat /\ s.press_since \in Nat
  BY DEF States
<1>3. /\ r \in States /\ r.last_now = s.last_now /\ r.phase = "LEAVING"
      /\ r.boot_down = s.boot_down /\ r.press_since = s.press_since
  BY <1>1, <1>2 DEF States
<1> HIDE DEF r
<1>4. ResetDue(s) => ResetHeld(s, r)
  BY <1>2, <1>3, SpanFacts DEF ResetDue, ResetHeld
<1>5. ResetDue(s) => Aged(s, r)
  BY <1>2, <1>3, <1>4 DEF Aged, Offers, AcceptsReset
<1>6. AdvanceReset(s) = IF ResetDue(s) THEN r ELSE s
  BY DEF AdvanceReset, a, r
<1> QED BY <1>3, <1>5, <1>6, NotAged

LEMMA EnterAges ==
    ASSUME NEW s \in States, NEW p \in Phases, ~Offers(p), p \notin {"JOINING", "LEAVING"},
           NEW t \in Nat
    PROVE  Aged(s, EnterPhase(s, p, t)) /\ EnterPhase(s, p, t).last_now = s.last_now
<1> DEFINE e == EnterPhase(s, p, t)
<1>1. /\ e \in States /\ e.last_now = s.last_now /\ e.phase = p
      /\ e.boot_down = s.boot_down /\ e.press_since = s.press_since
  BY DEF States, EnterPhase
<1>2. s.last_now \in Nat
  BY DEF States
<1> HIDE DEF e
<1>3. Aged(s, e) /\ e.last_now = s.last_now
  BY <1>1, <1>2 DEF Aged
<1> QED BY <1>3 DEF e

LEMMA LeaveAges ==
    ASSUME NEW s \in States
    PROVE  Aged(s, AdvanceLeave(s)) /\ AdvanceLeave(s).last_now = s.last_now
<1> DEFINE f == EnterPhase(s, "FORCE_PENDING", s.last_now)
           g == EnterPhase(s, "RESULT_GRACEFUL", ResultAt(s))
           w == [f EXCEPT !.pending = @ \cup {"ARM_FORCED_WIPE"}]
<1>1. ResultAt(s) \in Nat /\ s.last_now \in Nat
  BY SpanFacts DEF ResultAt, Later, States
<1>2. Aged(s, f) /\ f.last_now = s.last_now
  BY <1>1, EnterAges DEF Phases, Offers, AcceptsReset
<1>3. Aged(s, g) /\ g.last_now = s.last_now
  BY <1>1, EnterAges DEF Phases, Offers, AcceptsReset
<1>4. f \in States
  BY <1>2 DEF Aged
<1> HIDE DEF f
<1>5. Aged(f, w) /\ w.last_now = f.last_now
  BY <1>4 DEF States, Actions, Aged
<1>6. Aged(s, w) /\ w.last_now = s.last_now
  <2> HIDE DEF w
  <2> QED BY <1>2, <1>4, <1>5, AgedOn
<1>7. \/ AdvanceLeave(s) = s \/ AdvanceLeave(s) = g \/ AdvanceLeave(s) = w
  BY DEF AdvanceLeave, f
<1> HIDE DEF g, w
<1> QED BY <1>3, <1>6, <1>7, NotAged

LEMMA ResultAges ==
    ASSUME NEW s \in States
    PROVE  Aged(s, AdvanceResult(s)) /\ AdvanceResult(s).last_now = s.last_now
<1> DEFINE e == EnterPhase(s, "TERMINAL", s.phase_since + RESULT)
           r == [e EXCEPT !.press = "IGNORED", !.require_release = TRUE]
<1>1. s.phase_since + RESULT \in Nat
  BY SpanFacts DEF States
<1>2. Aged(s, e) /\ e.last_now = s.last_now
  BY <1>1, EnterAges DEF Phases, Offers, AcceptsReset
<1>3. e \in States /\ e.phase = "TERMINAL"
  BY <1>2 DEF Aged, EnterPhase, States
<1> HIDE DEF e
<1>4. Aged(e, r) /\ r.last_now = e.last_now
  <2>1. /\ r \in States /\ r.last_now = e.last_now /\ r.phase = "TERMINAL"
        /\ r.boot_down = e.boot_down /\ r.press_since = e.press_since
    BY <1>3 DEF States, Presses
  <2>2. e.last_now \in Nat
    BY <1>3 DEF States
  <2> HIDE DEF r
  <2> QED BY <2>1, <2>2 DEF Aged, Offers, AcceptsReset
<1>5. Aged(s, r) /\ r.last_now = s.last_now
  <2> HIDE DEF r
  <2> QED BY <1>2, <1>3, <1>4, AgedOn
<1>6. AdvanceResult(s) = s \/ AdvanceResult(s) = r
  BY DEF AdvanceResult, e
<1> HIDE DEF r
<1> QED BY <1>5, <1>6, NotAged

LEMMA AdvanceAges ==
    ASSUME NEW s \in States, NEW t \in Nat
    PROVE  Aged(s, Advance(s, t)) /\ Advance(s, t).last_now = Later(s.last_now, t)
<1> DEFINE m == Monotonic(s, t)
           j == AdvanceJoin(m)
           r == AdvanceReset(j)
           l == AdvanceLeave(r)
           z == AdvanceResult(l)
<1>1. m \in States /\ Aged(s, m) /\ m.last_now = Later(s.last_now, t)
  BY MonotonicAges DEF Aged
<1> HIDE DEF m
<1>2. j \in States /\ Aged(m, j) /\ j.last_now = m.last_now
  BY <1>1, JoinAges DEF Aged
<1> HIDE DEF j
<1>3. r \in States /\ Aged(j, r) /\ r.last_now = j.last_now
  BY <1>2, ResetAges DEF Aged
<1> HIDE DEF r
<1>4. l \in States /\ Aged(r, l) /\ l.last_now = r.last_now
  BY <1>3, LeaveAges DEF Aged
<1> HIDE DEF l
<1>5. z \in States /\ Aged(l, z) /\ z.last_now = l.last_now
  BY <1>4, ResultAges DEF Aged
<1>6. Advance(s, t) = z
  BY DEF Advance, m, j, r, l
<1> HIDE DEF z
<1>7. Aged(s, z)
  BY <1>1, <1>2, <1>3, <1>4, <1>5, AgedOn
<1> QED BY <1>1, <1>2, <1>3, <1>4, <1>5, <1>6, <1>7

LEMMA GatewayEventAges ==
    ASSUME NEW s \in States, NEW t \in Nat
    PROVE  /\ Aged(s, GatewayEvent(s, FALSE, t))
           /\ GatewayEvent(s, FALSE, t).last_now = Later(s.last_now, t)
<1> DEFINE a == Advance(s, t)
           r == [a EXCEPT !.event_color = "BLUE",
                          !.event_until = a.last_now + EVENT_PULSE,
                          !.heartbeat_anchor = a.last_now + HEARTBEAT_PERIOD]
<1>1. a \in States /\ Aged(s, a) /\ a.last_now = Later(s.last_now, t)
  BY AdvanceAges DEF Aged
<1>2. GatewayEvent(s, FALSE, t) = IF a.phase # "READY" THEN a ELSE r
  BY DEF GatewayEvent
<1> HIDE DEF a
<1>3. a.last_now + EVENT_PULSE \in Nat /\ a.last_now + HEARTBEAT_PERIOD \in Nat
  BY <1>1, SpanFacts DEF States
<1>4. Aged(a, r) /\ r.last_now = a.last_now
  <2>1. /\ r \in States /\ r.last_now = a.last_now /\ r.phase = a.phase /\ r.press = a.press
        /\ r.boot_down = a.boot_down /\ r.press_since = a.press_since
    BY <1>1, <1>3 DEF States, EventColors
  <2>2. a.last_now \in Nat
    BY <1>1 DEF States
  <2> HIDE DEF r
  <2> QED BY <2>1, <2>2 DEF Aged
<1> HIDE DEF r
<1>5. Aged(s, r)
  BY <1>1, <1>4, AgedOn
<1> QED BY <1>1, <1>2, <1>4, <1>5

LEMMA TakeActionsAges ==
    ASSUME NEW s \in States
    PROVE  Aged(s, TakeActions(s)) /\ TakeActions(s).last_now = s.last_now
BY DEF TakeActions, States, Aged

LEMMA BootPressedFacts ==
    ASSUME NEW a \in States
    PROVE  /\ BootPressed(a) \in States
           /\ BootPressed(a).boot_down = TRUE
           /\ BootPressed(a).last_now = a.last_now /\ BootPressed(a).phase = a.phase
           /\ BootPressed(a).press = "IGNORED" \/ BootPressed(a).press_since = a.last_now
<1> DEFINE press == CASE a.phase = "UNPROVISIONED" -> "JOIN"
                      [] AcceptsReset(a.phase)     -> "RESET"
                      [] OTHER                     -> "IGNORED"
           x == [a EXCEPT !.boot_down = TRUE, !.press = "IGNORED"]
           y == [a EXCEPT !.boot_down = TRUE, !.press_since = a.last_now, !.press = press]
<1>1. press \in Presses /\ a.last_now \in Nat
  BY DEF Presses, AcceptsReset, States
<1> HIDE DEF press
<1>2. /\ x \in States /\ x.boot_down = TRUE /\ x.last_now = a.last_now /\ x.phase = a.phase
      /\ x.press = "IGNORED"
  BY DEF States, Presses
<1>3. /\ y \in States /\ y.boot_down = TRUE /\ y.last_now = a.last_now /\ y.phase = a.phase
      /\ y.press_since = a.last_now
  BY <1>1 DEF States
<1>4. BootPressed(a) = x \/ BootPressed(a) = y
  BY DEF BootPressed, press
<1> HIDE DEF x, y
<1> QED BY <1>2, <1>3, <1>4

LEMMA BootReleasedFacts ==
    ASSUME NEW a \in States
    PROVE  /\ BootReleased(a) \in States
           /\ BootReleased(a).boot_down = FALSE
           /\ BootReleased(a).last_now = a.last_now /\ BootReleased(a).phase = a.phase
<1> DEFINE anchor == IF a.press = "RESET" /\ a.phase = "READY"
                     THEN a.last_now + HEARTBEAT_PERIOD ELSE a.heartbeat_anchor
           x == [a EXCEPT !.boot_down = FALSE, !.press = "NONE", !.require_release = FALSE,
                          !.heartbeat_anchor = anchor]
<1>1. anchor \in Nat
  BY SpanFacts DEF States
<1>2. BootReleased(a) = x
  BY DEF BootReleased, States
<1> HIDE DEF anchor
<1>3. /\ x \in States /\ x.boot_down = FALSE /\ x.last_now = a.last_now /\ x.phase = a.phase
  BY <1>1 DEF States, Presses
<1> HIDE DEF x
<1> QED BY <1>2, <1>3

\* What a cycle makes of the record.
Cycle(s, down, t) ==
    TakeActions(Advance(IF down = s.boot_down THEN s ELSE BootInput(s, down, t), t))

LEMMA LaterFacts ==
    ASSUME NEW a \in Nat, NEW t \in Nat
    PROVE  /\ Later(a, t) \in Nat /\ a <= Later(a, t) /\ t <= Later(a, t)
           /\ Later(Later(a, t), t) = Later(a, t)
BY DEF Later

LEMMA CycleFacts ==
    ASSUME NEW s \in States, NEW down \in BOOLEAN, NEW t \in Nat
    PROVE  /\ Cycle(s, down, t) \in States
           /\ Cycle(s, down, t).last_now = Later(s.last_now, t)
           /\ Cycle(s, down, t).boot_down = down
           /\ down = s.boot_down => Aged(s, Cycle(s, down, t))
           /\ down /\ ~s.boot_down =>
                 \/ ~Offers(Cycle(s, down, t).phase)
                 \/ Cycle(s, down, t).press = "IGNORED"
                 \/ Cycle(s, down, t).press_since = Later(s.last_now, t)
           /\ Cycle(s, down, t).phase = "JOINING" /\ s.phase = "UNPROVISIONED" =>
                 JoinHeld(s, Cycle(s, down, t))
           /\ Cycle(s, down, t).phase = "LEAVING" /\ AcceptsReset(s.phase) =>
                 ResetHeld(s, Cycle(s, down, t))
<1> DEFINE now_ == Later(s.last_now, t)
           a == Advance(s, t)
           b == IF down THEN BootPressed(a) ELSE BootReleased(a)
           i == IF down = s.boot_down THEN s ELSE b
           z == Advance(i, t)
           r == TakeActions(z)
<1>1. /\ s.last_now \in Nat /\ s.press_since \in Nat /\ s.boot_down \in BOOLEAN
      /\ now_ \in Nat /\ Later(now_, t) = now_ /\ s.last_now <= now_
      /\ Later(s.last_now, t) = now_
  <2>1. s.last_now \in Nat /\ s.press_since \in Nat /\ s.boot_down \in BOOLEAN
    BY DEF States
  <2> QED BY <2>1, LaterFacts
<1> HIDE DEF now_
<1>2. a \in States /\ Aged(s, a) /\ a.last_now = now_ /\ a.boot_down = s.boot_down
  BY AdvanceAges DEF Aged, now_
<1> HIDE DEF a
<1>3. /\ b \in States /\ b.boot_down = down /\ b.last_now = now_ /\ b.phase = a.phase
      /\ down => b.press = "IGNORED" \/ b.press_since = now_
  BY <1>2, BootPressedFacts, BootReleasedFacts
<1>4. down # s.boot_down => BootInput(s, down, t) = b
  BY <1>1, <1>2 DEF BootInput, a
<1> HIDE DEF b
<1>5. r = Cycle(s, down, t)
  BY <1>4 DEF Cycle
<1>6. i \in States /\ (i.last_now = s.last_now \/ i.last_now = now_) /\ i.boot_down = down
  BY <1>3
<1> HIDE DEF i
<1>7. z \in States /\ Aged(i, z) /\ z.last_now = now_
  <2>1. Later(i.last_now, t) = now_
    <3>1. CASE i.last_now = s.last_now
      BY <3>1, <1>1
    <3>2. CASE i.last_now = now_
      BY <3>2, <1>1
    <3> QED BY <3>1, <3>2, <1>6
  <2>2. Aged(i, z) /\ z.last_now = Later(i.last_now, t)
    BY <1>6, AdvanceAges
  <2> QED BY <2>1, <2>2 DEF Aged
<1> HIDE DEF z
<1>8. r \in States /\ Aged(z, r) /\ r.last_now = now_
  BY <1>7, TakeActionsAges DEF Aged
<1> HIDE DEF r
<1>9. Aged(i, r)
  BY <1>6, <1>7, <1>8, AgedOn
<1>10. r.boot_down = down
  BY <1>6, <1>9 DEF Aged
<1>11. CASE down = s.boot_down
  <2>1. i = s
    BY <1>11 DEF i
  <2>2. Aged(s, r)
    BY <2>1, <1>9
  <2>3. /\ r.phase = "JOINING" /\ s.phase = "UNPROVISIONED" => JoinHeld(s, r)
        /\ r.phase = "LEAVING" /\ AcceptsReset(s.phase) => ResetHeld(s, r)
    BY <2>2 DEF Aged, AcceptsReset
  <2> QED BY <2>2, <2>3, <1>5, <1>8, <1>10, <1>11 DEF now_
<1>12. CASE down # s.boot_down
  <2>1. i = b
    BY <1>12 DEF i
  <2>2. ~JoinHeld(b, r) /\ ~ResetHeld(b, r)
    <3>1. CASE ~down
      BY <3>1, <1>3 DEF JoinHeld, ResetHeld
    <3>2. CASE down /\ b.press = "IGNORED"
      BY <3>2 DEF JoinHeld, ResetHeld
    <3>3. CASE down /\ b.press_since = now_
      BY <3>3, <1>1, <1>8, SpanFacts DEF JoinHeld, ResetHeld
    <3> QED BY <3>1, <3>2, <3>3, <1>3
  <2>3. /\ r.phase = "JOINING" => a.phase = "JOINING"
        /\ r.phase = "LEAVING" => a.phase = "LEAVING"
    BY <2>1, <2>2, <1>3, <1>9 DEF Aged
  <2>4. /\ JoinHeld(s, a) => JoinHeld(s, r)
        /\ ResetHeld(s, a) => ResetHeld(s, r)
    BY <1>2, <1>8 DEF JoinHeld, ResetHeld
  <2>5. /\ r.phase = "JOINING" /\ s.phase = "UNPROVISIONED" => JoinHeld(s, r)
        /\ r.phase = "LEAVING" /\ AcceptsReset(s.phase) => ResetHeld(s, r)
    BY <2>3, <2>4, <1>2 DEF Aged, AcceptsReset
  <2>6. down => \/ ~Offers(r.phase)
                \/ r.press = "IGNORED"
                \/ r.press_since = now_
    BY <2>1, <1>3, <1>9 DEF Aged
  <2> QED BY <2>5, <2>6, <1>5, <1>8, <1>10, <1>12 DEF now_
<1> QED BY <1>11, <1>12

-----------------------------------------------------------------------------
(* The light.                                                               *)

Joins(s) == s.boot_down /\ s.press = "JOIN" /\ s.phase = "UNPROVISIONED"
Resets(s) == s.boot_down /\ s.press = "RESET" /\ AcceptsReset(s.phase)

LEMMA HoldLight ==
    ASSUME NEW s \in States, NEW t \in Nat
    PROVE  /\ Joins(s) => LightAt(s, t).effect = "JOIN_HOLD"
           /\ Resets(s) => LightAt(s, t).effect = "RESET_HOLD"
<1> DEFINE n == Later(t, s.last_now)
<1>1. ASSUME Joins(s) PROVE LightAt(s, t).effect = "JOIN_HOLD"
  <2>1. LightAt(s, t) = PhaseLed(s, n)
    BY <1>1 DEF LightAt, HoldsForReset, Joins
  <2>2. PhaseLed(s, n) = Led("YELLOW_HALF", "JOIN_HOLD")
    BY <1>1 DEF PhaseLed, Joins
  <2> QED BY <2>1, <2>2 DEF Led
<1>2. ASSUME Resets(s) PROVE LightAt(s, t).effect = "RESET_HOLD"
  <2>1. LightAt(s, t) = ResetHoldLed(n - s.press_since)
    BY <1>2 DEF LightAt, HoldsForReset, Resets
  <2> QED BY <2>1 DEF ResetHoldLed, Lit, Led
<1> QED BY <1>1, <1>2

-----------------------------------------------------------------------------
(* The invariant.                                                           *)

Messages == [kind : {"PRESS", "RELEASE", "GATEWAY_EVENT"}, at : Nat]

TypeOK ==
    /\ {clock, now, candidateSince, virtualSince, moves, lastDown, since} \subseteq Nat
    /\ pushed \in BOOLEAN /\ ordered \in BOOLEAN /\ running \in BOOLEAN
    /\ candidate \in BOOLEAN /\ physical \in BOOLEAN
    /\ virtual \in BOOLEAN /\ effective \in BOOLEAN
    /\ state \in States
    /\ queue \in Seq(Messages)

\* The time that may pass between a sample and the one before it.
Slack == IF running THEN Interval ELSE 0

ClockInv ==
    /\ now <= clock /\ clock <= now + (IF running THEN MaxLag ELSE Interval)
    /\ state.last_now <= clock /\ lastDown <= clock
    /\ \A i \in DOMAIN queue : queue[i].at <= clock /\ now <= queue[i].at + Slack

\* Either button has been down until now if it still is.
DownInv == pushed \/ ordered => lastDown = clock

\* A press that the console has taken back is followed by its release.
OrderInv ==
    /\ virtual => ordered \/ \E j \in DOMAIN queue : queue[j].kind = "RELEASE"
    /\ \A i \in DOMAIN queue :
          queue[i].kind = "PRESS" =>
              ordered \/ \E j \in DOMAIN queue : i < j /\ queue[j].kind = "RELEASE"

\* The debounced pin is released after the last sample that saw it pushed.
PinInv ==
    /\ candidate => now <= lastDown
    /\ physical /\ ~candidate =>
          candidateSince <= lastDown + Interval /\ now < candidateSince + DEBOUNCE

VirtualInv == virtual => now < virtualSince + HOLD_LIMIT + Slack

EffectiveInv ==
    /\ state.boot_down = effective
    /\ effective => now < lastDown + DEBOUNCE + Interval + Slack

\* A hold that counts has been counted since BOOT went down, and is shown.
HoldInv ==
    /\ Joins(state) => since <= state.press_since /\ light = "JOIN_HOLD"
    /\ Resets(state) => since <= state.press_since /\ light = "RESET_HOLD"

ButtonInv ==
    /\ TypeOK /\ ClockInv /\ DownInv /\ OrderInv /\ PinInv
    /\ VirtualInv /\ EffectiveInv /\ HoldInv

-----------------------------------------------------------------------------
(* The invariant is inductive.                                              *)

LEMMA InitStateFacts ==
    ASSUME NEW f \in BOOLEAN
    PROVE  LET r == StackStarted(InitState(0), f, FALSE, 0)
           IN  r \in States /\ r.last_now = 0 /\ r.boot_down = FALSE
<1> DEFINE i == InitState(0)
           m == Monotonic(i, 0)
           e == EnterPhase(m, IF f THEN "UNPROVISIONED" ELSE "READY", m.last_now)
           press == IF ~m.boot_down THEN "NONE" ELSE IF f THEN "JOIN" ELSE "RESET"
           ping == IF ~f THEN m.last_now ELSE e.last_lease_ping
           anchor == IF f THEN e.heartbeat_anchor ELSE m.last_now
           pressed == IF m.boot_down THEN m.last_now ELSE e.press_since
           lease == ~f
           q == [e EXCEPT !.event_color = "OFF",
                          !.event_until = m.last_now,
                          !.boot_was_watchdog = FALSE,
                          !.lease_armed = lease]
           r == [q EXCEPT !.last_lease_ping = ping,
                          !.heartbeat_anchor = anchor,
                          !.press = press,
                          !.press_since = pressed]
<1>1. i \in States /\ i.last_now = 0 /\ i.boot_down = FALSE /\ i.phase = "STARTING"
  BY DEF InitState, States, Phases, Presses, EventColors
<1> HIDE DEF i
<1>2. m \in States /\ m.last_now = 0 /\ m.boot_down = FALSE /\ m.phase = "STARTING"
  BY <1>1 DEF Monotonic, Later, States
<1> HIDE DEF m
<1>3. e \in States /\ e.last_now = 0 /\ e.boot_down = FALSE
  BY <1>2 DEF EnterPhase, States, Phases
<1>4. /\ press \in Presses /\ ping \in Nat /\ anchor \in Nat /\ pressed \in Nat
      /\ lease \in BOOLEAN
  BY <1>2, <1>3 DEF States, Presses
<1>5. StackStarted(i, f, FALSE, 0) = r
  <2>1. StackStarted(i, f, FALSE, 0) = Begin(m, f, FALSE)
    BY <1>2 DEF StackStarted, FinalPhases, m
  <2>2. e.last_lease_ping = e.last_lease_ping
    OBVIOUS
  <2>3. Begin(m, f, FALSE) = r
    BY <1>3 DEF Begin, States
  <2> QED BY <2>1, <2>3
<1> HIDE DEF e, press, ping, anchor, pressed, lease
<1>6. q \in States /\ q.last_now = 0 /\ q.boot_down = FALSE
  BY <1>2, <1>3, <1>4 DEF States, EventColors
<1> HIDE DEF q
<1>7. r \in States /\ r.last_now = 0 /\ r.boot_down = FALSE
  BY <1>4, <1>6, <1>2 DEF States
<1> HIDE DEF r
<1> QED BY <1>5, <1>7 DEF i

LEMMA ButtonStart == Init => ButtonInv
<1> SUFFICES ASSUME Init PROVE ButtonInv
  OBVIOUS
<1>1. /\ clock = 0 /\ pushed = FALSE /\ ordered = FALSE /\ queue = <<>>
      /\ running = FALSE /\ now = 0
      /\ candidate = FALSE /\ candidateSince = 0 /\ physical = FALSE
      /\ virtual = FALSE /\ virtualSince = 0 /\ effective = FALSE
      /\ moves = 0 /\ lastDown = 0 /\ since = 0
      /\ state \in States /\ state.last_now = 0 /\ state.boot_down = FALSE
  BY InitStateFacts DEF Init
<1>2. queue \in Seq(Messages)
  BY <1>1
<1>3. {clock, now, candidateSince, virtualSince, moves, lastDown, since} \subseteq Nat
  BY <1>1
<1>4. TypeOK
  BY <1>1, <1>2, <1>3 DEF TypeOK
<1>5. ClockInv /\ DownInv /\ OrderInv
  BY <1>1, SpanFacts DEF ClockInv, DownInv, OrderInv
<1>7. PinInv /\ VirtualInv /\ EffectiveInv
  BY <1>1 DEF PinInv, VirtualInv, EffectiveInv
<1>6. HoldInv
  BY <1>1 DEF HoldInv, Joins, Resets
<1> QED BY <1>4, <1>5, <1>6, <1>7 DEF ButtonInv

LEMMA TypeFacts ==
    ASSUME TypeOK
    PROVE  /\ clock \in Nat /\ now \in Nat /\ candidateSince \in Nat /\ virtualSince \in Nat
           /\ moves \in Nat /\ lastDown \in Nat /\ since \in Nat
           /\ pushed \in BOOLEAN /\ ordered \in BOOLEAN /\ running \in BOOLEAN
           /\ candidate \in BOOLEAN /\ physical \in BOOLEAN /\ virtual \in BOOLEAN
           /\ effective \in BOOLEAN
           /\ state \in States /\ queue \in Seq(Messages)
           /\ state.last_now \in Nat /\ state.press_since \in Nat
           /\ Slack \in Nat /\ Slack <= Interval
           /\ \A i \in DOMAIN queue : queue[i] \in Messages /\ queue[i].at \in Nat
<1>1. state.last_now \in Nat /\ state.press_since \in Nat
  BY DEF TypeOK, States
<1>2. Slack \in Nat /\ Slack <= Interval
  BY SpanFacts DEF Slack
<1>3. queue \in Seq(Messages)
  BY DEF TypeOK
<1>4. \A i \in DOMAIN queue : queue[i] \in Messages
  BY <1>3
<1>5. \A m \in Messages : m.at \in Nat
  BY DEF Messages
<1> QED BY <1>1, <1>2, <1>3, <1>4, <1>5 DEF TypeOK

LEMMA Parts ==
    ASSUME ButtonInv
    PROVE  /\ TypeOK /\ ClockInv /\ DownInv /\ OrderInv /\ PinInv
           /\ VirtualInv /\ EffectiveInv /\ HoldInv
BY DEF ButtonInv

BetweenCycles ==
    UNCHANGED <<running, now, candidate, candidateSince, physical, virtual, virtualSince,
                effective, state>>

\* The pin and the virtual button only count what has been down.
LEMMA OutsideStep ==
    ASSUME ButtonInv, NEW down \in Nat, lastDown <= down, lastDown' = down, BetweenCycles
    PROVE  PinInv' /\ VirtualInv' /\ EffectiveInv'
<1>1. /\ now \in Nat /\ candidateSince \in Nat /\ lastDown \in Nat /\ Slack \in Nat
      /\ virtualSince \in Nat
  BY Parts, TypeFacts
<1>2. Slack' = Slack
  BY DEF Slack, BetweenCycles
<1>3. PinInv'
  <2>1. candidate => now <= down
    BY <1>1, Parts DEF PinInv
  <2>2. physical /\ ~candidate =>
            candidateSince <= down + Interval /\ now < candidateSince + DEBOUNCE
    BY <1>1, Parts, SpanFacts DEF PinInv
  <2> QED BY <2>1, <2>2 DEF PinInv, BetweenCycles
<1>4. VirtualInv'
  BY <1>2, Parts DEF VirtualInv, BetweenCycles
<1>5. EffectiveInv'
  <2>1. state'.boot_down = effective'
    BY Parts DEF EffectiveInv, BetweenCycles
  <2>2. effective => now < down + DEBOUNCE + Interval + Slack
    BY <1>1, Parts, SpanFacts DEF EffectiveInv
  <2> QED BY <2>1, <2>2, <1>2 DEF EffectiveInv, BetweenCycles
<1> QED BY <1>3, <1>4, <1>5

LEMMA TickStep == ButtonInv /\ Tick => ButtonInv'
<1> SUFFICES ASSUME ButtonInv, Tick PROVE ButtonInv'
  OBVIOUS
<1>1. /\ clock < now + (IF running THEN MaxLag ELSE PERIOD) /\ clock' = clock + 1
      /\ lastDown' = IF pushed \/ ordered THEN clock + 1 ELSE lastDown
      /\ UNCHANGED <<light, moves, pushed, ordered, queue, running, now, candidate,
                     candidateSince, physical, virtual, virtualSince, effective, state, since>>
  BY DEF Tick, outside, task, pin, console
<1>2. Slack' = Slack
  BY <1>1 DEF Slack
<1>3. lastDown' \in Nat /\ lastDown <= lastDown' /\ lastDown' <= clock'
  BY <1>1, Parts, TypeFacts DEF ClockInv
<1>4. TypeOK'
  <2>1. clock' \in Nat
    BY <1>1, Parts, TypeFacts
  <2> QED BY <2>1, <1>1, <1>3, Parts DEF TypeOK
<1>5. ClockInv'
  <2>1. /\ now' <= clock' /\ clock' <= now' + (IF running' THEN MaxLag ELSE Interval)
        /\ state'.last_now <= clock'
    <3>1. /\ clock \in Nat /\ now \in Nat /\ state.last_now \in Nat
          /\ now <= clock /\ state.last_now <= clock
      BY Parts, TypeFacts DEF ClockInv
    <3>2. CASE running
      BY <3>1, <3>2, <1>1, SpanFacts
    <3>3. CASE ~running
      BY <3>1, <3>3, <1>1, SpanFacts
    <3> QED BY <3>2, <3>3
  <2>2. \A i \in DOMAIN queue' : queue'[i].at <= clock' /\ now' <= queue'[i].at + Slack'
    BY <1>1, <1>2, Parts, TypeFacts DEF ClockInv
  <2> QED BY <2>1, <2>2, <1>3 DEF ClockInv
<1>6. DownInv'
  BY <1>1 DEF DownInv
<1>7. OrderInv' /\ HoldInv'
  BY <1>1, Parts DEF OrderInv, HoldInv, Joins, Resets
<1>8. PinInv' /\ VirtualInv' /\ EffectiveInv'
  BY <1>1, <1>3, OutsideStep DEF BetweenCycles
<1> QED BY <1>4, <1>5, <1>6, <1>7, <1>8 DEF ButtonInv

LEMMA FingerStep == ButtonInv /\ Finger => ButtonInv'
<1> SUFFICES ASSUME ButtonInv, Finger PROVE ButtonInv'
  OBVIOUS
<1>1. /\ moves' = moves + 1 /\ pushed' = ~pushed /\ lastDown' = clock
      /\ UNCHANGED <<light, clock, ordered, queue, running, now, candidate,
                     candidateSince, physical, virtual, virtualSince, effective, state, since>>
  BY DEF Finger, Move, task, pin, console
<1>2. Slack' = Slack
  BY <1>1 DEF Slack
<1>3. lastDown' \in Nat /\ lastDown <= lastDown' /\ lastDown' <= clock'
  BY <1>1, Parts, TypeFacts DEF ClockInv
<1>4. TypeOK'
  <2>1. moves' \in Nat /\ pushed' \in BOOLEAN
    BY <1>1, Parts, TypeFacts
  <2> QED BY <2>1, <1>1, <1>3, Parts DEF TypeOK
<1>5. ClockInv'
  BY <1>1, <1>2, <1>3, Parts DEF ClockInv
<1>6. DownInv'
  BY <1>1 DEF DownInv
<1>7. OrderInv' /\ HoldInv'
  BY <1>1, Parts DEF OrderInv, HoldInv, Joins, Resets
<1>8. PinInv' /\ VirtualInv' /\ EffectiveInv'
  BY <1>1, <1>3, OutsideStep DEF BetweenCycles
<1> QED BY <1>4, <1>5, <1>6, <1>7, <1>8 DEF ButtonInv

LEMMA SentFacts ==
    ASSUME ButtonInv, NEW kind \in {"PRESS", "RELEASE", "GATEWAY_EVENT"}, Send(kind)
    PROVE  /\ moves' = moves + 1 /\ moves' \in Nat
           /\ queue' \in Seq(Messages)
           /\ DOMAIN queue' = 1..(Len(queue) + 1) /\ DOMAIN queue = 1..Len(queue)
           /\ Len(queue) \in Nat
           /\ \A i \in DOMAIN queue : queue'[i] = queue[i]
           /\ queue'[Len(queue) + 1].kind = kind /\ queue'[Len(queue) + 1].at = clock
<1> DEFINE m == [kind |-> kind, at |-> clock]
<1>1. m \in Messages /\ m.kind = kind /\ m.at = clock
  BY Parts, TypeFacts DEF Messages
<1> HIDE DEF m
<1>2. queue' = Append(queue, m) /\ moves' = moves + 1
  BY DEF Send, Move, m
<1>3. queue \in Seq(Messages) /\ moves \in Nat
  BY Parts, TypeFacts
<1>4. /\ queue' \in Seq(Messages)
      /\ DOMAIN queue' = 1..(Len(queue) + 1) /\ DOMAIN queue = 1..Len(queue)
      /\ Len(queue) \in Nat
      /\ \A i \in DOMAIN queue : queue'[i] = queue[i]
      /\ queue'[Len(queue) + 1] = m
  BY <1>1, <1>2, <1>3
<1> QED BY <1>1, <1>2, <1>3, <1>4

LEMMA SentClock ==
    ASSUME ButtonInv, NEW kind \in {"PRESS", "RELEASE", "GATEWAY_EVENT"}, Send(kind),
           UNCHANGED <<clock, state, running, now>>, lastDown' = lastDown \/ lastDown' = clock
    PROVE  ClockInv'
<1>1. /\ clock \in Nat /\ now \in Nat /\ now <= clock /\ lastDown <= clock /\ Slack \in Nat
  BY Parts, TypeFacts DEF ClockInv
<1>2. Slack' = Slack
  BY DEF Slack
<1>3. \A i \in DOMAIN queue' : queue'[i].at <= clock /\ now <= queue'[i].at + Slack
  <2> SUFFICES ASSUME NEW i \in DOMAIN queue'
               PROVE  queue'[i].at <= clock /\ now <= queue'[i].at + Slack
    OBVIOUS
  <2>1. CASE i \in DOMAIN queue
    BY <2>1, SentFacts, Parts DEF ClockInv
  <2>2. CASE i = Len(queue) + 1
    BY <2>2, <1>1, SentFacts
  <2> QED BY <2>1, <2>2, SentFacts
<1> QED BY <1>1, <1>2, <1>3, Parts DEF ClockInv

LEMMA OrderStep == ButtonInv /\ Order => ButtonInv'
<1> SUFFICES ASSUME ButtonInv, NEW press \in BOOLEAN,
                    Send(IF press THEN "PRESS" ELSE "RELEASE"),
                    ordered' = press, lastDown' = clock,
                    UNCHANGED <<light, clock, pushed, task, pin, console, effective, state, since>>
             PROVE  ButtonInv'
  BY DEF Order
<1> DEFINE kind == IF press THEN "PRESS" ELSE "RELEASE"
           n == Len(queue) + 1
<1>1. UNCHANGED <<light, clock, pushed, running, now, candidate, candidateSince, physical,
                  virtual, virtualSince, effective, state, since>>
  BY DEF task, pin, console
<1>2. kind \in {"PRESS", "RELEASE", "GATEWAY_EVENT"} /\ (~press => kind = "RELEASE")
  OBVIOUS
<1>3. /\ moves' \in Nat /\ queue' \in Seq(Messages)
      /\ DOMAIN queue' = 1..n /\ DOMAIN queue = 1..Len(queue) /\ Len(queue) \in Nat
      /\ \A i \in DOMAIN queue : queue'[i] = queue[i]
      /\ queue'[n].kind = kind
  BY <1>2, SentFacts
<1>4. TypeOK'
  <2>1. clock \in Nat
    BY Parts, TypeFacts
  <2> QED BY <2>1, <1>1, <1>3, Parts DEF TypeOK
<1>5. ClockInv'
  BY <1>1, <1>2, SentClock
<1>6. DownInv'
  BY <1>1 DEF DownInv
<1> HIDE DEF n, kind
<1>7. OrderInv'
  <2>1. CASE press
    <3>1. ordered'
      BY <2>1
    <3> QED BY <3>1 DEF OrderInv
  <2>2. CASE ~press
    <3>1. n \in DOMAIN queue' /\ queue'[n].kind = "RELEASE"
      BY <2>2, <1>2, <1>3 DEF n
    <3>2. \A i \in DOMAIN queue' : queue'[i].kind = "PRESS" => i < n
      <4> SUFFICES ASSUME NEW i \in DOMAIN queue', queue'[i].kind = "PRESS"
                   PROVE  i < n
        OBVIOUS
      <4>1. i # n
        BY <3>1
      <4> QED BY <4>1, <1>3 DEF n
    <3> QED BY <3>1, <3>2 DEF OrderInv
  <2> QED BY <2>1, <2>2
<1>8. HoldInv'
  BY <1>1, Parts DEF HoldInv, Joins, Resets
<1>9. PinInv' /\ VirtualInv' /\ EffectiveInv'
  <2>1. clock \in Nat /\ lastDown <= clock
    BY Parts, TypeFacts DEF ClockInv
  <2> QED BY <2>1, <1>1, OutsideStep DEF BetweenCycles
<1> QED BY <1>4, <1>5, <1>6, <1>7, <1>8, <1>9 DEF ButtonInv

LEMMA ReportStep == ButtonInv /\ Report => ButtonInv'
<1> SUFFICES ASSUME ButtonInv, Report PROVE ButtonInv'
  OBVIOUS
<1> DEFINE n == Len(queue) + 1
<1>1. /\ Send("GATEWAY_EVENT")
      /\ UNCHANGED <<light, clock, pushed, ordered, running, now, candidate, candidateSince,
                     physical, virtual, virtualSince, effective, state, lastDown, since>>
  BY DEF Report, outside, task, pin, console
<1>2. /\ moves' \in Nat /\ queue' \in Seq(Messages)
      /\ DOMAIN queue' = 1..n /\ DOMAIN queue = 1..Len(queue) /\ Len(queue) \in Nat
      /\ \A i \in DOMAIN queue : queue'[i] = queue[i]
      /\ queue'[n].kind = "GATEWAY_EVENT"
  BY <1>1, SentFacts
<1>3. TypeOK'
  BY <1>1, <1>2, Parts DEF TypeOK
<1>4. ClockInv'
  BY <1>1, SentClock
<1>5. DownInv'
  BY <1>1, Parts DEF DownInv
<1>6. OrderInv'
  <2>1. \A i \in DOMAIN queue : i \in DOMAIN queue'
    BY <1>2
  <2>2. \A i \in DOMAIN queue' : queue'[i].kind = "PRESS" => i \in DOMAIN queue
    <3> SUFFICES ASSUME NEW i \in DOMAIN queue', queue'[i].kind = "PRESS"
                 PROVE  i \in DOMAIN queue
      OBVIOUS
    <3>1. i # n
      BY <1>2
    <3> QED BY <3>1, <1>2
  <2> HIDE DEF n
  <2>3. virtual => ordered \/ \E j \in DOMAIN queue' : queue'[j].kind = "RELEASE"
    BY <1>2, <2>1, Parts DEF OrderInv
  <2>4. \A i \in DOMAIN queue' : queue'[i].kind = "PRESS" =>
            ordered \/ \E j \in DOMAIN queue' : i < j /\ queue'[j].kind = "RELEASE"
    BY <1>2, <2>1, <2>2, Parts DEF OrderInv
  <2> QED BY <2>3, <2>4, <1>1 DEF OrderInv
<1>7. HoldInv'
  BY <1>1, Parts DEF HoldInv, Joins, Resets
<1>8. PinInv' /\ VirtualInv' /\ EffectiveInv'
  <2>1. lastDown \in Nat /\ lastDown <= lastDown
    BY Parts, TypeFacts
  <2> QED BY <2>1, <1>1, OutsideStep DEF BetweenCycles
<1> QED BY <1>3, <1>4, <1>5, <1>6, <1>7, <1>8 DEF ButtonInv

LEMMA BeginStep == ButtonInv /\ BeginCycle => ButtonInv'
<1> SUFFICES ASSUME ButtonInv, BeginCycle PROVE ButtonInv'
  OBVIOUS
<1>1. /\ running = FALSE /\ running' = TRUE /\ now' = clock /\ candidate' = pushed
      /\ pushed # candidate => candidateSince' = clock /\ physical' = physical
      /\ pushed = candidate =>
            /\ candidateSince' = candidateSince
            /\ physical' = IF clock - candidateSince >= DEBOUNCE THEN pushed ELSE physical
      /\ UNCHANGED <<light, moves, clock, pushed, ordered, queue, virtual, virtualSince,
                     effective, state, lastDown, since>>
  <2>1. running = FALSE
    BY Parts, TypeFacts DEF BeginCycle
  <2> QED BY <2>1 DEF BeginCycle, outside, console
<1>2. /\ clock \in Nat /\ now \in Nat /\ candidateSince \in Nat /\ lastDown \in Nat
      /\ virtualSince \in Nat /\ pushed \in BOOLEAN /\ candidate \in BOOLEAN
      /\ physical \in BOOLEAN /\ queue \in Seq(Messages)
      /\ now <= clock /\ clock <= now + Interval /\ lastDown <= clock
  BY <1>1, Parts, TypeFacts DEF ClockInv
<1>3. Slack = 0 /\ Slack' = Interval
  BY <1>1 DEF Slack
<1>4. TypeOK'
  BY <1>1, <1>2, Parts DEF TypeOK
<1>5. ClockInv'
  <2>1. \A i \in DOMAIN queue : queue[i].at <= clock /\ clock <= queue[i].at + Interval
    BY <1>2, <1>3, Parts, TypeFacts, SpanFacts DEF ClockInv
  <2>2. clock <= clock + MaxLag
    BY <1>2, SpanFacts
  <2>3. state.last_now <= clock
    BY Parts DEF ClockInv
  <2> QED BY <2>1, <2>2, <2>3, <1>1, <1>2, <1>3 DEF ClockInv
<1>6. DownInv' /\ OrderInv' /\ HoldInv'
  BY <1>1, Parts DEF DownInv, OrderInv, HoldInv, Joins, Resets
<1>7. PinInv'
  <2>1. pushed => clock <= lastDown
    BY <1>2, Parts DEF DownInv
  <2>2. CASE pushed
    BY <2>1, <2>2, <1>1 DEF PinInv
  <2>3. CASE ~pushed /\ candidate
    <3>1. now <= lastDown
      BY <2>3, Parts DEF PinInv
    <3>2. clock <= lastDown + Interval /\ clock < clock + DEBOUNCE
      BY <3>1, <1>2, SpanFacts
    <3>3. candidateSince' = clock /\ candidate' = FALSE /\ now' = clock /\ lastDown' = lastDown
      BY <2>3, <1>1, <1>2
    <3> QED BY <3>2, <3>3 DEF PinInv
  <2>4. CASE ~pushed /\ ~candidate
    <3>1. /\ candidateSince' = candidateSince /\ candidate' = FALSE /\ now' = clock
          /\ lastDown' = lastDown
          /\ physical' => physical /\ ~(clock - candidateSince >= DEBOUNCE)
      BY <2>4, <1>1, <1>2
    <3>2. physical => candidateSince <= lastDown + Interval
      BY <2>4, Parts DEF PinInv
    <3>3. ~(clock - candidateSince >= DEBOUNCE) => clock < candidateSince + DEBOUNCE
      BY <1>2, SpanFacts
    <3> QED BY <3>1, <3>2, <3>3 DEF PinInv
  <2> QED BY <2>2, <2>3, <2>4
<1>8. VirtualInv'
  <2>1. virtual => clock < virtualSince + HOLD_LIMIT + Interval
    BY <1>2, <1>3, Parts, SpanFacts DEF VirtualInv
  <2> QED BY <2>1, <1>1, <1>3 DEF VirtualInv
<1>9. EffectiveInv'
  <2>1. effective => clock < lastDown + DEBOUNCE + Interval + Interval
    BY <1>2, <1>3, Parts, SpanFacts DEF EffectiveInv
  <2>2. state'.boot_down = effective'
    BY <1>1, Parts DEF EffectiveInv
  <2> QED BY <2>1, <2>2, <1>1, <1>3 DEF EffectiveInv
<1> QED BY <1>4, <1>5, <1>6, <1>7, <1>8, <1>9 DEF ButtonInv

\* The queue without its head.
LEMMA TailFacts ==
    ASSUME TypeOK, queue # <<>>, queue' = Tail(queue)
    PROVE  /\ queue' \in Seq(Messages)
           /\ 1 \in DOMAIN queue /\ Head(queue) = queue[1]
           /\ \A i \in DOMAIN queue' :
                 i \in Nat /\ i + 1 \in DOMAIN queue /\ queue'[i] = queue[i + 1]
           /\ \A j \in DOMAIN queue :
                 1 < j => j - 1 \in DOMAIN queue' /\ queue'[j - 1] = queue[j]
           /\ \A j \in DOMAIN queue : j # 1 => 1 < j
<1> DEFINE q == Tail(queue)
<1>1. queue \in Seq(Messages) /\ queue # <<>>
  BY DEF TypeOK
<1>2. /\ Len(queue) \in Nat /\ Len(queue) > 0 /\ DOMAIN queue = 1..Len(queue)
      /\ Head(queue) = queue[1]
      /\ q \in Seq(Messages) /\ DOMAIN q = 1..(Len(queue) - 1)
      /\ \A i \in 1..(Len(queue) - 1) : q[i] = queue[i + 1]
  BY <1>1
<1> HIDE DEF q
<1>3. \A j \in 1..Len(queue) : 1 < j => j - 1 \in 1..(Len(queue) - 1) /\ q[j - 1] = queue[j]
  <2> SUFFICES ASSUME NEW j \in 1..Len(queue), 1 < j
               PROVE  j - 1 \in 1..(Len(queue) - 1) /\ q[j - 1] = queue[j]
    OBVIOUS
  <2>1. j - 1 \in 1..(Len(queue) - 1) /\ (j - 1) + 1 = j
    BY <1>2
  <2>2. q[j - 1] = queue[(j - 1) + 1]
    BY <2>1, <1>2
  <2> QED BY <2>1, <2>2
<1>4. queue' = q
  BY DEF q
<1>5. \A i \in DOMAIN q : i \in Nat /\ i + 1 \in DOMAIN queue /\ q[i] = queue[i + 1]
  BY <1>2
<1>6. 1 \in DOMAIN queue /\ \A j \in DOMAIN queue : j # 1 => 1 < j
  BY <1>2
<1> QED BY <1>2, <1>3, <1>4, <1>5, <1>6

\* The message that is handled, whatever it is.
Handled ==
    /\ running = TRUE /\ running' = TRUE /\ queue # <<>> /\ queue' = Tail(queue)
    /\ UNCHANGED <<light, moves, clock, pushed, ordered, now, candidate, candidateSince,
                   physical, effective, lastDown, since>>

LEMMA HandledStep ==
    ASSUME ButtonInv, Handled,
           state' \in States, state'.last_now <= clock, state'.boot_down = state.boot_down,
           virtual' \in BOOLEAN, virtualSince' \in Nat
    PROVE  /\ TypeOK' /\ ClockInv' /\ DownInv' /\ PinInv' /\ EffectiveInv'
           /\ Slack = Interval /\ Slack' = Interval
<1>1. TypeOK'
  BY Parts, TypeFacts, TailFacts DEF TypeOK, Handled
<1>2. Slack = Interval /\ Slack' = Interval
  BY DEF Slack, Handled
<1>3. ClockInv'
  <2>1. \A i \in DOMAIN queue' : queue'[i].at <= clock /\ now <= queue'[i].at + Interval
    BY <1>2, Parts, TailFacts DEF ClockInv, Handled
  <2>2. /\ now <= clock /\ clock <= now + MaxLag /\ lastDown <= clock
    BY Parts DEF ClockInv, Handled
  <2> QED BY <1>2, <2>1, <2>2 DEF ClockInv, Handled
<1>4. DownInv' /\ PinInv'
  BY Parts DEF DownInv, PinInv, Handled
<1>5. EffectiveInv'
  BY <1>2, Parts DEF EffectiveInv, Handled
<1> QED BY <1>1, <1>2, <1>3, <1>4, <1>5

\* The releases behind the head of the queue stay behind.
LEMMA TailOrder ==
    ASSUME ButtonInv, Handled,
           virtual' => \/ virtual /\ Head(queue).kind # "RELEASE"
                       \/ Head(queue).kind = "PRESS"
    PROVE  OrderInv'
<1>1. \A j \in DOMAIN queue : 1 < j /\ queue[j].kind = "RELEASE" =>
          j - 1 \in DOMAIN queue' /\ queue'[j - 1].kind = "RELEASE"
  BY Parts, TailFacts DEF Handled
<1>2. virtual' => ordered \/ \E j \in DOMAIN queue : 1 < j /\ queue[j].kind = "RELEASE"
  <2>1. CASE Head(queue).kind = "PRESS"
    BY <2>1, Parts, TailFacts DEF Handled, OrderInv
  <2>2. CASE virtual /\ Head(queue).kind # "RELEASE"
    <3>1. ordered \/ \E j \in DOMAIN queue : queue[j].kind = "RELEASE"
      BY <2>2, Parts DEF OrderInv
    <3>2. queue[1].kind # "RELEASE"
      BY <2>2, Parts, TailFacts DEF Handled
    <3> QED BY <3>1, <3>2, Parts, TailFacts DEF Handled
  <2> QED BY <2>1, <2>2
<1>3. virtual' => ordered' \/ \E j \in DOMAIN queue' : queue'[j].kind = "RELEASE"
  BY <1>1, <1>2 DEF Handled
<1>4. ASSUME NEW i \in DOMAIN queue', queue'[i].kind = "PRESS", ~ordered
      PROVE  \E j \in DOMAIN queue' : i < j /\ queue'[j].kind = "RELEASE"
  <2>1. i \in Nat /\ i + 1 \in DOMAIN queue /\ queue[i + 1].kind = "PRESS"
    BY <1>4, Parts, TailFacts DEF Handled
  <2>2. PICK j \in DOMAIN queue : i + 1 < j /\ queue[j].kind = "RELEASE"
    BY <1>4, <2>1, Parts DEF OrderInv
  <2>3. j \in Nat
    BY Parts, TypeFacts
  <2>4. i < j - 1 /\ 1 < j
    BY <2>1, <2>2, <2>3
  <2> QED BY <1>1, <2>2, <2>4
<1> QED BY <1>3, <1>4 DEF OrderInv, Handled

LEMMA HandledFacts ==
    ASSUME ButtonInv, HandleMessage
    PROVE  /\ Handled
           /\ \/ /\ state' = GatewayEvent(state, FALSE, Head(queue).at)
                 /\ Head(queue).kind = "GATEWAY_EVENT"
                 /\ virtual' = virtual /\ virtualSince' = virtualSince
              \/ /\ state' = state
                 /\ virtual' = (Head(queue).kind = "PRESS")
                 /\ virtualSince' = IF Head(queue).kind = "PRESS" THEN Head(queue).at
                                    ELSE virtualSince
           /\ Head(queue).at \in Nat /\ Head(queue).at <= clock
           /\ now <= Head(queue).at + Interval
           /\ Aged(state, state') /\ state'.last_now <= clock
<1>1. running = TRUE
  BY Parts, TypeFacts DEF HandleMessage
<1>2. Handled
  BY <1>1 DEF HandleMessage, Handled, outside, task, pin
<1>3. \/ /\ state' = GatewayEvent(state, FALSE, Head(queue).at)
         /\ Head(queue).kind = "GATEWAY_EVENT"
         /\ virtual' = virtual /\ virtualSince' = virtualSince
      \/ /\ state' = state
         /\ virtual' = (Head(queue).kind = "PRESS")
         /\ virtualSince' = IF Head(queue).kind = "PRESS" THEN Head(queue).at
                            ELSE virtualSince
  BY DEF HandleMessage, VirtualBoot, console
<1>4. Slack = Interval
  BY <1>1 DEF Slack
<1>5. /\ Head(queue).at \in Nat /\ Head(queue).at <= clock
      /\ now <= Head(queue).at + Interval
  BY <1>2, <1>4, Parts, TypeFacts, TailFacts DEF Handled, ClockInv
<1>6. state \in States /\ state.last_now \in Nat /\ state.last_now <= clock
  BY Parts, TypeFacts DEF ClockInv
<1>7. Aged(state, state') /\ state'.last_now <= clock
  <2>1. CASE state' = state
    BY <2>1, <1>6, NotAged
  <2>2. CASE state' = GatewayEvent(state, FALSE, Head(queue).at)
    <3>1. Aged(state, state') /\ state'.last_now = Later(state.last_now, Head(queue).at)
      BY <2>2, <1>5, <1>6, GatewayEventAges
    <3> QED BY <3>1, <1>5, <1>6 DEF Later
  <2> QED BY <2>1, <2>2, <1>3
<1> QED BY <1>2, <1>3, <1>5, <1>7

LEMMA HandleStep == ButtonInv /\ HandleMessage => ButtonInv'
<1> SUFFICES ASSUME ButtonInv, HandleMessage PROVE ButtonInv'
  OBVIOUS
<1> DEFINE m == Head(queue)
<1>1. /\ Handled
      /\ m.at \in Nat /\ m.at <= clock /\ now <= m.at + Interval
      /\ Aged(state, state') /\ state'.last_now <= clock
  BY HandledFacts
<1>2. \/ /\ m.kind = "GATEWAY_EVENT"
         /\ virtual' = virtual /\ virtualSince' = virtualSince
      \/ /\ virtual' = (m.kind = "PRESS")
         /\ virtualSince' = IF m.kind = "PRESS" THEN m.at ELSE virtualSince
  BY HandledFacts
<1> HIDE DEF m
<1>3. virtual' \in BOOLEAN /\ virtualSince' \in Nat
  <2>1. virtual \in BOOLEAN /\ virtualSince \in Nat
    BY Parts, TypeFacts
  <2> QED BY <2>1, <1>1, <1>2
<1>4. /\ TypeOK' /\ ClockInv' /\ DownInv' /\ PinInv' /\ EffectiveInv'
      /\ Slack = Interval /\ Slack' = Interval
  <2>1. state' \in States /\ state'.boot_down = state.boot_down
    BY <1>1 DEF Aged
  <2> QED BY <2>1, <1>1, <1>3, HandledStep
<1>5. OrderInv'
  <2>1. virtual' => (virtual /\ m.kind # "RELEASE") \/ m.kind = "PRESS"
    BY <1>2
  <2> QED BY <2>1, <1>1, TailOrder DEF m
<1>6. VirtualInv'
  <2>1. virtual => now < virtualSince + HOLD_LIMIT + Interval
    BY <1>4, Parts DEF VirtualInv
  <2>2. now < m.at + HOLD_LIMIT + Interval
    <3>1. now \in Nat
      BY Parts, TypeFacts
    <3> QED BY <3>1, <1>1, SpanFacts
  <2>3. virtual' => now < virtualSince' + HOLD_LIMIT + Interval
    BY <2>1, <2>2, <1>2
  <2> QED BY <2>3, <1>1, <1>4 DEF VirtualInv, Handled
<1>7. HoldInv'
  <2>1. /\ Joins(state') => Joins(state)
        /\ Resets(state') => Resets(state)
        /\ state'.press_since = state.press_since
    BY <1>1 DEF Aged, Joins, Resets, Offers
  <2>2. light' = light /\ since' = since
    BY <1>1 DEF Handled
  <2> QED BY <2>1, <2>2, Parts DEF HoldInv, Joins, Resets
<1> QED BY <1>4, <1>5, <1>6, <1>7 DEF ButtonInv

\* What a cycle's end does, and what it may rest on.
LEMMA EndFacts ==
    ASSUME ButtonInv, EndCycle
    PROVE  /\ running = TRUE /\ running' = FALSE /\ queue = <<>>
           /\ virtual' => virtual /\ virtualSince <= now /\ now < virtualSince + HOLD_LIMIT
           /\ virtual' \in BOOLEAN
           /\ virtual /\ ~virtual' =>
                 now - virtualSince >= HOLD_LIMIT \/ virtualSince > now
           /\ virtualSince' = virtualSince
           /\ effective' = (physical \/ virtual')
           /\ state' = Cycle(state, effective', now)
           /\ light' = LightAt(state', now).effect
           /\ since' = IF effective' /\ ~effective THEN now ELSE since
           /\ UNCHANGED <<moves, clock, pushed, ordered, queue, now, candidate,
                          candidateSince, physical, lastDown>>
<1>1. /\ running = TRUE /\ running' = FALSE /\ queue = <<>>
      /\ virtual' = (virtual /\ ~Elapsed(virtualSince, HOLD_LIMIT))
      /\ virtualSince' = virtualSince
      /\ effective' = (physical \/ virtual')
      /\ light' = LightAt(state', now).effect
      /\ since' = IF effective' /\ ~effective THEN now ELSE since
      /\ UNCHANGED <<moves, clock, pushed, ordered, queue, now, candidate,
                     candidateSince, physical, lastDown>>
  <2>1. running = TRUE
    BY Parts, TypeFacts DEF EndCycle
  <2> QED BY <2>1 DEF EndCycle, AutoRelease, outside, pin
<1>2. state' = Cycle(state, effective', now)
  <2>1. state.boot_down = effective
    BY Parts DEF EffectiveInv
  <2>2. state' = LET s == IF effective' = effective THEN state
                          ELSE BootInput(state, effective', now)
                 IN  TakeActions(Advance(s, now))
    BY DEF EndCycle
  <2> QED BY <2>1, <2>2 DEF Cycle
<1>3. now \in Nat /\ virtualSince \in Nat /\ virtual \in BOOLEAN
  BY Parts, TypeFacts
<1>4. \/ Elapsed(virtualSince, HOLD_LIMIT)
      \/ virtualSince <= now /\ now < virtualSince + HOLD_LIMIT
  BY <1>3, SpanFacts DEF Elapsed
<1>5. virtual /\ ~virtual' => Elapsed(virtualSince, HOLD_LIMIT)
  BY <1>1
<1>6. virtual' => virtual /\ virtualSince <= now /\ now < virtualSince + HOLD_LIMIT
  BY <1>1, <1>4
<1>7. virtual' \in BOOLEAN
  BY <1>1, <1>3
<1>8. virtual /\ ~virtual' => now - virtualSince >= HOLD_LIMIT \/ virtualSince > now
  BY <1>5 DEF Elapsed
<1> HIDE DEF Elapsed
<1> QED BY <1>1, <1>2, <1>6, <1>7, <1>8

LEMMA EndStep == ButtonInv /\ EndCycle => ButtonInv'
<1> SUFFICES ASSUME ButtonInv, EndCycle PROVE ButtonInv'
  OBVIOUS
<1>1. /\ running = TRUE /\ running' = FALSE /\ queue = <<>>
      /\ virtual' => virtual /\ virtualSince <= now /\ now < virtualSince + HOLD_LIMIT
      /\ virtual' \in BOOLEAN /\ virtualSince' = virtualSince
      /\ effective' = (physical \/ virtual')
      /\ state' = Cycle(state, effective', now)
      /\ light' = LightAt(state', now).effect
      /\ since' = IF effective' /\ ~effective THEN now ELSE since
      /\ UNCHANGED <<moves, clock, pushed, ordered, queue, now, candidate,
                     candidateSince, physical, lastDown>>
  BY EndFacts
<1>2. /\ clock \in Nat /\ now \in Nat /\ candidateSince \in Nat /\ lastDown \in Nat
      /\ virtualSince \in Nat /\ since \in Nat /\ physical \in BOOLEAN
      /\ state \in States /\ state.last_now \in Nat /\ state.last_now <= clock
      /\ now <= clock /\ clock <= now + MaxLag /\ lastDown <= clock
      /\ state.boot_down = effective /\ effective \in BOOLEAN
  BY <1>1, Parts, TypeFacts DEF ClockInv, EffectiveInv
<1>3. effective' \in BOOLEAN
  BY <1>1, <1>2
<1>4. /\ state' \in States /\ state'.last_now = Later(state.last_now, now)
      /\ state'.boot_down = effective'
      /\ effective' = effective => Aged(state, state')
      /\ effective' /\ ~effective => \/ ~Offers(state'.phase)
                                     \/ state'.press = "IGNORED"
                                     \/ state'.press_since = Later(state.last_now, now)
  <2> DEFINE down == effective'
  <2>1. down \in BOOLEAN /\ state' = Cycle(state, down, now)
    BY <1>1, <1>3
  <2> HIDE DEF down
  <2>2. /\ state' \in States /\ state'.last_now = Later(state.last_now, now)
        /\ state'.boot_down = down
        /\ down = state.boot_down => Aged(state, state')
        /\ down /\ ~state.boot_down => \/ ~Offers(state'.phase)
                                       \/ state'.press = "IGNORED"
                                       \/ state'.press_since = Later(state.last_now, now)
    BY <2>1, <1>2, CycleFacts
  <2> QED BY <2>2, <1>2 DEF down
<1>5. Slack = Interval /\ Slack' = 0
  BY <1>1 DEF Slack
<1>6. TypeOK'
  <2>1. since' \in Nat
    BY <1>1, <1>2
  <2> QED BY <2>1, <1>1, <1>3, <1>4, Parts DEF TypeOK
<1>7. ClockInv'
  <2>1. state'.last_now <= clock
    BY <1>2, <1>4 DEF Later
  <2>2. clock <= now + Interval
    BY <1>2, SpanFacts
  <2>3. DOMAIN queue' = {}
    BY <1>1
  <2> QED BY <2>1, <2>2, <2>3, <1>1, <1>2 DEF ClockInv
<1>8. DownInv' /\ PinInv'
  BY <1>1, Parts DEF DownInv, PinInv
<1>9. virtual => ordered
  BY <1>1, Parts DEF OrderInv
<1>10. OrderInv'
  <2>1. DOMAIN queue' = {}
    BY <1>1
  <2> QED BY <2>1, <1>1, <1>9 DEF OrderInv
<1>11. VirtualInv'
  <2>1. virtual' => now < virtualSince + HOLD_LIMIT + 0
    BY <1>1, <1>2, SpanFacts
  <2> QED BY <2>1, <1>1, <1>5 DEF VirtualInv
<1>12. EffectiveInv'
  <2>1. physical => now < lastDown + DEBOUNCE + Interval + 0
    <3>1. CASE candidate
      BY <3>1, <1>2, Parts, SpanFacts DEF PinInv
    <3>2. CASE ~candidate
      BY <3>2, <1>2, Parts, SpanFacts DEF PinInv
    <3> QED BY <3>1, <3>2
  <2>2. virtual' => now < lastDown + DEBOUNCE + Interval + 0
    <3>1. virtual' => lastDown = clock
      BY <1>1, <1>9, Parts DEF DownInv
    <3> QED BY <3>1, <1>2, SpanFacts
  <2> QED BY <2>1, <2>2, <1>1, <1>4, <1>5 DEF EffectiveInv
<1>13. HoldInv'
  <2>1. /\ Joins(state') => light' = "JOIN_HOLD"
        /\ Resets(state') => light' = "RESET_HOLD"
    BY <1>1, <1>2, <1>4, HoldLight
  <2>2. Joins(state') \/ Resets(state') => since' <= state'.press_since
    <3> SUFFICES ASSUME Joins(state') \/ Resets(state')
                 PROVE  since' <= state'.press_since
      OBVIOUS
    <3>1. effective' /\ Offers(state'.phase) /\ state'.press # "IGNORED"
      BY <1>4 DEF Joins, Resets, Offers
    <3>2. CASE effective
      <4>1. effective' = effective
        BY <3>1, <3>2, <1>2, <1>3
      <4>2. Aged(state, state') /\ since' = since
        BY <4>1, <3>2, <1>1, <1>4
      <4>3. Joins(state) \/ Resets(state)
        BY <4>2, <3>1 DEF Aged, Joins, Resets, Offers
      <4>4. since <= state.press_since
        BY <4>3, Parts DEF HoldInv
      <4> QED BY <4>2, <4>4 DEF Aged
    <3>3. CASE ~effective
      <4>1. since' = now /\ state'.press_since = Later(state.last_now, now)
        BY <3>1, <3>3, <1>1, <1>4
      <4>2. now <= Later(state.last_now, now)
        BY <1>2, LaterFacts
      <4> QED BY <4>1, <4>2
    <3> QED BY <3>2, <3>3
  <2> QED BY <2>1, <2>2 DEF HoldInv
<1> QED BY <1>6, <1>7, <1>8, <1>10, <1>11, <1>12, <1>13 DEF ButtonInv

LEMMA StutterStep == ButtonInv /\ UNCHANGED vars => ButtonInv'
<1> SUFFICES ASSUME ButtonInv, UNCHANGED vars PROVE ButtonInv'
  OBVIOUS
<1>1. UNCHANGED <<clock, pushed, ordered, queue, running, now, candidate, candidateSince,
                  physical, virtual, virtualSince, effective, state, light, moves,
                  lastDown, since>>
  BY DEF vars, outside, task, pin, console
<1>2. Slack' = Slack
  BY <1>1 DEF Slack
<1>3. TypeOK' /\ ClockInv' /\ DownInv' /\ OrderInv'
  BY <1>1, <1>2, Parts DEF TypeOK, ClockInv, DownInv, OrderInv
<1>4. PinInv' /\ VirtualInv' /\ EffectiveInv' /\ HoldInv'
  BY <1>1, <1>2, Parts DEF PinInv, VirtualInv, EffectiveInv, HoldInv, Joins, Resets
<1> QED BY <1>3, <1>4 DEF ButtonInv

LEMMA ButtonStep == ButtonInv /\ [Next]_vars => ButtonInv'
BY TickStep, FingerStep, OrderStep, ReportStep, BeginStep, HandleStep, EndStep, StutterStep
   DEF Next

\* The record, the clocks, the queue and the light agree at all times (the UI task of
\* cr11_ui_runtime.c).
THEOREM ButtonTheorem == Spec => []ButtonInv
<1>1. Init => ButtonInv
  BY ButtonStart
<1>2. ButtonInv /\ [Next]_vars => ButtonInv'
  BY ButtonStep
<1> QED BY <1>1, <1>2, PTL DEF Spec

-----------------------------------------------------------------------------
(* What the firmware does with a hold.                                      *)

\* A hold is taken by a message or by the cycle's end, never by another step.
LEMMA AcceptedHeld ==
    ASSUME ButtonInv, [Next]_vars, Accepted
    PROVE  /\ running = TRUE
           /\ \/ state'.phase = "JOINING" /\ JoinHeld(state, state')
              \/ state'.phase = "LEAVING" /\ ResetHeld(state, state')
           /\ state'.last_now <= clock
<1>1. state' # state
  BY DEF Accepted, AcceptsReset
<1>2. HandleMessage \/ EndCycle
  BY <1>1 DEF Next, vars, Tick, Finger, Order, Report, BeginCycle
<1>3. CASE HandleMessage
  <2>1. running = TRUE /\ Aged(state, state') /\ state'.last_now <= clock
    BY <1>3, HandledFacts DEF Handled
  <2> QED BY <2>1 DEF Accepted, Aged, AcceptsReset
<1>4. CASE EndCycle
  <2>1. running = TRUE /\ state' = Cycle(state, effective', now)
    BY <1>4, EndFacts
  <2>2. effective' \in BOOLEAN /\ state'.last_now <= clock
    BY <1>4, EndStep, Parts DEF ButtonInv, TypeOK, ClockInv, EndCycle
  <2>3. state \in States /\ now \in Nat
    BY Parts, TypeFacts
  <2>4. /\ state'.phase = "JOINING" /\ state.phase = "UNPROVISIONED" => JoinHeld(state, state')
        /\ state'.phase = "LEAVING" /\ AcceptsReset(state.phase) => ResetHeld(state, state')
    BY <2>1, <2>2, <2>3, CycleFacts
  <2> QED BY <2>1, <2>2, <2>4 DEF Accepted
<1> QED BY <1>2, <1>3, <1>4

LEMMA ReleaseStep ==
    ASSUME ButtonInv, [Next]_vars
    PROVE  Accepted => clock - lastDown < DEBOUNCE + 2 * Interval + MaxLag
<1> SUFFICES ASSUME Accepted
             PROVE  clock - lastDown < DEBOUNCE + 2 * Interval + MaxLag
  OBVIOUS
<1>1. /\ running = TRUE /\ state.boot_down
  BY AcceptedHeld DEF JoinHeld, ResetHeld
<1>2. now < lastDown + DEBOUNCE + Interval + Interval
  BY <1>1, Parts DEF EffectiveInv, Slack
<1>3. clock <= now + MaxLag
  BY <1>1, Parts DEF ClockInv
<1>4. clock \in Nat /\ now \in Nat /\ lastDown \in Nat
  BY Parts, TypeFacts
<1> QED BY <1>2, <1>3, <1>4, SpanFacts

\* The firmware never acts on a button that nobody holds any more, but for the debounce and
\* the cycles that are under way (update_physical_button, update_effective_button).
THEOREM ReleaseTheorem == Spec => ReleaseStopsHold
<1>1. ButtonInv /\ [Next]_vars =>
          (Accepted => clock - lastDown < DEBOUNCE + 2 * Interval + MaxLag)
  BY ReleaseStep
<1> QED BY <1>1, ButtonTheorem, PTL DEF Spec, ReleaseStopsHold

LEMMA HeldStep ==
    ASSUME ButtonInv, [Next]_vars
    PROVE  Accepted => /\ effective
                       /\ clock - since >= IF state'.phase = "JOINING" THEN JOIN_HOLD
                                                                       ELSE RESET_HOLD
                       /\ light = HoldEffect(state'.phase)
<1> SUFFICES ASSUME Accepted
             PROVE  /\ effective
                    /\ clock - since >= IF state'.phase = "JOINING" THEN JOIN_HOLD
                                                                    ELSE RESET_HOLD
                    /\ light = HoldEffect(state'.phase)
  OBVIOUS
<1> DEFINE last == state'.last_now
<1>1. /\ clock \in Nat /\ since \in Nat /\ state.press_since \in Nat /\ last <= clock
      /\ last \in Nat
  <2>1. state' \in States
    BY ButtonStep, Parts DEF ButtonInv, TypeOK
  <2> QED BY <2>1, AcceptedHeld, Parts, TypeFacts DEF States
<1>2. state.boot_down = effective
  BY Parts DEF EffectiveInv
<1>3. CASE state'.phase = "JOINING" /\ JoinHeld(state, state')
  <2>1. Joins(state) /\ state.press_since + JOIN_HOLD <= last
    BY <1>3 DEF JoinHeld, Joins
  <2>2. since <= state.press_since /\ light = "JOIN_HOLD"
    BY <2>1, Parts DEF HoldInv
  <2> HIDE DEF last
  <2>3. clock - since >= JOIN_HOLD
    BY <1>1, <2>1, <2>2, SpanFacts
  <2> QED BY <2>1, <2>2, <2>3, <1>2, <1>3 DEF Joins, HoldEffect
<1>4. CASE state'.phase = "LEAVING" /\ ResetHeld(state, state')
  <2>1. Resets(state) /\ state.press_since + RESET_HOLD <= last
    BY <1>4 DEF ResetHeld, Resets
  <2>2. since <= state.press_since /\ light = "RESET_HOLD"
    BY <2>1, Parts DEF HoldInv
  <2> HIDE DEF last
  <2>3. clock - since >= RESET_HOLD
    BY <1>1, <2>1, <2>2, SpanFacts
  <2> QED BY <2>1, <2>2, <2>3, <1>2, <1>4 DEF Resets, HoldEffect
<1> QED BY <1>3, <1>4, AcceptedHeld

\* A hold takes effect only after the button has been down for the whole of it, and the
\* light told of it (cr11_ui_state_advance, cr11_ui_state_led, apply_led).
THEOREM HeldTheorem == Spec => HeldAndAnnounced
<1>1. ButtonInv /\ [Next]_vars =>
          (Accepted => /\ effective
                       /\ clock - since >= IF state'.phase = "JOINING" THEN JOIN_HOLD
                                                                       ELSE RESET_HOLD
                       /\ light = HoldEffect(state'.phase))
  BY HeldStep
<1> QED BY <1>1, ButtonTheorem, PTL DEF Spec, HeldAndAnnounced

LEMMA VirtualStep ==
    ASSUME ButtonInv, [Next]_vars, virtual
    PROVE  IF virtual' THEN clock' - virtualSince' < HOLD_LIMIT + Interval + MaxLag
           ELSE EndCycle => clock - virtualSince >= HOLD_LIMIT \/ virtualSince > now
<1>1. ButtonInv'
  BY ButtonStep
<1>2. CASE virtual'
  <2> DEFINE t == clock'
             n == now'
             v == virtualSince'
             slack == Slack'
  <2>1. n < v + HOLD_LIMIT + slack
    BY <1>1, <1>2 DEF ButtonInv, VirtualInv
  <2>2. t <= n + (IF running' THEN MaxLag ELSE Interval)
    BY <1>1 DEF ButtonInv, ClockInv
  <2>3. slack = IF running' THEN Interval ELSE 0
    BY DEF Slack
  <2>4. t \in Nat /\ n \in Nat /\ v \in Nat
    BY <1>1 DEF ButtonInv, TypeOK
  <2>5. t - v < HOLD_LIMIT + Interval + MaxLag
    <3> HIDE DEF t, n, v, slack
    <3>1. CASE running'
      BY <3>1, <2>1, <2>2, <2>3, <2>4, SpanFacts
    <3>2. CASE ~running'
      BY <3>2, <2>1, <2>2, <2>3, <2>4, SpanFacts
    <3> QED BY <3>1, <3>2
  <2> QED BY <2>5, <1>2
<1>3. CASE ~virtual' /\ EndCycle
  <2>1. now - virtualSince >= HOLD_LIMIT \/ virtualSince > now
    BY <1>3, EndFacts
  <2>2. clock \in Nat /\ now \in Nat /\ virtualSince \in Nat /\ now <= clock
    BY Parts, TypeFacts DEF ClockInv
  <2>3. clock - virtualSince >= HOLD_LIMIT \/ virtualSince > now
    BY <2>1, <2>2, SpanFacts
  <2> QED BY <2>3, <1>3
<1> QED BY <1>2, <1>3

\* A virtual press whose sender is gone ends at the limit, and not before it
\* (update_effective_button).
THEOREM VirtualTheorem == Spec => VirtualHoldLimited
<1>1. ButtonInv /\ [Next]_vars =>
          (virtual =>
             IF virtual' THEN clock' - virtualSince' < HOLD_LIMIT + Interval + MaxLag
             ELSE EndCycle => clock - virtualSince >= HOLD_LIMIT \/ virtualSince > now)
  BY VirtualStep
<1> QED BY <1>1, ButtonTheorem, PTL DEF Spec, VirtualHoldLimited
=============================================================================
