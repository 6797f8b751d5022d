---------------------------- MODULE GatewayProofs ----------------------------
(***************************************************************************)
(* Proofs about Gateway and GatewayHistory, for every queue length, every    *)
(* bound and every set of faults.  First its type and that purple is         *)
(* durable; then, for behaviours in which no start of the stack interrupts a *)
(* reset, that a reset ends finally and that a marker is shown; and of the   *)
(* history, one commissioning at a time, no join and no wipe without BOOT,   *)
(* and a gateway that never gives up by itself.                              *)
(***************************************************************************)
EXTENDS GatewayHistory, SequenceTheorems, TLAPS

-----------------------------------------------------------------------------
(* What the operators of UiPhases preserve.                                 *)

Shows(p) == p.phase \in {"RESULT_FORCED"} \cup FinalPhases

\* The request for a forced wipe is taken before its phase is left.
WipePending(p) == "ARM_FORCED_WIPE" \in p.pending => p.phase = "FORCE_PENDING"

\* A call that is neither a start of the stack nor the answer to a forced wipe.
Quiet(p, q) ==
    /\ q \in Views
    /\ q.phase = "RESULT_FORCED" => p.phase = "RESULT_FORCED"
    /\ p.phase \in ResetFlow => q.phase \in ResetFlow \cup FinalPhases
    /\ Shows(p) => Shows(q)
    /\ WipePending(p) => WipePending(q)

LEMMA ToFacts ==
    ASSUME NEW p \in Views, NEW phase \in Phases
    PROVE  /\ To(p, phase) \in Views
           /\ To(p, phase).phase = phase
           /\ To(p, phase).pending = p.pending
BY DEF To, Views

LEMMA AskForFacts ==
    ASSUME NEW p \in Views, NEW phase \in Phases, NEW action \in Actions
    PROVE  /\ AskFor(p, phase, action) \in Views
           /\ AskFor(p, phase, action).phase = phase
           /\ AskFor(p, phase, action).pending = p.pending \cup {action}
<1>1. p.pending \cup {action} \in SUBSET Actions
  BY DEF Views
<1>2. AskFor(p, phase, action) \in Views
  BY <1>1, Zenon DEF AskFor, Views
<1>3. AskFor(p, phase, action).phase = phase
  BY DEF AskFor, Views
<1>4. AskFor(p, phase, action).pending = p.pending \cup {action}
  BY DEF AskFor, Views
<1> QED BY <1>2, <1>3, <1>4

LEMMA DriftQuiet ==
    ASSUME NEW p \in Views, NEW q \in Drift(p)
    PROVE  Quiet(p, q)
<1> USE DEF Quiet, Shows, WipePending, ResetFlow, FinalPhases, ResultPhases
<1>1. CASE q = p
  BY <1>1
<1>2. CASE p.phase = "UNPROVISIONED" /\ q # p
  <2>1. q = AskFor(p, "JOINING", "START_STEERING")
    BY <1>2 DEF Drift, Due, AcceptsReset
  <2>2. "JOINING" \in Phases /\ "START_STEERING" \in Actions
    BY DEF Phases, Actions
  <2> QED BY <1>2, <2>1, <2>2, AskForFacts
<1>3. CASE AcceptsReset(p.phase) /\ q # p
  <2> DEFINE a == AskFor(p, "LEAVING", "BEGIN_LOCAL_RESET")
  <2>1. q = [a EXCEPT !.left = FALSE]
    BY <1>3 DEF Drift, Due, AcceptsReset
  <2>2. "LEAVING" \in Phases /\ "BEGIN_LOCAL_RESET" \in Actions
    BY DEF Phases, Actions
  <2>3. a \in Views /\ a.phase = "LEAVING" /\ a.pending = p.pending \cup {"BEGIN_LOCAL_RESET"}
    BY <2>2, AskForFacts
  <2> HIDE DEF a
  <2>4. q \in Views
    BY <2>1, <2>3 DEF Views
  <2>5. q.phase = a.phase /\ q.pending = a.pending
    BY <2>1, <2>3 DEF Views
  <2> QED BY <1>3, <2>3, <2>4, <2>5 DEF AcceptsReset
<1>4. CASE p.phase = "LEAVING" /\ q # p
  <2>1. \/ q = To(p, "RESULT_GRACEFUL")
        \/ q = To(p, "TERMINAL")
        \/ q = AskFor(p, "FORCE_PENDING", "ARM_FORCED_WIPE")
    <3>1. Due(p) = IF p.left THEN {To(p, "RESULT_GRACEFUL"), To(p, "TERMINAL")}
                             ELSE {AskFor(p, "FORCE_PENDING", "ARM_FORCED_WIPE")}
      BY <1>4 DEF Due, AcceptsReset
    <3>2. q \in Due(p)
      BY <1>4 DEF Drift
    <3> QED BY <3>1, <3>2, Zenon
  <2>2. CASE q = To(p, "RESULT_GRACEFUL")
    <3>1. "RESULT_GRACEFUL" \in Phases
      BY DEF Phases
    <3> QED BY <1>4, <2>2, <3>1, ToFacts
  <2>3. CASE q = To(p, "TERMINAL")
    <3>1. "TERMINAL" \in Phases
      BY DEF Phases
    <3> QED BY <1>4, <2>3, <3>1, ToFacts
  <2>4. CASE q = AskFor(p, "FORCE_PENDING", "ARM_FORCED_WIPE")
    <3>1. "FORCE_PENDING" \in Phases /\ "ARM_FORCED_WIPE" \in Actions
      BY DEF Phases, Actions
    <3> QED BY <1>4, <2>4, <3>1, AskForFacts
  <2> QED BY <2>1, <2>2, <2>3, <2>4
<1>5. CASE p.phase \in ResultPhases /\ q # p
  <2>1. q = To(p, "TERMINAL")
    BY <1>5 DEF Drift, Due, AcceptsReset
  <2>2. "TERMINAL" \in Phases
    BY DEF Phases
  <2> QED BY <1>5, <2>1, <2>2, ToFacts
<1>6. \/ q = p
      \/ p.phase = "UNPROVISIONED"
      \/ AcceptsReset(p.phase)
      \/ p.phase = "LEAVING"
      \/ p.phase \in ResultPhases
  BY DEF Drift, Due
<1> QED BY <1>1, <1>2, <1>3, <1>4, <1>5, <1>6

LEMMA QuietChain ==
    ASSUME NEW p, NEW q, NEW r, Quiet(p, q), Quiet(q, r)
    PROVE  Quiet(p, r)
BY DEF Quiet, Shows, FinalPhases, ResetFlow, ResultPhases

LEMMA ToQuiet ==
    ASSUME NEW p \in Views, NEW phase \in Phases,
           p.phase \notin ResetFlow \cup FinalPhases,
           phase # "RESULT_FORCED"
    PROVE  Quiet(p, To(p, phase))
<1>1. /\ To(p, phase) \in Views
      /\ To(p, phase).phase = phase
      /\ To(p, phase).pending = p.pending
  BY ToFacts
<1>2. ~Shows(p)
  BY DEF Shows, ResetFlow, ResultPhases
<1>3. WipePending(p) => "ARM_FORCED_WIPE" \notin p.pending
  BY DEF WipePending, ResetFlow
<1> QED BY <1>1, <1>2, <1>3 DEF Quiet, WipePending

\* An update of the other fields of a view.
LEMMA SameQuiet ==
    ASSUME NEW p \in Views, NEW q \in Views,
           q.phase = p.phase, q.pending = p.pending
    PROVE  Quiet(p, q)
BY DEF Quiet, Shows, WipePending, ResetFlow, ResultPhases

LEMMA JoinedQuiet ==
    ASSUME NEW p \in Views, NEW q \in JoinedViews(p)
    PROVE  Quiet(p, q)
<1>1. PICK d \in Drift(p) : q = IF d.phase = "JOINING" THEN To(d, "POST_JOIN") ELSE d
  BY DEF JoinedViews
<1>2. Quiet(p, d) /\ d \in Views
  BY DriftQuiet DEF Quiet
<1>3. Quiet(d, q)
  <2>1. CASE d.phase = "JOINING"
    <3>1. "POST_JOIN" \in Phases
      BY DEF Phases
    <3>2. d.phase \notin ResetFlow \cup FinalPhases
      BY <2>1 DEF ResetFlow, ResultPhases, FinalPhases
    <3> QED BY <1>1, <1>2, <2>1, <3>1, <3>2, ToQuiet
  <2>2. CASE d.phase # "JOINING"
    BY <1>1, <1>2, <2>2, SameQuiet
  <2> QED BY <2>1, <2>2
<1> QED BY <1>2, <1>3, QuietChain

LEMMA LeftQuiet ==
    ASSUME NEW p \in Views, NEW q \in Drift([p EXCEPT !.left = TRUE])
    PROVE  Quiet(p, q)
<1> DEFINE l == [p EXCEPT !.left = TRUE]
<1>1. l \in Views
  BY DEF Views
<1>2. l.phase = p.phase /\ l.pending = p.pending
  BY DEF Views
<1>3. q \in Drift(l)
  OBVIOUS
<1> HIDE DEF l
<1>4. Quiet(p, l)
  BY <1>1, <1>2, SameQuiet
<1>5. Quiet(l, q)
  BY <1>1, <1>3, DriftQuiet
<1> QED BY <1>4, <1>5, QuietChain

LEMMA AwayQuiet ==
    ASSUME NEW p \in Views, NEW willRejoin \in BOOLEAN, NEW q,
           p.phase \notin ResetFlow \cup FinalPhases,
           q = [p EXCEPT !.phase = IF willRejoin THEN "RESTORING" ELSE "UNPROVISIONED",
                         !.lease = FALSE]
    PROVE  Quiet(p, q)
<1> DEFINE phase == IF willRejoin THEN "RESTORING" ELSE "UNPROVISIONED"
<1>1. phase \in Phases /\ phase # "RESULT_FORCED"
  BY DEF Phases
<1>2. q = [p EXCEPT !.phase = phase, !.lease = FALSE]
  OBVIOUS
<1> HIDE DEF phase
<1>3. Quiet(p, To(p, phase)) /\ To(p, phase) \in Views
  BY <1>1, ToQuiet, ToFacts
<1>4. q \in Views
  BY <1>1, <1>2 DEF Views
<1>5. q.phase = phase /\ q.pending = p.pending
  BY <1>1, <1>2 DEF Views
<1>6. To(p, phase).phase = phase /\ To(p, phase).pending = p.pending
  BY <1>1, ToFacts
<1>7. Quiet(To(p, phase), q)
  BY <1>3, <1>4, <1>5, <1>6, SameQuiet
<1> QED BY <1>3, <1>7, QuietChain

LEMMA LostQuiet ==
    ASSUME NEW p \in Views, NEW willRejoin \in BOOLEAN, NEW q \in LostViews(p, willRejoin)
    PROVE  Quiet(p, q)
<1>1. PICK d \in Drift(p) : q \in LostFrom(d, willRejoin)
  BY DEF LostViews
<1>2. Quiet(p, d) /\ d \in Views
  BY DriftQuiet DEF Quiet
<1>3. CASE d.phase = "LEAVING"
  <2>1. q \in Drift([d EXCEPT !.left = TRUE])
    BY <1>1, <1>3 DEF LostFrom, ResultPhases, FinalPhases
  <2> QED BY <1>2, <2>1, LeftQuiet, QuietChain
<1>4. CASE d.phase \in {"FORCE_PENDING"} \cup ResultPhases \cup FinalPhases
  <2>1. q = d
    BY <1>1, <1>4 DEF LostFrom, ResultPhases, FinalPhases
  <2> QED BY <1>2, <2>1
<1>5. CASE d.phase \notin ResetFlow \cup FinalPhases
  <2>1. q = [d EXCEPT !.phase = IF willRejoin THEN "RESTORING" ELSE "UNPROVISIONED",
                      !.lease = FALSE]
    BY <1>1, <1>5 DEF LostFrom, ResetFlow
  <2>2. Quiet(d, q)
    BY <1>2, <1>5, <2>1, AwayQuiet
  <2> QED BY <1>2, <2>2, QuietChain
<1> QED BY <1>3, <1>4, <1>5 DEF ResetFlow

LEMMA LeasedQuiet ==
    ASSUME NEW p \in Views, NEW q \in ReadyViews(p) \cup PingViews(p) \cup Drift(p)
    PROVE  Quiet(p, q)
<1>1. PICK d \in Drift(p) :
        \/ q = d
        \/ d.phase \in {"READY", "POST_JOIN"} /\ q = [d EXCEPT !.phase = "READY", !.lease = TRUE]
        \/ d.phase = "READY" /\ q = [d EXCEPT !.lease = TRUE]
  BY DEF ReadyViews, PingViews
<1>2. Quiet(p, d) /\ d \in Views
  BY DriftQuiet DEF Quiet
<1>3. CASE q = d
  BY <1>2, <1>3
<1>4. CASE d.phase \in {"READY", "POST_JOIN"} /\ q = [d EXCEPT !.phase = "READY", !.lease = TRUE]
  <2>1. "READY" \in Phases
    BY DEF Phases
  <2>2. d.phase \notin ResetFlow \cup FinalPhases
    BY <1>4 DEF ResetFlow, ResultPhases, FinalPhases
  <2>3. Quiet(d, To(d, "READY")) /\ To(d, "READY") \in Views
    BY <1>2, <2>1, <2>2, ToQuiet, ToFacts
  <2>4. q \in Views
    BY <1>2, <1>4, <2>1 DEF Views
  <2>5. q.phase = To(d, "READY").phase /\ q.pending = To(d, "READY").pending
    BY <1>2, <1>4, <2>1, ToFacts DEF Views
  <2>6. Quiet(To(d, "READY"), q)
    BY <2>3, <2>4, <2>5, SameQuiet
  <2> QED BY <1>2, <2>3, <2>6, QuietChain
<1>5. CASE q = [d EXCEPT !.lease = TRUE]
  <2>1. q \in Views
    BY <1>2, <1>5 DEF Views
  <2>2. q.phase = d.phase /\ q.pending = d.pending
    BY <1>2, <1>5 DEF Views
  <2> QED BY <1>2, <2>1, <2>2, SameQuiet, QuietChain
<1> QED BY <1>1, <1>3, <1>4, <1>5

LEMMA RetryingQuiet ==
    ASSUME NEW p \in Views, NEW watchdog \in BOOLEAN
    PROVE  Quiet(p, Retrying(p, watchdog))
<1>1. CASE p.phase \in ResetFlow \cup FinalPhases
  <2>1. Retrying(p, watchdog) = p
    BY <1>1 DEF Retrying
  <2> QED BY <2>1, SameQuiet
<1>2. CASE p.phase \notin ResetFlow \cup FinalPhases
  <2> DEFINE q == Retrying(p, watchdog)
  <2>1. "RESTORING" \in Phases
    BY DEF Phases
  <2>2. Quiet(p, To(p, "RESTORING")) /\ To(p, "RESTORING") \in Views
    BY <1>2, <2>1, ToQuiet, ToFacts
  <2>3. q = [p EXCEPT !.phase = "RESTORING", !.lease = FALSE, !.watchdog = watchdog]
    BY <1>2 DEF Retrying
  <2> HIDE DEF q
  <2>4. q \in Views
    BY <2>1, <2>3 DEF Views
  <2>5. q.phase = To(p, "RESTORING").phase /\ q.pending = To(p, "RESTORING").pending
    BY <2>1, <2>3, ToFacts DEF Views
  <2>6. Quiet(p, q)
    BY <2>2, <2>4, <2>5, SameQuiet, QuietChain
  <2> QED BY <2>6 DEF q
<1> QED BY <1>1, <1>2

\* A start of the stack is quiet unless it interrupts a reset.
LEMMA StartedQuiet ==
    ASSUME NEW p \in Views, NEW factoryNew \in BOOLEAN, NEW watchdog \in BOOLEAN
    PROVE  /\ Started(p, factoryNew, watchdog) \in Views
           /\ Started(p, factoryNew, watchdog).phase # "RESULT_FORCED"
           /\ p.phase \notin ResetFlow => Quiet(p, Started(p, factoryNew, watchdog))
<1>1. CASE p.phase \in FinalPhases
  <2>1. Started(p, factoryNew, watchdog) = p
    BY <1>1 DEF Started
  <2> QED BY <1>1, <2>1, SameQuiet DEF FinalPhases
<1>2. CASE p.phase \notin FinalPhases
  <2> DEFINE q == Started(p, factoryNew, watchdog)
             phase == IF factoryNew THEN "UNPROVISIONED" ELSE "READY"
             lease == ~factoryNew /\ ~watchdog
  <2>1. phase \in Phases /\ phase # "RESULT_FORCED"
    BY DEF Phases
  <2>2. lease \in BOOLEAN
    OBVIOUS
  <2>3. q = [p EXCEPT !.phase = phase, !.lease = lease, !.watchdog = watchdog]
    BY <1>2 DEF Started
  <2> HIDE DEF phase, lease, q
  <2>4. q \in Views
    BY <2>1, <2>2, <2>3 DEF Views
  <2>5. q.phase = phase /\ q.pending = p.pending
    BY <2>1, <2>3 DEF Views
  <2>6. ASSUME p.phase \notin ResetFlow
        PROVE  Quiet(p, q)
    <3>1. /\ To(p, phase) \in Views
          /\ q.phase = To(p, phase).phase /\ q.pending = To(p, phase).pending
      BY <2>1, <2>5, ToFacts
    <3>2. Quiet(p, To(p, phase))
      BY <1>2, <2>1, <2>6, ToQuiet
    <3> QED BY <2>4, <3>1, <3>2, SameQuiet, QuietChain
  <2> QED BY <2>1, <2>4, <2>5, <2>6 DEF q
<1> QED BY <1>1, <1>2

\* The UI task takes the actions out of the mailbox.
LEMMA TakenQuiet ==
    ASSUME NEW p \in Views
    PROVE  /\ Quiet(p, Taken(p))
           /\ Taken(p).phase = p.phase
           /\ Taken(p).pending = {}
<1> DEFINE q == Taken(p)
<1>1. q = [p EXCEPT !.pending = {}]
  BY DEF Taken
<1> HIDE DEF q
<1>2. q \in Views
  BY <1>1 DEF Views
<1>3. q.phase = p.phase
  BY <1>1 DEF Views
<1>4. q.pending = {}
  BY <1>1 DEF Views
<1>5. Quiet(p, q)
  BY <1>2, <1>3, <1>4 DEF Quiet, Shows, WipePending, ResetFlow, ResultPhases
<1> QED BY <1>3, <1>4, <1>5 DEF q

\* The answer to a forced wipe.
LEMMA WipedFacts ==
    ASSUME NEW p \in Views, NEW success \in BOOLEAN, NEW q \in WipeViews(p, success)
    PROVE  /\ q \in Views
           /\ q.phase = "RESULT_FORCED" => p.phase = "RESULT_FORCED" \/ success
           /\ p.phase \in ResetFlow => q.phase \in ResetFlow \cup FinalPhases
           /\ Shows(p) => Shows(q)
           /\ p.phase = "FORCE_PENDING" => Shows(q) /\ q.pending = p.pending
<1> DEFINE phase == IF success THEN "RESULT_FORCED" ELSE "ERROR"
<1>1. PICK d \in Drift(p) : q = IF d.phase = "FORCE_PENDING" THEN To(d, phase) ELSE d
  BY DEF WipeViews
<1>2. Quiet(p, d) /\ d \in Views
  BY DriftQuiet DEF Quiet
<1>3. phase \in Phases /\ phase \in {"RESULT_FORCED", "ERROR"}
  BY DEF Phases
<1>4. phase = "RESULT_FORCED" => success
  OBVIOUS
<1> HIDE DEF phase
<1>5. p.phase = "FORCE_PENDING" => d = p
  BY DEF Drift, Due, AcceptsReset, ResultPhases
<1>6. CASE d.phase = "FORCE_PENDING"
  <2>1. q \in Views /\ q.phase = phase /\ q.pending = d.pending
    BY <1>1, <1>2, <1>3, <1>6, ToFacts
  <2>2. phase \in ResetFlow \cup FinalPhases /\ Shows(q)
    BY <1>3, <2>1 DEF ResetFlow, FinalPhases, ResultPhases, Shows
  <2> QED BY <1>4, <1>5, <2>1, <2>2
<1>7. CASE d.phase # "FORCE_PENDING"
  BY <1>1, <1>2, <1>5, <1>7 DEF Quiet
<1> QED BY <1>6, <1>7

-----------------------------------------------------------------------------
(* What the steps of the firmware change.                                   *)

LEMMA PostType ==
    ASSUME GatewayTypeOK, NEW kind, NEW value \in BOOLEAN, Post(kind, value),
           \/ kind \in {"STACK_STARTED", "NETWORK_LEFT"}
           \/ kind \in {"STACK_RETRYING", "JOINED"} \cup Commands /\ value = FALSE
    PROVE  queue' \in Seq(Messages) /\ Len(queue') <= QUEUE_LENGTH
<1> DEFINE m == [kind |-> kind, value |-> value]
<1>1. m \in Messages
  BY DEF Messages
<1> HIDE DEF m
<1>2. \/ Len(queue) < QUEUE_LENGTH /\ queue' = Append(queue, m)
      \/ queue' = queue
  BY DEF Post, m
<1> QED BY <1>1, <1>2, GatewayAssumption DEF GatewayTypeOK

LEMMA ScheduleType ==
    ASSUME GatewayTypeOK, NEW mode \in Modes, ScheduleRetry(mode)
    PROVE  alarms' \in [Modes -> Nat]
BY DEF GatewayTypeOK, ScheduleRetry, AlarmTimerSchedule

LEMMA PostedType ==
    ASSUME GatewayTypeOK, NEW actions \in SUBSET Actions, PostFunctions(actions)
    PROVE  posted' \subseteq Functions
<1>1. \A a \in actions : PostedFor(a) \subseteq Functions
  BY DEF PostedFor, Functions
<1> QED BY <1>1 DEF PostFunctions, GatewayTypeOK

LEMMA HandledFacts ==
    ASSUME GatewayTypeOK, HandleMessage
    PROVE  /\ view' \in Views
           /\ view'.phase = "RESULT_FORCED" => view.phase = "RESULT_FORCED"
           /\ ~Interrupted => Quiet(view, view')
<1> DEFINE m == Head(queue)
<1>1. m \in Messages /\ view \in Views /\ watchdogReset \in BOOLEAN
  BY HeadTailProperties DEF HandleMessage, GatewayTypeOK
<1>2. m.value \in BOOLEAN
  BY <1>1 DEF Messages
<1>3. m.kind \in {"STACK_STARTED", "NETWORK_LEFT", "STACK_RETRYING", "JOINED",
                  "READY", "LEASE_PING", "GATEWAY_EVENT"}
  BY <1>1 DEF Messages, Commands
<1>4. view' \in HandledViews(m) /\ Up /\ queue # <<>> /\ queue' = Tail(queue)
  BY DEF HandleMessage
<1>5. m.kind = "STACK_STARTED" /\ view.phase \in ResetFlow => Interrupted
  BY <1>4 DEF Interrupted
<1> HIDE DEF m
<1>6. CASE m.kind = "STACK_STARTED"
  <2>1. view' = Started(view, m.value, watchdogReset)
    BY <1>4, <1>6 DEF HandledViews
  <2> QED BY <1>1, <1>2, <1>5, <1>6, <2>1, StartedQuiet
<1>7. CASE m.kind = "STACK_RETRYING"
  <2>1. view' = Retrying(view, watchdogReset)
    BY <1>4, <1>7 DEF HandledViews
  <2> QED BY <1>1, <2>1, RetryingQuiet DEF Quiet
<1>8. CASE m.kind = "JOINED"
  <2>1. view' \in JoinedViews(view)
    BY <1>4, <1>8 DEF HandledViews
  <2> QED BY <1>1, <2>1, JoinedQuiet DEF Quiet
<1>9. CASE m.kind \in {"READY", "LEASE_PING", "GATEWAY_EVENT"}
  <2>1. view' \in ReadyViews(view) \cup PingViews(view) \cup Drift(view)
    BY <1>4, <1>9 DEF HandledViews
  <2> QED BY <1>1, <2>1, LeasedQuiet DEF Quiet
<1>10. CASE m.kind = "NETWORK_LEFT"
  <2>1. view' \in LostViews(view, m.value)
    BY <1>4, <1>10 DEF HandledViews
  <2> QED BY <1>1, <1>2, <2>1, LostQuiet DEF Quiet
<1> QED BY <1>3, <1>6, <1>7, <1>8, <1>9, <1>10

LEMMA CycleFacts ==
    ASSUME GatewayTypeOK, FinishCycle
    PROVE  /\ view' \in Views
           /\ posted' \subseteq Functions
           /\ marker' \in BOOLEAN /\ (marker => marker')
           /\ view'.phase = "RESULT_FORCED" => view.phase = "RESULT_FORCED" \/ marker'
           /\ view.phase \in ResetFlow => view'.phase \in ResetFlow \cup FinalPhases
           /\ WipePending(view) =>
                 /\ WipePending(view')
                 /\ Shows(view) \/ marker' # marker => Shows(view')
<1>1. view \in Views /\ marker \in BOOLEAN
  BY DEF GatewayTypeOK
<1>2. PICK p \in Drift(view) :
        /\ PostFunctions(p.pending)
        /\ IF "ARM_FORCED_WIPE" \in p.pending
           THEN \E success \in BOOLEAN : ArmForcedWipe(Taken(p), success)
           ELSE view' = Taken(p) /\ UNCHANGED marker
  BY DEF FinishCycle
<1>3. Quiet(view, p) /\ p \in Views
  BY <1>1, DriftQuiet DEF Quiet
<1>4. posted' \subseteq Functions
  <2>1. p.pending \in SUBSET Actions
    BY <1>3 DEF Views
  <2> QED BY <1>2, <2>1, PostedType
<1> DEFINE t == Taken(p)
<1>5. Quiet(view, t) /\ t \in Views /\ t.phase = p.phase /\ t.pending = {}
  BY <1>3, TakenQuiet, QuietChain DEF Quiet
<1>6. CASE "ARM_FORCED_WIPE" \notin p.pending
  <2>1. view' = t /\ marker' = marker
    BY <1>2, <1>6
  <2> HIDE DEF t
  <2> QED BY <1>1, <1>4, <1>5, <2>1 DEF Quiet
<1>7. CASE "ARM_FORCED_WIPE" \in p.pending
  <2>1. PICK success \in BOOLEAN : ArmForcedWipe(t, success)
    BY <1>2, <1>7
  <2> HIDE DEF t
  <2>2. view' \in WipeViews(t, success)
    BY <2>1 DEF ArmForcedWipe
  <2>3. marker' \in BOOLEAN /\ (marker => marker') /\ (success => marker')
    BY <1>1, <2>1, Zenon DEF ArmForcedWipe
  <2>4. /\ view' \in Views
        /\ view'.phase = "RESULT_FORCED" => t.phase = "RESULT_FORCED" \/ success
        /\ t.phase \in ResetFlow => view'.phase \in ResetFlow \cup FinalPhases
        /\ Shows(t) => Shows(view')
        /\ t.phase = "FORCE_PENDING" => Shows(view') /\ view'.pending = t.pending
    BY <1>5, <2>2, WipedFacts
  <2>5. view.phase \in ResetFlow => view'.phase \in ResetFlow \cup FinalPhases
    <3>1. t.phase \in FinalPhases => view'.phase \in ResetFlow \cup FinalPhases
      BY <2>4 DEF Shows, ResetFlow, ResultPhases
    <3> QED BY <1>5, <2>4, <3>1 DEF Quiet
  <2>6. WipePending(view) => t.phase = "FORCE_PENDING"
    BY <1>3, <1>5, <1>7 DEF Quiet, WipePending
  <2>7. WipePending(view) => WipePending(view') /\ Shows(view')
    BY <1>5, <2>4, <2>6 DEF WipePending
  <2>8. view'.phase = "RESULT_FORCED" => view.phase = "RESULT_FORCED" \/ marker'
    BY <1>5, <2>3, <2>4 DEF Quiet
  <2> QED BY <1>4, <2>3, <2>4, <2>5, <2>7, <2>8
<1> QED BY <1>6, <1>7

\* Every step but these leaves the user interface alone, and the marker too
\* unless it clears it at boot.
LEMMA OtherSteps ==
    ASSUME GatewayNext
    PROVE  \/ HandleMessage
           \/ FinishCycle
           \/ \E watchdog \in BOOLEAN : Reboot(watchdog)
           \/ CleanUp
           \/ ApplyWipe
           \/ StartTasks
           \/ UNCHANGED <<view, marker, power>>
<1> USE DEF ui, stack, flash, boot
<1>1. CASE \/ SkipStartup \/ Initialized \/ NotInitialized \/ Steered \/ NotSteered
           \/ (\E mode \in Modes : RetryTimer(mode))
  BY <1>1 DEF SkipStartup, Initialized, NotInitialized, Steered, NotSteered, RetryTimer, AlarmTimerFired
<1>2. CASE \/ StartSteering \/ BeginLocalReset \/ ResetLeaves
           \/ CoordinatorRemoves \/ Supervise
  BY <1>2 DEF StartSteering, BeginLocalReset, ResetLeaves, CoordinatorRemoves, Supervise
<1>3. CASE PowerCycle \/ LeaseWatchdogReset
  BY <1>3 DEF PowerCycle, LeaseWatchdogReset
<1>4. CASE HandleMessage \/ FinishCycle \/ CleanUp \/ ApplyWipe \/ StartTasks
  BY <1>4
<1> QED BY <1>1, <1>2, <1>3, <1>4 DEF GatewayNext

LEMMA FreshFacts == Fresh \in Views /\ Fresh.phase = "STARTING" /\ Fresh.pending = {}
<1>1. "STARTING" \in Phases
  BY DEF Phases
<1>2. Fresh \in Views
  BY <1>1 DEF Fresh, Views
<1> QED BY <1>2 DEF Fresh

LEMMA TypeInit == GatewayInit => GatewayTypeOK
<1> SUFFICES ASSUME GatewayInit PROVE GatewayTypeOK
  OBVIOUS
<1>1. view \in Views
  BY FreshFacts DEF GatewayInit, Init
<1>2. queue \in Seq(Messages) /\ Len(queue) <= QUEUE_LENGTH
  BY GatewayAssumption DEF GatewayInit
<1>3. alarms \in [Modes -> Nat]
  BY DEF GatewayInit
<1>4. boots \in 0 .. MaxBoots
  BY GatewayAssumption DEF GatewayInit
<1> QED BY <1>1, <1>2, <1>3, <1>4 DEF GatewayInit, GatewayTypeOK

LEMMA TypeStep == GatewayTypeOK /\ [GatewayNext]_vars => GatewayTypeOK'
<1> SUFFICES ASSUME GatewayTypeOK, [GatewayNext]_vars PROVE GatewayTypeOK'
  OBVIOUS
<1> USE DEF ui, stack, flash, boot
<1>1. CASE HandleMessage
  <2>1. view' \in Views
    BY <1>1, HandledFacts
  <2>2. queue' \in Seq(Messages) /\ Len(queue') <= QUEUE_LENGTH
    BY <1>1, HeadTailProperties, GatewayAssumption DEF HandleMessage, GatewayTypeOK
  <2> QED BY <1>1, <2>1, <2>2 DEF HandleMessage, GatewayTypeOK
<1>2. CASE FinishCycle
  <2>1. view' \in Views /\ posted' \subseteq Functions /\ marker' \in BOOLEAN
    BY <1>2, CycleFacts
  <2> QED BY <1>2, <2>1 DEF FinishCycle, GatewayTypeOK
<1>3. CASE SkipStartup
  BY <1>3 DEF SkipStartup, GatewayTypeOK, Modes
<1>4. CASE Initialized
  <2>1. queue' \in Seq(Messages) /\ Len(queue') <= QUEUE_LENGTH
    BY <1>4, PostType DEF Initialized
  <2> QED BY <1>4, <2>1 DEF Initialized, GatewayTypeOK
<1>5. CASE NotInitialized
  <2>1. queue' \in Seq(Messages) /\ Len(queue') <= QUEUE_LENGTH
    BY <1>5, PostType DEF NotInitialized
  <2>2. alarms' \in [Modes -> Nat]
    BY <1>5, ScheduleType DEF NotInitialized, Modes
  <2> QED BY <1>5, <2>1, <2>2 DEF NotInitialized, GatewayTypeOK
<1>6. CASE Steered
  <2>1. queue' \in Seq(Messages) /\ Len(queue') <= QUEUE_LENGTH
    BY <1>6, PostType DEF Steered
  <2> QED BY <1>6, <2>1 DEF Steered, GatewayTypeOK
<1>7. CASE NotSteered
  <2>1. alarms' \in [Modes -> Nat]
    BY <1>7, ScheduleType DEF NotSteered, Modes
  <2> QED BY <1>7, <2>1 DEF NotSteered, GatewayTypeOK
<1>8. ASSUME NEW mode \in Modes, RetryTimer(mode)
      PROVE  GatewayTypeOK'
  <2>1. alarms' \in [Modes -> Nat]
    BY <1>8 DEF RetryTimer, AlarmTimerFired, GatewayTypeOK
  <2> QED BY <1>8, <2>1 DEF RetryTimer, AlarmTimerFired, GatewayTypeOK
<1>9. CASE StartSteering
  <2>1. alarms' \in [Modes -> Nat]
    BY <1>9, ScheduleType DEF StartSteering, Modes, GatewayTypeOK
  <2>2. posted' \subseteq Functions /\ bdb' \in {"startup", "idle"} \cup Modes
    BY <1>9 DEF StartSteering, GatewayTypeOK, Modes
  <2> QED BY <1>9, <2>1, <2>2 DEF StartSteering, GatewayTypeOK
<1>10. CASE BeginLocalReset
  BY <1>10 DEF BeginLocalReset, GatewayTypeOK
<1>11. CASE ResetLeaves
  <2>1. queue' \in Seq(Messages) /\ Len(queue') <= QUEUE_LENGTH
    <3>1. CASE UNCHANGED queue
      BY <3>1 DEF GatewayTypeOK
    <3>2. CASE Post("NETWORK_LEFT", FALSE)
      BY <3>2, PostType
    <3> QED BY <1>11, <3>1, <3>2 DEF ResetLeaves
  <2>2. network' \in {"new", "offline", "online"}
    BY <1>11 DEF ResetLeaves, GatewayTypeOK
  <2> QED BY <1>11, <2>1, <2>2 DEF ResetLeaves, GatewayTypeOK
<1>12. CASE CoordinatorRemoves
  <2>1. queue' \in Seq(Messages) /\ Len(queue') <= QUEUE_LENGTH
    BY <1>12, PostType DEF CoordinatorRemoves
  <2>2. network' \in {"new", "offline", "online"} /\ bdb' \in {"startup", "idle"} \cup Modes
    BY <1>12 DEF CoordinatorRemoves, GatewayTypeOK, Modes
  <2> QED BY <1>12, <2>1, <2>2 DEF CoordinatorRemoves, GatewayTypeOK
<1>13. CASE Supervise
  <2>1. queue' \in Seq(Messages) /\ Len(queue') <= QUEUE_LENGTH
    BY <1>13, PostType DEF Supervise
  <2> QED BY <1>13, <2>1 DEF Supervise, GatewayTypeOK
<1>14. ASSUME NEW watchdog \in BOOLEAN, Reboot(watchdog)
       PROVE  GatewayTypeOK'
  <2>1. view' \in Views
    BY <1>14, FreshFacts DEF Reboot
  <2>2. queue' \in Seq(Messages) /\ Len(queue') <= QUEUE_LENGTH
    BY <1>14, GatewayAssumption DEF Reboot
  <2>3. alarms' \in [Modes -> Nat] /\ boots' \in 0 .. MaxBoots
    BY <1>14, GatewayAssumption DEF Reboot, GatewayTypeOK
  <2> QED BY <1>14, <2>1, <2>2, <2>3 DEF Reboot, GatewayTypeOK
<1>15. CASE ApplyWipe
  BY <1>15 DEF ApplyWipe, GatewayTypeOK
<1>16. CASE CleanUp
  BY <1>16 DEF CleanUp, GatewayTypeOK
<1>17. CASE StartTasks
  BY <1>17 DEF StartTasks, GatewayTypeOK
<1>18. CASE UNCHANGED vars
  BY <1>18 DEF vars, GatewayTypeOK
<1> QED BY <1>1, <1>2, <1>3, <1>4, <1>5, <1>6, <1>7, <1>8, <1>9, <1>10, <1>11,
           <1>12, <1>13, <1>14, <1>15, <1>16, <1>17, <1>18
        DEF GatewayNext, PowerCycle, LeaseWatchdogReset

\* The state of the firmware keeps its type: in particular the queue of
\* cr11_ui_runtime.c never holds more than its length.
THEOREM GatewayTypeTheorem == GatewaySpec => []GatewayTypeOK
BY TypeInit, TypeStep, PTL DEF GatewaySpec

-----------------------------------------------------------------------------
(* Purple is durable.                                                       *)

\* The user interface says nothing before the tasks have been started; the
\* marker, which only a boot clears, is not cleared behind its back.
BootShowsNothing == power = "booting" => view = Fresh

DurableInv == GatewayTypeOK /\ BootShowsNothing /\ ForcedResultIsDurable

LEMMA DurableInit == GatewayInit => DurableInv
BY TypeInit, FreshFacts
   DEF GatewayInit, Init, DurableInv, BootShowsNothing, ForcedResultIsDurable

LEMMA DurableStep == DurableInv /\ [GatewayNext]_vars => DurableInv'
<1> SUFFICES ASSUME DurableInv, [GatewayNext]_vars
             PROVE  BootShowsNothing' /\ ForcedResultIsDurable'
  BY TypeStep DEF DurableInv
<1>0. GatewayTypeOK /\ BootShowsNothing /\ ForcedResultIsDurable
  BY DEF DurableInv
<1> USE DEF BootShowsNothing, ForcedResultIsDurable, ui, stack, flash, boot
<1>1. CASE HandleMessage
  <2>1. view'.phase = "RESULT_FORCED" => view.phase = "RESULT_FORCED"
    BY <1>0, <1>1, HandledFacts
  <2> QED BY <1>0, <1>1, <2>1 DEF HandleMessage, Up
<1>2. CASE FinishCycle
  <2>1. /\ marker => marker'
        /\ view'.phase = "RESULT_FORCED" => view.phase = "RESULT_FORCED" \/ marker'
    BY <1>0, <1>2, CycleFacts
  <2> QED BY <1>0, <1>2, <2>1 DEF FinishCycle, Up
<1>3. ASSUME NEW watchdog \in BOOLEAN, Reboot(watchdog)
      PROVE  BootShowsNothing' /\ ForcedResultIsDurable'
  BY <1>3, FreshFacts DEF Reboot
<1>4. CASE ApplyWipe
  BY <1>0, <1>4 DEF ApplyWipe
<1>5. CASE CleanUp
  BY <1>0, <1>5, FreshFacts DEF CleanUp
<1>6. CASE StartTasks
  BY <1>0, <1>6 DEF StartTasks
<1>7. CASE UNCHANGED <<view, marker, power>>
  BY <1>0, <1>7
<1>8. CASE UNCHANGED vars
  BY <1>0, <1>8 DEF vars
<1> QED BY <1>1, <1>2, <1>3, <1>4, <1>5, <1>6, <1>7, <1>8, OtherSteps

\* Purple is shown only while the marker is in the flash, whatever fails.
THEOREM DurableTheorem == GatewaySpec => []ForcedResultIsDurable
<1>1. DurableInv => ForcedResultIsDurable
  BY DEF DurableInv
<1> QED BY DurableInit, DurableStep, <1>1, PTL DEF GatewaySpec

-----------------------------------------------------------------------------
(* A reset that no start of the stack interrupts.                           *)

LEMMA EndsStep ==
    GatewayTypeOK /\ [GatewayNext /\ ~Interrupted]_vars =>
        [view.phase \in ResetFlow => \/ view'.phase \in ResetFlow \cup FinalPhases
                                     \/ power' = "booting"]_vars
<1> SUFFICES ASSUME GatewayTypeOK, GatewayNext, ~Interrupted, view.phase \in ResetFlow
             PROVE  view'.phase \in ResetFlow \cup FinalPhases \/ power' = "booting"
  OBVIOUS
<1> USE DEF ui, stack, flash, boot
<1>1. CASE HandleMessage
  BY <1>1, HandledFacts DEF Quiet
<1>2. CASE FinishCycle
  BY <1>2, CycleFacts
<1>3. ASSUME NEW watchdog \in BOOLEAN, Reboot(watchdog)
      PROVE  power' = "booting"
  BY <1>3 DEF Reboot
<1>4. CASE ApplyWipe \/ CleanUp \/ StartTasks \/ UNCHANGED <<view, marker, power>>
  BY <1>4 DEF ApplyWipe, CleanUp, StartTasks
<1> QED BY <1>1, <1>2, <1>3, <1>4, OtherSteps

\* A reset ends in the terminal pattern or in the error state: of all the calls
\* on the user interface only a start of the stack leads out of it, and only
\* a reboot leads out of the end.
THEOREM EndsTheorem == UninterruptedSpec => EndsFinally
<1>1. GatewayTypeOK /\ [GatewayNext /\ ~Interrupted]_vars => GatewayTypeOK'
  BY TypeStep
<1> QED BY TypeInit, <1>1, EndsStep, PTL DEF UninterruptedSpec, EndsFinally

-----------------------------------------------------------------------------
(* The marker is shown.                                                     *)

\* A request for a forced wipe that is still in the mailbox finds its phase:
\* otherwise the marker would be written and its answer be ignored.
MarkerInv == GatewayTypeOK /\ WipePending(view) /\ MarkerIsShown

LEMMA MarkerInit == GatewayInit => MarkerInv
BY TypeInit, FreshFacts DEF GatewayInit, Init, MarkerInv, WipePending, MarkerIsShown

LEMMA MarkerStep ==
    ASSUME "cleanup" \notin Faults, MarkerInv, [GatewayNext /\ ~Interrupted]_vars
    PROVE  MarkerInv'
<1> SUFFICES (WipePending(view) /\ MarkerIsShown)'
  BY TypeStep DEF MarkerInv
<1>0. GatewayTypeOK /\ WipePending(view) /\ (Up /\ marker => Shows(view))
  BY DEF MarkerInv, MarkerIsShown, Shows
<1> SUFFICES WipePending(view)' /\ (Up' /\ marker' => Shows(view'))
  BY DEF MarkerIsShown, Shows
<1> USE DEF ui, stack, flash, boot, Up
<1>1. CASE HandleMessage /\ ~Interrupted
  <2>1. Quiet(view, view')
    BY <1>0, <1>1, HandledFacts
  <2> QED BY <1>0, <1>1, <2>1 DEF Quiet, HandleMessage, WipePending
<1>2. CASE FinishCycle
  <2>1. WipePending(view') /\ (Shows(view) \/ marker' # marker => Shows(view'))
    BY <1>0, <1>2, CycleFacts
  <2> QED BY <1>0, <1>2, <2>1 DEF FinishCycle, WipePending
<1>3. ASSUME NEW watchdog \in BOOLEAN, Reboot(watchdog)
      PROVE  WipePending(view)' /\ (Up' /\ marker' => Shows(view'))
  BY <1>3, FreshFacts DEF Reboot, WipePending
<1>4. CASE ApplyWipe
  BY <1>0, <1>4 DEF ApplyWipe, WipePending
<1>5. CASE CleanUp
  BY <1>0, <1>5 DEF CleanUp, WipePending
<1>6. CASE StartTasks
  BY <1>0, <1>6 DEF StartTasks, WipePending
<1>7. CASE UNCHANGED <<view, marker, power>>
  BY <1>0, <1>7 DEF WipePending, Shows
<1>8. CASE UNCHANGED vars
  BY <1>0, <1>8 DEF vars, WipePending, Shows
<1> QED BY <1>1, <1>2, <1>3, <1>4, <1>5, <1>6, <1>7, <1>8, OtherSteps

\* As long as the marker can be erased after the wipe, and no start of the stack
\* interrupts a reset, the gateway never works with a wipe ahead of it.
THEOREM MarkerTheorem ==
    ASSUME "cleanup" \notin Faults
    PROVE  UninterruptedSpec => []MarkerIsShown
<1>1. MarkerInv /\ [GatewayNext /\ ~Interrupted]_vars => MarkerInv'
  BY MarkerStep
<1>2. MarkerInv => MarkerIsShown
  BY DEF MarkerInv
<1> QED BY MarkerInit, <1>1, <1>2, PTL DEF UninterruptedSpec

-----------------------------------------------------------------------------
(* Messages, by what they make of the phase.                                *)

IsCommand(m) == m.kind \in Commands

\* Handled outside of a reset, m leads to UNPROVISIONED.
Loses(kind, value) ==
    \/ kind = "STACK_STARTED" /\ value
    \/ kind = "NETWORK_LEFT" /\ ~value

LosesNetwork(m) == Loses(m.kind, m.value)

IsJoined(m) == m.kind = "JOINED"

\* m ends a wait for the network, or begins one.
Settles(m) == LosesNetwork(m) \/ IsJoined(m) \/ m.kind = "STACK_STARTED"
Waits(kind, value) ==
    \/ kind = "STACK_RETRYING"
    \/ kind = "NETWORK_LEFT" /\ value

Reopens(m) == Waits(m.kind, m.value)

OnlyCommands(q) == \A i \in 1 .. Len(q) : IsCommand(q[i])
HasLoss(q) == \E i \in 1 .. Len(q) : LosesNetwork(q[i])
HasJoined(q) == \E i \in 1 .. Len(q) : IsJoined(q[i])
Reopening(q) == \E i \in 1 .. Len(q) : Reopens(q[i])

\* Nothing but commands follows the loss of the network, ...
LossIsLast(q) == \A i, j \in 1 .. Len(q) : LosesNetwork(q[i]) /\ i < j => IsCommand(q[j])

\* ... and nothing but commands comes before a join.
JoinedIsFirst(q) == \A i, j \in 1 .. Len(q) : IsJoined(q[i]) /\ j < i => IsCommand(q[j])

\* The last word of the queue ends the wait.
Settling(q) ==
    \E i \in 1 .. Len(q) :
        Settles(q[i]) /\ \A j \in 1 .. Len(q) : i < j => ~Reopens(q[j])

-----------------------------------------------------------------------------
(* Queues.                                                                  *)

LEMMA EmptyQueue ==
    ASSUME NEW q, q = <<>>
    PROVE  /\ OnlyCommands(q) /\ LossIsLast(q) /\ JoinedIsFirst(q)
           /\ ~HasLoss(q) /\ ~HasJoined(q) /\ ~Reopening(q) /\ ~Settling(q)
BY DEF OnlyCommands, LossIsLast, JoinedIsFirst, HasLoss, HasJoined, Reopening, Settling

LEMMA MessageKinds ==
    ASSUME NEW m \in Messages
    PROVE  /\ m.value \in BOOLEAN
           /\ m.kind \in {"STACK_STARTED", "NETWORK_LEFT", "STACK_RETRYING", "JOINED",
                          "READY", "LEASE_PING",
                          "GATEWAY_EVENT"}
           /\ IsCommand(m) => ~LosesNetwork(m) /\ ~IsJoined(m) /\ ~Reopens(m) /\ ~Settles(m)
           /\ Settles(m) => ~Reopens(m)
BY DEF Messages, Commands, IsCommand, LosesNetwork, Loses, IsJoined, Reopens, Waits, Settles

LEMMA CommandsOnly ==
    ASSUME NEW q \in Seq(Messages), OnlyCommands(q)
    PROVE  /\ LossIsLast(q) /\ JoinedIsFirst(q)
           /\ ~HasLoss(q) /\ ~HasJoined(q) /\ ~Reopening(q) /\ ~Settling(q)
<1>1. \A i \in 1 .. Len(q) : q[i] \in Messages
  OBVIOUS
<1>2. \A i \in 1 .. Len(q) : ~LosesNetwork(q[i]) /\ ~IsJoined(q[i]) /\ ~Reopens(q[i]) /\ ~Settles(q[i])
  BY <1>1, MessageKinds DEF OnlyCommands
<1> QED BY <1>2 DEF LossIsLast, JoinedIsFirst, HasLoss, HasJoined, Reopening, Settling

LEMMA AppendFacts ==
    ASSUME NEW q \in Seq(Messages), NEW m \in Messages, NEW r, r = Append(q, m)
    PROVE  /\ OnlyCommands(q) /\ IsCommand(m) => OnlyCommands(r)
           /\ HasLoss(r) => HasLoss(q) \/ LosesNetwork(m)
           /\ LossIsLast(q) /\ (HasLoss(q) => IsCommand(m)) => LossIsLast(r)
           /\ HasJoined(r) => HasJoined(q) \/ IsJoined(m)
           /\ JoinedIsFirst(q) /\ (IsJoined(m) => OnlyCommands(q)) => JoinedIsFirst(r)
           /\ Reopening(r) => Reopening(q) \/ Reopens(m)
           /\ Settles(m) => Settling(r)
           /\ Settling(q) /\ ~Reopens(m) => Settling(r)
<1>1. /\ Len(r) = Len(q) + 1 /\ Len(q) \in Nat
      /\ \A i \in 1 .. Len(q) : r[i] = q[i]
      /\ r[Len(q) + 1] = m
  OBVIOUS
<1>2. \A i \in 1 .. Len(r) : i \in 1 .. Len(q) \/ i = Len(q) + 1
  BY <1>1
<1>3. 1 .. Len(q) \subseteq 1 .. Len(r) /\ Len(q) + 1 \in 1 .. Len(r)
  BY <1>1
<1>4. OnlyCommands(q) /\ IsCommand(m) => OnlyCommands(r)
  BY <1>1, <1>2 DEF OnlyCommands
<1>5. HasLoss(r) => HasLoss(q) \/ LosesNetwork(m)
  BY <1>1, <1>2 DEF HasLoss
<1>6. LossIsLast(q) /\ (HasLoss(q) => IsCommand(m)) => LossIsLast(r)
  BY <1>1, <1>2 DEF LossIsLast, HasLoss
<1>7. HasJoined(r) => HasJoined(q) \/ IsJoined(m)
  BY <1>1, <1>2 DEF HasJoined
<1>8. JoinedIsFirst(q) /\ (IsJoined(m) => OnlyCommands(q)) => JoinedIsFirst(r)
  BY <1>1, <1>2 DEF JoinedIsFirst, OnlyCommands
<1>9. Reopening(r) => Reopening(q) \/ Reopens(m)
  BY <1>1, <1>2 DEF Reopening
<1>10. Settles(m) => Settling(r)
  BY <1>1, <1>2, <1>3 DEF Settling
<1>11. Settling(q) /\ ~Reopens(m) => Settling(r)
  <2>1. SUFFICES ASSUME ~Reopens(m), NEW i \in 1 .. Len(q), Settles(q[i]),
                        \A j \in 1 .. Len(q) : i < j => ~Reopens(q[j])
                 PROVE  Settling(r)
    BY DEF Settling
  <2>2. i \in 1 .. Len(r) /\ Settles(r[i])
    BY <1>1, <1>3, <2>1
  <2>3. \A j \in 1 .. Len(r) : i < j => ~Reopens(r[j])
    BY <1>1, <1>2, <2>1
  <2> QED BY <2>2, <2>3 DEF Settling
<1> QED BY <1>4, <1>5, <1>6, <1>7, <1>8, <1>9, <1>10, <1>11

LEMMA TailFacts ==
    ASSUME NEW q \in Seq(Messages), q # <<>>, NEW r, r = Tail(q), NEW h, h = Head(q)
    PROVE  /\ h \in Messages /\ r \in Seq(Messages)
           /\ OnlyCommands(q) => OnlyCommands(r) /\ IsCommand(h)
           /\ HasLoss(r) \/ LosesNetwork(h) => HasLoss(q)
           /\ LossIsLast(q) => LossIsLast(r) /\ (LosesNetwork(h) => OnlyCommands(r))
           /\ HasJoined(r) \/ IsJoined(h) => HasJoined(q)
           /\ JoinedIsFirst(q) => JoinedIsFirst(r) /\ (HasJoined(r) => IsCommand(h))
           /\ Reopening(r) \/ Reopens(h) => Reopening(q)
           /\ Settling(q) => Settling(r) \/ (Settles(h) /\ ~Reopening(r))
<1>1. /\ Len(q) \in Nat \ {0} /\ Len(r) = Len(q) - 1 /\ h = q[1]
      /\ \A i \in 1 .. Len(r) : r[i] = q[i + 1]
      /\ h \in Messages /\ r \in Seq(Messages)
  BY EmptySeq, HeadTailProperties
<1>2. \A i \in 1 .. Len(r) : i + 1 \in 1 .. Len(q) /\ i \in Nat
  BY <1>1
<1>3. 1 \in 1 .. Len(q)
  BY <1>1
<1>4. \A i \in 1 .. Len(q) : i # 1 => i - 1 \in 1 .. Len(r) /\ q[i] = r[i - 1]
  BY <1>1
<1>5. OnlyCommands(q) => OnlyCommands(r) /\ IsCommand(h)
  BY <1>1, <1>2, <1>3 DEF OnlyCommands
<1>6. HasLoss(r) \/ LosesNetwork(h) => HasLoss(q)
  BY <1>1, <1>2, <1>3 DEF HasLoss
<1>7. LossIsLast(q) => LossIsLast(r) /\ (LosesNetwork(h) => OnlyCommands(r))
  BY <1>1, <1>2, <1>3 DEF LossIsLast, OnlyCommands
<1>8. HasJoined(r) \/ IsJoined(h) => HasJoined(q)
  BY <1>1, <1>2, <1>3 DEF HasJoined
<1>9. JoinedIsFirst(q) => JoinedIsFirst(r) /\ (HasJoined(r) => IsCommand(h))
  BY <1>1, <1>2, <1>3 DEF JoinedIsFirst, HasJoined
<1>10. Reopening(r) \/ Reopens(h) => Reopening(q)
  BY <1>1, <1>2, <1>3 DEF Reopening
<1>11. Settling(q) => Settling(r) \/ (Settles(h) /\ ~Reopening(r))
  <2>1. SUFFICES ASSUME NEW i \in 1 .. Len(q), Settles(q[i]),
                        \A j \in 1 .. Len(q) : i < j => ~Reopens(q[j])
                 PROVE  Settling(r) \/ (Settles(h) /\ ~Reopening(r))
    BY DEF Settling
  <2>2. \A j \in 1 .. Len(r) : i - 1 < j => ~Reopens(r[j])
    BY <1>1, <1>2, <2>1
  <2>3. CASE i = 1
    <3>1. ~Reopening(r)
      BY <2>2, <2>3 DEF Reopening
    <3> QED BY <1>1, <2>1, <2>3, <3>1
  <2>4. CASE i # 1
    <3>1. i - 1 \in 1 .. Len(r) /\ Settles(r[i - 1])
      BY <1>4, <2>1, <2>4
    <3> QED BY <2>2, <3>1 DEF Settling
  <2> QED BY <2>3, <2>4
<1> QED BY <1>1, <1>5, <1>6, <1>7, <1>8, <1>9, <1>10, <1>11

-----------------------------------------------------------------------------
(* Views: which actions are asked for, and what becomes of the phase.       *)

InReset(p) == p.phase \in ResetFlow \cup FinalPhases

\* A call asks for steering where BOOT may be held for it, for a reset only by
\* beginning it, and leaves no reset.
Comes(p, q) ==
    /\ "START_STEERING" \in p.pending => "START_STEERING" \in q.pending
    /\ "START_STEERING" \in q.pending =>
           "START_STEERING" \in p.pending \/ p.phase = "UNPROVISIONED"
    /\ "BEGIN_LOCAL_RESET" \in q.pending => "BEGIN_LOCAL_RESET" \in p.pending \/ InReset(q)
    /\ InReset(p) => InReset(q)

\* Nothing happens to the phase, nor is steering asked for.
Stays(p, q) ==
    /\ q.phase = p.phase
    /\ "START_STEERING" \in q.pending => "START_STEERING" \in p.pending

\* The hold of BOOT that steers.
Steers(p, q) ==
    p.phase = "UNPROVISIONED" /\ q.phase = "JOINING" /\ "START_STEERING" \in q.pending

\* A reset that goes on or begins.
Resets(p, q) == InReset(q) /\ p.phase \notin {"UNPROVISIONED", "JOINING"}

LEMMA DriftComes ==
    ASSUME NEW p \in Views, NEW q \in Drift(p)
    PROVE  /\ q \in Views /\ Comes(p, q)
           /\ Stays(p, q) \/ Steers(p, q) \/ Resets(p, q)
           /\ q.phase = "FORCE_PENDING" => p.phase \in ResetFlow
<1> USE DEF Comes, Stays, Resets, InReset, ResetFlow, FinalPhases, ResultPhases
<1>0. q \in Views
  BY DriftQuiet DEF Quiet
<1>1. CASE q = p
  BY <1>0, <1>1
<1>2. CASE p.phase = "UNPROVISIONED" /\ q # p
  <2>1. q = AskFor(p, "JOINING", "START_STEERING")
    BY <1>2 DEF Drift, Due, AcceptsReset
  <2>2. "JOINING" \in Phases /\ "START_STEERING" \in Actions
    BY DEF Phases, Actions
  <2> QED BY <1>0, <1>2, <2>1, <2>2, AskForFacts DEF Steers
<1>3. CASE AcceptsReset(p.phase) /\ q # p
  <2> DEFINE a == AskFor(p, "LEAVING", "BEGIN_LOCAL_RESET")
  <2>1. q = [a EXCEPT !.left = FALSE]
    BY <1>3 DEF Drift, Due, AcceptsReset
  <2>2. "LEAVING" \in Phases /\ "BEGIN_LOCAL_RESET" \in Actions
    BY DEF Phases, Actions
  <2>3. a \in Views /\ a.phase = "LEAVING" /\ a.pending = p.pending \cup {"BEGIN_LOCAL_RESET"}
    BY <2>2, AskForFacts
  <2> HIDE DEF a
  <2>4. q.phase = a.phase /\ q.pending = a.pending
    BY <2>1, <2>3 DEF Views
  <2> QED BY <1>0, <1>3, <2>3, <2>4 DEF AcceptsReset
<1>4. CASE p.phase = "LEAVING" /\ q # p
  <2>1. \/ q = To(p, "RESULT_GRACEFUL")
        \/ q = To(p, "TERMINAL")
        \/ q = AskFor(p, "FORCE_PENDING", "ARM_FORCED_WIPE")
    <3>1. Due(p) = IF p.left THEN {To(p, "RESULT_GRACEFUL"), To(p, "TERMINAL")}
                             ELSE {AskFor(p, "FORCE_PENDING", "ARM_FORCED_WIPE")}
      BY <1>4 DEF Due, AcceptsReset
    <3>2. q \in Due(p)
      BY <1>4 DEF Drift
    <3> QED BY <3>1, <3>2, Zenon
  <2>2. /\ {"RESULT_GRACEFUL", "TERMINAL", "FORCE_PENDING"} \subseteq Phases
        /\ "ARM_FORCED_WIPE" \in Actions
    BY DEF Phases, Actions
  <2>3. CASE q = To(p, "RESULT_GRACEFUL") \/ q = To(p, "TERMINAL")
    BY <1>0, <1>4, <2>2, <2>3, ToFacts, SMTT(30)
  <2>4. CASE q = AskFor(p, "FORCE_PENDING", "ARM_FORCED_WIPE")
    BY <1>0, <1>4, <2>2, <2>4, AskForFacts
  <2> QED BY <2>1, <2>3, <2>4
<1>5. CASE p.phase \in ResultPhases /\ q # p
  <2>1. q = To(p, "TERMINAL")
    BY <1>5 DEF Drift, Due, AcceptsReset
  <2>2. "TERMINAL" \in Phases
    BY DEF Phases
  <2> QED BY <1>0, <1>5, <2>1, <2>2, ToFacts
<1>6. \/ q = p
      \/ p.phase = "UNPROVISIONED"
      \/ AcceptsReset(p.phase)
      \/ p.phase = "LEAVING"
      \/ p.phase \in ResultPhases
  BY DEF Drift, Due
<1> QED BY <1>1, <1>2, <1>3, <1>4, <1>5, <1>6

\* What the time that has passed asked for is still asked for after the call.
LEMMA ComesOn ==
    ASSUME NEW p, NEW d, NEW q, Comes(p, d), q.pending = d.pending, InReset(d) => InReset(q)
    PROVE  Comes(p, q)
BY DEF Comes

\* The phase that a message leads to, outside of a reset.
Answers(m, p, q) ==
    /\ IsCommand(m) => \/ Stays(p, q)
                       \/ p.phase \in {"READY", "POST_JOIN"} /\ q.phase = "READY"
                       \/ Steers(p, q)
    /\ IsJoined(m) /\ p.phase = "JOINING" => q.phase = "POST_JOIN"
    /\ m.kind = "STACK_STARTED" => q.phase = IF m.value THEN "UNPROVISIONED" ELSE "READY"
    /\ m.kind = "STACK_RETRYING" => q.phase = "RESTORING"
    /\ m.kind = "NETWORK_LEFT" => q.phase = IF m.value THEN "RESTORING" ELSE "UNPROVISIONED"

LEMMA StartedAnswers ==
    ASSUME NEW p \in Views, NEW m \in Messages, NEW w \in BOOLEAN, m.kind = "STACK_STARTED",
           p.phase \notin ResetFlow
    PROVE  /\ Comes(p, Started(p, m.value, w))
           /\ Resets(p, Started(p, m.value, w)) \/ Answers(m, p, Started(p, m.value, w))
<1> DEFINE q == Started(p, m.value, w)
<1>1. CASE p.phase \in FinalPhases
  <2>1. q = p
    BY <1>1 DEF Started
  <2> QED BY <1>1, <2>1 DEF Comes, Resets, InReset, Stays, FinalPhases
<1>2. CASE p.phase \notin FinalPhases
  <2> DEFINE phase == IF m.value THEN "UNPROVISIONED" ELSE "READY"
             lease == ~m.value /\ ~w
  <2>1. q = [p EXCEPT !.phase = phase, !.lease = lease, !.watchdog = w]
    BY <1>2 DEF Started
  <2> HIDE DEF phase, lease, q
  <2>2. q.phase = phase /\ q.pending = p.pending
    BY <2>1 DEF Views
  <2>3. ~InReset(p)
    BY <1>2 DEF InReset
  <2>4. Answers(m, p, q)
    BY <2>2 DEF Answers, IsCommand, IsJoined, Commands, phase
  <2> QED BY <2>2, <2>3, <2>4 DEF Comes, q
<1> QED BY <1>1, <1>2

LEMMA RetryingAnswers ==
    ASSUME NEW p \in Views, NEW m \in Messages, NEW w \in BOOLEAN, m.kind = "STACK_RETRYING"
    PROVE  /\ Comes(p, Retrying(p, w))
           /\ Resets(p, Retrying(p, w)) \/ Answers(m, p, Retrying(p, w))
<1> DEFINE q == Retrying(p, w)
<1>1. CASE InReset(p)
  <2>1. q = p
    BY <1>1 DEF Retrying, InReset
  <2> QED BY <1>1, <2>1 DEF Comes, Resets, InReset, Stays, ResetFlow, ResultPhases, FinalPhases
<1>2. CASE ~InReset(p)
  <2>1. q = [p EXCEPT !.phase = "RESTORING", !.lease = FALSE, !.watchdog = w]
    BY <1>2 DEF Retrying, InReset
  <2> HIDE DEF q
  <2>2. q.phase = "RESTORING" /\ q.pending = p.pending
    BY <2>1 DEF Views
  <2>3. Answers(m, p, q)
    BY <2>2 DEF Answers, IsCommand, IsJoined, Commands
  <2> QED BY <1>2, <2>2, <2>3 DEF Comes, q
<1> QED BY <1>1, <1>2

LEMMA JoinedAnswers ==
    ASSUME NEW p \in Views, NEW m \in Messages, m.kind = "JOINED", NEW q \in JoinedViews(p)
    PROVE  Comes(p, q) /\ (Resets(p, q) \/ Answers(m, p, q))
<1>1. PICK d \in Drift(p) : q = IF d.phase = "JOINING" THEN To(d, "POST_JOIN") ELSE d
  BY DEF JoinedViews
<1>2. d \in Views /\ Comes(p, d) /\ (Stays(p, d) \/ Steers(p, d) \/ Resets(p, d))
  BY DriftComes
<1>3. q.pending = d.pending /\ (d.phase # "JOINING" => q = d)
      /\ (d.phase = "JOINING" => q.phase = "POST_JOIN")
  BY <1>1, <1>2, ToFacts DEF Phases
<1>4. InReset(d) => InReset(q) /\ d.phase # "JOINING"
  BY <1>3 DEF InReset, ResetFlow, ResultPhases, FinalPhases
<1>5. Comes(p, q)
  BY <1>2, <1>3, <1>4, ComesOn
<1>6. Resets(p, q) \/ Answers(m, p, q)
  BY <1>2, <1>3, <1>4 DEF Answers, IsCommand, Commands, IsJoined, Steers, Stays
<1> QED BY <1>5, <1>6

LEMMA CommandAnswers ==
    ASSUME NEW p \in Views, NEW m \in Messages, IsCommand(m),
           NEW q \in ReadyViews(p) \cup PingViews(p) \cup Drift(p)
    PROVE  Comes(p, q) /\ (Resets(p, q) \/ Answers(m, p, q))
<1>1. PICK d \in Drift(p) :
        \/ q = d
        \/ d.phase \in {"READY", "POST_JOIN"} /\ q = [d EXCEPT !.phase = "READY", !.lease = TRUE]
        \/ d.phase = "READY" /\ q = [d EXCEPT !.lease = TRUE]
  BY DEF ReadyViews, PingViews
<1>2. d \in Views /\ Comes(p, d) /\ (Stays(p, d) \/ Steers(p, d) \/ Resets(p, d))
  BY DriftComes
<1>3. /\ q.pending = d.pending
      /\ q = d \/ (d.phase \in {"READY", "POST_JOIN"} /\ q.phase = "READY")
  BY <1>1, <1>2 DEF Views
<1>4. InReset(d) => InReset(q)
  BY <1>3 DEF InReset, ResetFlow, ResultPhases, FinalPhases
<1>5. Comes(p, q)
  BY <1>2, <1>3, <1>4, ComesOn
<1>6. Resets(p, q) \/ Answers(m, p, q)
  BY <1>2, <1>3, <1>4 DEF Answers, IsCommand, Commands, IsJoined, Steers, Stays, Resets, InReset, ResetFlow,
     ResultPhases, FinalPhases
<1> QED BY <1>5, <1>6

LEMMA LostAnswers ==
    ASSUME NEW p \in Views, NEW m \in Messages, m.kind = "NETWORK_LEFT",
           NEW q \in LostViews(p, m.value)
    PROVE  Comes(p, q) /\ (Resets(p, q) \/ Answers(m, p, q))
<1>1. PICK d \in Drift(p) : q \in LostFrom(d, m.value)
  BY DEF LostViews
<1>2. d \in Views /\ Comes(p, d) /\ (Stays(p, d) \/ Steers(p, d) \/ Resets(p, d))
  BY DriftComes
<1>3. CASE d.phase = "LEAVING"
  <2> DEFINE l == [d EXCEPT !.left = TRUE]
  <2>1. l \in Views /\ l.phase = "LEAVING" /\ l.pending = d.pending
    BY <1>2, <1>3 DEF Views
  <2>2. q \in Drift(l)
    BY <1>1, <1>3 DEF LostFrom, ResultPhases, FinalPhases
  <2> HIDE DEF l
  <2>3. Comes(l, q) /\ InReset(l)
    BY <2>1, <2>2, DriftComes DEF InReset, ResetFlow
  <2>4. InReset(q)
    BY <2>3 DEF Comes
  <2> QED BY <1>2, <1>3, <2>1, <2>3, <2>4 DEF Comes, Resets, Steers, Stays
<1>4. CASE d.phase \in {"FORCE_PENDING"} \cup ResultPhases \cup FinalPhases
  <2>1. q = d
    BY <1>1, <1>4 DEF LostFrom, ResultPhases, FinalPhases
  <2> QED BY <1>2, <1>4, <2>1 DEF Resets, Steers, Stays, InReset, ResetFlow, ResultPhases, FinalPhases
<1>5. CASE ~InReset(d)
  <2> DEFINE phase == IF m.value THEN "RESTORING" ELSE "UNPROVISIONED"
  <2>1. q = [d EXCEPT !.phase = phase, !.lease = FALSE]
    BY <1>1, <1>5 DEF LostFrom, InReset, ResetFlow
  <2> HIDE DEF phase
  <2>2. q.phase = phase /\ q.pending = d.pending
    BY <1>2, <2>1 DEF Views
  <2>3. Comes(p, q)
    BY <1>2, <1>5, <2>2, ComesOn
  <2>4. Answers(m, p, q)
    BY <2>2 DEF Answers, IsCommand, IsJoined, Commands, phase
  <2> QED BY <2>3, <2>4
<1> QED BY <1>3, <1>4, <1>5 DEF InReset, ResetFlow

\* A message that is handled.
LEMMA HandledAnswers ==
    ASSUME GatewayTypeOK, HandleMessage, ~Interrupted
    PROVE  /\ view' \in Views /\ Comes(view, view')
           /\ Resets(view, view') \/ Answers(Head(queue), view, view')
<1> DEFINE m == Head(queue)
<1>1. m \in Messages /\ view \in Views /\ watchdogReset \in BOOLEAN
  BY HeadTailProperties DEF HandleMessage, GatewayTypeOK
<1>2. view' \in HandledViews(m) /\ view' \in Views
  BY HandledFacts DEF HandleMessage
<1>3. m.kind = "STACK_STARTED" => view.phase \notin ResetFlow
  BY DEF HandleMessage, Interrupted
<1> HIDE DEF m
<1>4. CASE m.kind = "STACK_STARTED"
  <2>1. view' = Started(view, m.value, watchdogReset)
    BY <1>2, <1>4 DEF HandledViews
  <2> QED BY <1>1, <1>2, <1>3, <1>4, <2>1, StartedAnswers DEF m
<1>5. CASE m.kind = "STACK_RETRYING"
  <2>1. view' = Retrying(view, watchdogReset)
    BY <1>2, <1>5 DEF HandledViews
  <2> QED BY <1>1, <1>2, <1>5, <2>1, RetryingAnswers DEF m
<1>6. CASE m.kind = "JOINED"
  <2>1. view' \in JoinedViews(view)
    BY <1>2, <1>6 DEF HandledViews
  <2> QED BY <1>1, <1>2, <1>6, <2>1, JoinedAnswers DEF m
<1>7. CASE IsCommand(m)
  <2>1. view' \in ReadyViews(view) \cup PingViews(view) \cup Drift(view)
    BY <1>2, <1>7 DEF HandledViews, IsCommand, Commands
  <2> QED BY <1>1, <1>2, <1>7, <2>1, CommandAnswers DEF m
<1>8. CASE m.kind = "NETWORK_LEFT"
  <2>1. view' \in LostViews(view, m.value)
    BY <1>2, <1>8 DEF HandledViews
  <2> QED BY <1>1, <1>2, <1>8, <2>1, LostAnswers DEF m
<1> QED BY <1>1, <1>4, <1>5, <1>6, <1>7, <1>8, MessageKinds DEF IsCommand, Commands

\* The end of a cycle of the UI task.
LEMMA CycleAnswers ==
    ASSUME GatewayTypeOK, WipePending(view), FinishCycle
    PROVE  /\ view' \in Views /\ view'.pending = {}
           /\ \E p \in Drift(view) :
                /\ p \in Views /\ Comes(view, p)
                /\ Stays(view, p) \/ Steers(view, p) \/ Resets(view, p)
                /\ view'.phase = p.phase \/ (InReset(p) /\ InReset(view'))
                /\ PostFunctions(p.pending)
                /\ marker' = marker \/ view.phase \in ResetFlow
<1>1. view \in Views /\ marker \in BOOLEAN
  BY DEF GatewayTypeOK
<1>2. PICK p \in Drift(view) :
        /\ PostFunctions(p.pending)
        /\ IF "ARM_FORCED_WIPE" \in p.pending
           THEN \E success \in BOOLEAN : ArmForcedWipe(Taken(p), success)
           ELSE view' = Taken(p) /\ UNCHANGED marker
  BY DEF FinishCycle
<1>3. /\ p \in Views /\ Comes(view, p)
      /\ Stays(view, p) \/ Steers(view, p) \/ Resets(view, p)
      /\ p.phase = "FORCE_PENDING" => view.phase \in ResetFlow
  BY <1>1, DriftComes
<1> DEFINE t == Taken(p)
<1>4. t \in Views /\ t.phase = p.phase /\ t.pending = {}
  BY <1>3, TakenQuiet DEF Quiet
<1>5. CASE "ARM_FORCED_WIPE" \notin p.pending
  <2>1. view' = t /\ marker' = marker
    BY <1>2, <1>5
  <2> HIDE DEF t
  <2> QED BY <1>2, <1>3, <1>4, <2>1
<1>6. CASE "ARM_FORCED_WIPE" \in p.pending
  <2>1. PICK success \in BOOLEAN : ArmForcedWipe(t, success)
    BY <1>2, <1>6
  <2>2. p.phase = "FORCE_PENDING"
    BY <1>1, <1>6, DriftQuiet DEF Quiet, WipePending
  <2> HIDE DEF t
  <2>3. view' \in WipeViews(t, success)
    BY <2>1 DEF ArmForcedWipe
  <2>4. view' \in Views /\ Shows(view') /\ view'.pending = t.pending
    BY <1>4, <2>2, <2>3, WipedFacts
  <2>5. InReset(p) /\ InReset(view')
    BY <2>2, <2>4 DEF Shows, InReset, ResetFlow, ResultPhases
  <2> QED BY <1>2, <1>3, <1>4, <2>2, <2>4, <2>5
<1> QED BY <1>5, <1>6

-----------------------------------------------------------------------------
(* The inductive invariant behind OneCommissioning.                         *)

NothingRuns == bdb = "idle" /\ alarms["INITIALIZATION"] = 0 /\ alarms["STEERING"] = 0

\* Steering is asked for, and it is asked for, runs or waits for its retry.
Asking == "START_STEERING" \in view.pending \/ "start_steering" \in posted
Joining == Asking \/ bdb = "STEERING" \/ alarms["STEERING"] > 0

\* A local reset is asked for or runs only in a reset, which nothing leaves.
ResetInv ==
    "BEGIN_LOCAL_RESET" \in view.pending \/ "begin_local_reset" \in posted \/ resetting
        => InReset(view)

\* As long as there is a steering to come, the phase says so: no message leads
\* out of it, and there is no network.
JoiningInv == Joining => view.phase = "JOINING" /\ OnlyCommands(queue) /\ network = "new"

\* Until it runs nothing else does, and it is asked for only once.
AskingInv ==
    /\ Asking => NothingRuns
    /\ "start_steering" \in posted => "START_STEERING" \notin view.pending

\* BOOT can be held for a join only while nothing runs, ...
UnprovisionedInv ==
    view.phase = "UNPROVISIONED" => OnlyCommands(queue) /\ network = "new" /\ NothingRuns

\* ... nor does anything run when a message that leads there is on its way.
LosingInv ==
    InReset(view) \/ /\ LossIsLast(queue)
                     /\ HasLoss(queue) => network = "new" /\ NothingRuns

\* Once the network is up nothing runs, so that a rejoin finds the stack free.
OnlineInv == network = "online" => NothingRuns

\* A join is reported to a phase that waits for it.
JoinedInv == JoinedIsFirst(queue) /\ (HasJoined(queue) => view.phase = "JOINING")

CommissionInv ==
    /\ GatewayTypeOK
    /\ WipePending(view)
    /\ ResetInv
    /\ JoiningInv
    /\ AskingInv
    /\ UnprovisionedInv
    /\ LosingInv
    /\ OnlineInv
    /\ OneCommissioning
    /\ JoinedInv

LEMMA CommissionInit == GatewayInit => CommissionInv
<1> SUFFICES ASSUME GatewayInit PROVE CommissionInv
  OBVIOUS
<1>1. GatewayTypeOK
  BY TypeInit
<1>2. view.phase = "STARTING" /\ view.pending = {} /\ queue = <<>>
  BY FreshFacts DEF GatewayInit, Init
<1>3. alarms["INITIALIZATION"] = 0 /\ alarms["STEERING"] = 0
  BY DEF GatewayInit, Modes
<1>4. /\ OnlyCommands(queue) /\ LossIsLast(queue) /\ JoinedIsFirst(queue)
      /\ ~HasLoss(queue) /\ ~HasJoined(queue)
  BY <1>2, EmptyQueue
<1> QED BY <1>1, <1>2, <1>3, <1>4
        DEF GatewayInit, CommissionInv, WipePending, ResetInv, JoiningInv, Joining, Asking,
            AskingInv, UnprovisionedInv, LosingInv, OnlineInv, OneCommissioning, JoinedInv,
            NothingRuns

LEMMA AlarmsNat ==
    ASSUME GatewayTypeOK
    PROVE  alarms["INITIALIZATION"] \in Nat /\ alarms["STEERING"] \in Nat
BY DEF GatewayTypeOK, Modes

\* A retry that is scheduled, or not.
LEMMA ScheduleFacts ==
    ASSUME GatewayTypeOK, NEW mode \in Modes, ScheduleRetry(mode)
    PROVE  /\ alarms' = alarms \/ alarms'[mode] = alarms[mode] + 1
           /\ \A other \in Modes : other # mode => alarms'[other] = alarms[other]
BY DEF GatewayTypeOK, ScheduleRetry, AlarmTimerSchedule

\* A message that is posted, or lost.
LEMMA PostFacts ==
    ASSUME GatewayTypeOK, NEW kind, NEW value \in BOOLEAN, Post(kind, value),
           \/ kind \in {"STACK_STARTED", "NETWORK_LEFT"}
           \/ kind \in {"STACK_RETRYING", "JOINED"} \cup Commands /\ value = FALSE
    PROVE  /\ OnlyCommands(queue) /\ kind \in Commands => OnlyCommands(queue')
           /\ HasLoss(queue') => HasLoss(queue) \/ Loses(kind, value)
           /\ LossIsLast(queue) /\ (HasLoss(queue) => kind \in Commands) => LossIsLast(queue')
           /\ HasJoined(queue') => HasJoined(queue) \/ kind = "JOINED"
           /\ JoinedIsFirst(queue) /\ (kind = "JOINED" => OnlyCommands(queue))
                => JoinedIsFirst(queue')
           /\ Reopening(queue') => Reopening(queue) \/ Waits(kind, value)
           /\ queue' # queue /\ (Loses(kind, value) \/ kind \in {"STACK_STARTED", "JOINED"})
                => Settling(queue')
           /\ Settling(queue) /\ ~Waits(kind, value) => Settling(queue')
<1> DEFINE m == [kind |-> kind, value |-> value]
<1>1. m \in Messages /\ m.kind = kind /\ m.value = value
  BY DEF Messages
<1>2. \/ queue' = Append(queue, m)
      \/ queue' = queue
  BY DEF Post
<1> HIDE DEF m
<1>3. /\ IsCommand(m) <=> (kind \in Commands)
      /\ LosesNetwork(m) <=> Loses(kind, value)
      /\ IsJoined(m) <=> (kind = "JOINED")
      /\ Reopens(m) <=> Waits(kind, value)
      /\ Settles(m) <=> (Loses(kind, value) \/ kind \in {"STACK_STARTED", "JOINED"})
  BY <1>1 DEF IsCommand, LosesNetwork, IsJoined, Reopens, Settles
<1>4. queue \in Seq(Messages)
  BY DEF GatewayTypeOK
<1>5. CASE queue' = Append(queue, m)
  BY <1>1, <1>3, <1>4, <1>5, AppendFacts
<1>6. CASE queue' = queue
  BY <1>6
<1> QED BY <1>2, <1>5, <1>6

\* A report of the stack that is no join, posted when no loss is on its way.
LEMMA NewsFacts ==
    ASSUME GatewayTypeOK, JoinedIsFirst(queue),
           NEW kind \in {"STACK_STARTED", "STACK_RETRYING", "NETWORK_LEFT"},
           NEW value \in BOOLEAN, kind = "STACK_RETRYING" => value = FALSE, Post(kind, value)
    PROVE  /\ HasLoss(queue') => HasLoss(queue) \/ Loses(kind, value)
           /\ LossIsLast(queue) /\ ~HasLoss(queue) => LossIsLast(queue')
           /\ HasJoined(queue') => HasJoined(queue)
           /\ JoinedIsFirst(queue')
BY PostFacts DEF Commands

LEMMA CommissionStep ==
    ASSUME CommissionInv, GatewayNext, ~Interrupted
    PROVE  CommissionInv'
<1>0. /\ GatewayTypeOK /\ GatewayTypeOK' /\ queue \in Seq(Messages)
      /\ alarms["INITIALIZATION"] \in Nat /\ alarms["STEERING"] \in Nat
      /\ alarms'["INITIALIZATION"] \in Nat /\ alarms'["STEERING"] \in Nat
  <2>1. GatewayTypeOK /\ GatewayTypeOK'
    BY TypeStep DEF CommissionInv
  <2> QED BY <2>1, AlarmsNat DEF GatewayTypeOK, Modes
<1>i. /\ WipePending(view) /\ ResetInv /\ JoiningInv /\ AskingInv /\ UnprovisionedInv
      /\ LosingInv /\ OnlineInv /\ OneCommissioning /\ JoinedInv
  BY DEF CommissionInv
<1> DEFINE Goal == /\ WipePending(view) /\ ResetInv /\ JoiningInv /\ AskingInv
                   /\ UnprovisionedInv /\ LosingInv /\ OnlineInv /\ OneCommissioning
                   /\ JoinedInv
<1> SUFFICES Goal'
  BY <1>0 DEF CommissionInv
<1>k. OnlyCommands(queue) => /\ LossIsLast(queue) /\ JoinedIsFirst(queue)
                             /\ ~HasLoss(queue) /\ ~HasJoined(queue)
  BY <1>0, CommandsOnly
<1>j. JoinedIsFirst(queue)
  BY <1>i DEF JoinedInv
<1> USE DEF ui, stack, flash, boot, ResetInv, JoiningInv, AskingInv, Joining, Asking,
            UnprovisionedInv, LosingInv, OnlineInv, OneCommissioning, JoinedInv, NothingRuns
<1>1. CASE SkipStartup
  BY <1>0, <1>i, <1>1 DEF SkipStartup, WipePending
<1>2. CASE Initialized
  <2>1. /\ bdb = "INITIALIZATION" /\ bdb' = "idle"
        /\ UNCHANGED <<view, posted, alarms, resetting>>
        /\ network' = IF network = "new" THEN "new" ELSE "online"
    BY <1>2 DEF Initialized
  <2>2. ~Joining /\ view.phase # "UNPROVISIONED" /\ ~NothingRuns /\ NothingRuns'
    BY <1>0, <1>i, <2>1
  <2>3. PICK value \in BOOLEAN : Post("STACK_STARTED", value) /\ (value <=> network = "new")
    BY <1>2 DEF Initialized
  <2>4. /\ HasLoss(queue') => HasLoss(queue) \/ Loses("STACK_STARTED", value)
        /\ LossIsLast(queue) /\ ~HasLoss(queue) => LossIsLast(queue')
        /\ HasJoined(queue') => HasJoined(queue)
        /\ JoinedIsFirst(queue')
    BY <1>0, <1>j, <2>3, NewsFacts
  <2> QED BY <1>0, <1>i, <2>1, <2>2, <2>3, <2>4 DEF WipePending, Loses
<1>3. CASE NotInitialized
  <2>1. /\ bdb = "INITIALIZATION" /\ bdb' = "idle" /\ Post("STACK_RETRYING", FALSE)
        /\ UNCHANGED <<view, posted, network, resetting>>
    BY <1>3 DEF NotInitialized
  <2>2. ~Joining /\ view.phase # "UNPROVISIONED" /\ ~NothingRuns
    BY <1>0, <1>i, <2>1
  <2>3. /\ alarms' = alarms \/ alarms'["INITIALIZATION"] = alarms["INITIALIZATION"] + 1
        /\ alarms'["STEERING"] = alarms["STEERING"]
    BY <1>0, <1>3, ScheduleFacts DEF NotInitialized, Modes
  <2>4. /\ HasLoss(queue') => HasLoss(queue) \/ Loses("STACK_RETRYING", FALSE)
        /\ LossIsLast(queue) /\ ~HasLoss(queue) => LossIsLast(queue')
        /\ HasJoined(queue') => HasJoined(queue)
        /\ JoinedIsFirst(queue')
    BY <1>0, <1>j, <2>1, NewsFacts
  <2> QED BY <1>0, <1>i, <2>1, <2>2, <2>3, <2>4 DEF WipePending, Loses
<1>4. CASE Steered
  <2>1. /\ bdb = "STEERING" /\ bdb' = "idle" /\ network' = "online" /\ Post("JOINED", FALSE)
        /\ UNCHANGED <<view, posted, alarms, resetting>>
    BY <1>4 DEF Steered
  <2>2. ~Asking /\ view.phase = "JOINING" /\ OnlyCommands(queue) /\ NothingRuns'
    BY <1>0, <1>i, <2>1
  <2>3. /\ HasLoss(queue') => HasLoss(queue) \/ Loses("JOINED", FALSE)
        /\ LossIsLast(queue) /\ (HasLoss(queue) => "JOINED" \in Commands) => LossIsLast(queue')
        /\ JoinedIsFirst(queue) /\ ("JOINED" = "JOINED" => OnlyCommands(queue))
              => JoinedIsFirst(queue')
    BY <1>0, <2>1, PostFacts
  <2> QED BY <1>0, <1>i, <1>k, <2>1, <2>2, <2>3 DEF WipePending, Loses
<1>5. CASE NotSteered
  <2>1. /\ bdb = "STEERING" /\ bdb' = "idle"
        /\ UNCHANGED <<view, queue, posted, network, resetting>>
    BY <1>5 DEF NotSteered
  <2>2. /\ alarms' = alarms \/ alarms'["STEERING"] = alarms["STEERING"] + 1
        /\ alarms'["INITIALIZATION"] = alarms["INITIALIZATION"]
    BY <1>0, <1>5, ScheduleFacts DEF NotSteered, Modes
  <2> QED BY <1>0, <1>i, <1>k, <2>1, <2>2 DEF WipePending
<1>6. ASSUME NEW mode \in Modes, RetryTimer(mode)
      PROVE  Goal'
  <2>1. /\ alarms[mode] > 0 /\ alarms'[mode] = alarms[mode] - 1
        /\ \A other \in Modes : other # mode => alarms'[other] = alarms[other]
        /\ bdb' = bdb \/ bdb' = mode
        /\ UNCHANGED <<view, queue, posted, network, resetting>>
    BY <1>0, <1>6 DEF RetryTimer, AlarmTimerFired, GatewayTypeOK
  <2>2. CASE mode = "INITIALIZATION"
    <3>1. alarms'["STEERING"] = alarms["STEERING"]
      BY <2>1, <2>2 DEF Modes
    <3> QED BY <1>0, <1>i, <2>1, <2>2, <3>1 DEF WipePending
  <2>3. CASE mode = "STEERING"
    <3>1. alarms'["INITIALIZATION"] = alarms["INITIALIZATION"]
      BY <2>1, <2>3 DEF Modes
    <3>2. /\ alarms["STEERING"] = 1 /\ alarms["INITIALIZATION"] = 0 /\ bdb = "idle"
          /\ bdb' \in {"idle", "STEERING"} /\ alarms'["STEERING"] = 0
      BY <1>0, <1>i, <2>1, <2>3
    <3>3. /\ ~Asking /\ ~Asking' /\ view.phase = "JOINING" /\ OnlyCommands(queue)
          /\ network = "new"
      BY <1>i, <2>1, <3>2
    <3> QED BY <1>i, <1>k, <2>1, <3>1, <3>2, <3>3 DEF WipePending
  <2> QED BY <2>2, <2>3 DEF Modes
<1>7. CASE StartSteering
  <2>1. /\ "start_steering" \in posted /\ posted' = posted \ {"start_steering"}
        /\ UNCHANGED <<view, queue, network, resetting>>
        /\ \/ bdb' = "STEERING" /\ UNCHANGED alarms
           \/ UNCHANGED bdb /\ ScheduleRetry("STEERING")
    BY <1>7 DEF StartSteering
  <2>2. NothingRuns /\ view.phase = "JOINING" /\ OnlyCommands(queue) /\ network = "new"
    BY <1>i, <2>1
  <2>3. ~Asking'
    BY <1>i, <2>1
  <2>4. CASE bdb' = "STEERING" /\ UNCHANGED alarms
    <3>1. alarms'["INITIALIZATION"] = 0 /\ alarms'["STEERING"] = 0
      BY <2>2, <2>4
    <3>2. ResetInv'
      BY <1>i, <2>1
    <3> QED BY <1>i, <1>k, <2>1, <2>2, <2>3, <2>4, <3>1, <3>2 DEF WipePending
  <2>5. CASE UNCHANGED bdb /\ ScheduleRetry("STEERING")
    <3>1. /\ alarms' = alarms \/ alarms'["STEERING"] = alarms["STEERING"] + 1
          /\ alarms'["INITIALIZATION"] = alarms["INITIALIZATION"]
      BY <1>0, <2>5, ScheduleFacts DEF Modes
    <3> QED BY <1>0, <1>i, <1>k, <2>1, <2>2, <2>3, <2>5, <3>1 DEF WipePending
  <2> QED BY <2>1, <2>4, <2>5
<1>8. CASE BeginLocalReset
  BY <1>0, <1>i, <1>8 DEF BeginLocalReset, WipePending
<1>9. CASE ResetLeaves
  <2>1. /\ resetting /\ InReset(view) /\ resetting' = FALSE /\ network' = "new"
        /\ UNCHANGED <<view, posted, alarms, bdb>>
        /\ queue' = queue \/ Post("NETWORK_LEFT", FALSE)
    BY <1>i, <1>9 DEF ResetLeaves
  <2>2. view.phase \notin {"JOINING", "UNPROVISIONED"}
    BY <2>1 DEF InReset, ResetFlow, ResultPhases, FinalPhases
  <2>3. /\ HasJoined(queue') => HasJoined(queue)
        /\ JoinedIsFirst(queue')
    BY <1>0, <1>j, <2>1, NewsFacts
  <2> QED BY <1>0, <1>i, <2>1, <2>2, <2>3 DEF WipePending
<1>10. CASE CoordinatorRemoves
  <2>1. PICK value \in BOOLEAN :
            /\ Post("NETWORK_LEFT", value)
            /\ IF value THEN network' = "offline" /\ bdb' = "INITIALIZATION"
                        ELSE network' = "new" /\ UNCHANGED bdb
    BY <1>10 DEF CoordinatorRemoves
  <2>2. /\ network = "online" /\ bdb = "idle" /\ UNCHANGED <<view, posted, alarms, resetting>>
    BY <1>10 DEF CoordinatorRemoves
  <2>3. NothingRuns /\ ~Joining /\ view.phase # "UNPROVISIONED"
    BY <1>0, <1>i, <2>2
  <2>4. /\ HasLoss(queue') => HasLoss(queue) \/ Loses("NETWORK_LEFT", value)
        /\ LossIsLast(queue) /\ ~HasLoss(queue) => LossIsLast(queue')
        /\ HasJoined(queue') => HasJoined(queue)
        /\ JoinedIsFirst(queue')
    BY <1>0, <1>j, <2>1, NewsFacts
  <2> QED BY <1>0, <1>i, <2>1, <2>2, <2>3, <2>4 DEF WipePending, Loses
<1>11. CASE Supervise
  <2>1. PICK kind \in Commands : Post(kind, FALSE)
    BY <1>11 DEF Supervise
  <2>2. UNCHANGED <<view, posted, alarms, bdb, resetting, network>>
    BY <1>11 DEF Supervise
  <2>3. /\ OnlyCommands(queue) /\ kind \in Commands => OnlyCommands(queue')
        /\ HasLoss(queue') => HasLoss(queue) \/ Loses(kind, FALSE)
        /\ LossIsLast(queue) /\ (HasLoss(queue) => kind \in Commands) => LossIsLast(queue')
        /\ HasJoined(queue') => HasJoined(queue) \/ kind = "JOINED"
        /\ JoinedIsFirst(queue) /\ (kind = "JOINED" => OnlyCommands(queue))
              => JoinedIsFirst(queue')
    BY <1>0, <2>1, PostFacts
  <2>4. kind \notin {"STACK_STARTED", "NETWORK_LEFT", "JOINED"}
    BY <2>1 DEF Commands
  <2> QED BY <1>0, <1>i, <1>j, <2>1, <2>2, <2>3, <2>4 DEF WipePending, Loses
<1>12. ASSUME NEW watchdog \in BOOLEAN, Reboot(watchdog)
       PROVE  Goal'
  <2>1. view'.phase = "STARTING" /\ view'.pending = {} /\ queue' = <<>>
    BY <1>12, FreshFacts DEF Reboot
  <2>2. /\ LossIsLast(queue') /\ JoinedIsFirst(queue') /\ ~HasLoss(queue') /\ ~HasJoined(queue')
    BY <2>1, EmptyQueue
  <2>3. alarms'["INITIALIZATION"] = 0 /\ alarms'["STEERING"] = 0
    BY <1>12 DEF Reboot, Modes
  <2> QED BY <1>12, <2>1, <2>2, <2>3 DEF Reboot, WipePending
<1>13. CASE ApplyWipe
  BY <1>0, <1>i, <1>13 DEF ApplyWipe, WipePending
<1>14. CASE CleanUp \/ StartTasks
  <2>1. UNCHANGED <<view, queue, posted, alarms, bdb, resetting, network>>
    BY <1>14 DEF CleanUp, StartTasks
  <2> QED BY <1>i, <2>1 DEF WipePending
<1>15. CASE HandleMessage
  <2> DEFINE m == Head(queue)
  <2>1. /\ UNCHANGED <<posted, alarms, bdb, resetting, network>>
        /\ queue # <<>> /\ queue' = Tail(queue)
    BY <1>15 DEF HandleMessage
  <2>2. /\ m \in Messages
        /\ OnlyCommands(queue) => OnlyCommands(queue') /\ IsCommand(m)
        /\ HasLoss(queue') \/ LosesNetwork(m) => HasLoss(queue)
        /\ LossIsLast(queue) => LossIsLast(queue') /\ (LosesNetwork(m) => OnlyCommands(queue'))
        /\ HasJoined(queue') \/ IsJoined(m) => HasJoined(queue)
        /\ JoinedIsFirst(queue) => JoinedIsFirst(queue') /\ (HasJoined(queue') => IsCommand(m))
    BY <1>0, <2>1, TailFacts
  <2>3. /\ view' \in Views /\ Comes(view, view')
        /\ Resets(view, view') \/ Answers(m, view, view')
    BY <1>0, <1>15, HandledAnswers
  <2>4. WipePending(view') /\ (InReset(view) => InReset(view'))
    BY <1>0, <1>i, <1>15, <2>3, HandledFacts DEF Quiet, Comes
  <2>5. /\ m.value \in BOOLEAN
        /\ m.kind \in {"STACK_STARTED", "NETWORK_LEFT", "STACK_RETRYING", "JOINED",
                       "READY", "LEASE_PING", "GATEWAY_EVENT"}
        /\ IsCommand(m) => ~LosesNetwork(m) /\ ~IsJoined(m)
    BY <2>2, MessageKinds
  <2> HIDE DEF m
  <2>6. CASE Resets(view, view')
    <3>1. ~Joining /\ ~HasJoined(queue) /\ ~Joining'
      BY <1>i, <2>1, <2>3, <2>6 DEF Resets, Comes
    <3>2. InReset(view') /\ view'.phase \notin {"UNPROVISIONED", "JOINING"}
      BY <2>6 DEF Resets, InReset, ResetFlow, ResultPhases, FinalPhases
    <3> QED BY <1>i, <1>j, <2>1, <2>2, <2>4, <3>1, <3>2
  <2>7. CASE ~InReset(view') /\ Answers(m, view, view')
    <3>1. ~InReset(view) /\ ResetInv'
      BY <1>i, <2>1, <2>3, <2>4, <2>7 DEF Comes
    <3>2. CASE Joining
      <4>1. view.phase = "JOINING" /\ OnlyCommands(queue') /\ IsCommand(m) /\ network' = "new"
        BY <1>i, <2>1, <2>2, <3>2
      <4>2. view'.phase = "JOINING"
        BY <2>7, <4>1 DEF Answers, Steers, Stays
      <4>3. "START_STEERING" \in view'.pending <=> "START_STEERING" \in view.pending
        BY <2>3, <4>1 DEF Comes
      <4>4. /\ LossIsLast(queue') /\ ~HasLoss(queue')
            /\ JoinedIsFirst(queue') /\ ~HasJoined(queue')
        BY <1>0, <1>i, <1>k, <2>2, <3>2
      <4> QED BY <1>i, <2>1, <2>4, <3>1, <4>1, <4>2, <4>3, <4>4
    <3>3. CASE view.phase = "UNPROVISIONED"
      <4>1. /\ ~Joining /\ OnlyCommands(queue') /\ IsCommand(m) /\ network' = "new"
            /\ NothingRuns'
        BY <1>i, <2>1, <2>2, <3>3
      <4>2. Stays(view, view') \/ Steers(view, view')
        BY <2>7, <3>3, <4>1 DEF Answers
      <4>3. /\ LossIsLast(queue') /\ ~HasLoss(queue')
            /\ JoinedIsFirst(queue') /\ ~HasJoined(queue')
        BY <1>i, <1>k, <2>2, <3>3
      <4>4. "start_steering" \notin posted'
        BY <2>1, <4>1
      <4>5. CASE Stays(view, view')
        <5>1. ~Joining' /\ view'.phase = "UNPROVISIONED"
          BY <2>1, <3>3, <4>1, <4>5 DEF Stays
        <5> QED BY <1>i, <2>1, <2>4, <3>1, <4>1, <4>3, <5>1
      <4>6. CASE Steers(view, view')
        BY <1>i, <2>1, <2>4, <3>1, <4>1, <4>3, <4>4, <4>6 DEF Steers
      <4> QED BY <4>2, <4>5, <4>6
    <3>4. CASE ~Joining /\ view.phase # "UNPROVISIONED"
      <4>1. ~Joining'
        BY <2>1, <2>3, <3>4 DEF Comes
      <4>2. LossIsLast(queue') /\ (HasLoss(queue') => network' = "new" /\ NothingRuns')
        BY <1>i, <2>1, <2>2, <3>1
      <4>3. view'.phase = "UNPROVISIONED" => LosesNetwork(m)
        BY <2>5, <2>7, <3>4, <1>i, <2>2
           DEF Answers, Steers, Stays, IsCommand, IsJoined, Commands, LosesNetwork, Loses
      <4>4. UnprovisionedInv'
        BY <1>i, <2>1, <2>2, <3>1, <4>3
      <4>5. HasJoined(queue') => view'.phase = "JOINING"
        <5>1. HasJoined(queue') => view.phase = "JOINING" /\ IsCommand(m)
          BY <1>i, <2>2
        <5> QED BY <2>7, <5>1 DEF Answers, Steers, Stays
      <4> QED BY <1>i, <1>j, <2>1, <2>2, <2>4, <3>1, <4>1, <4>2, <4>4, <4>5
    <3> QED BY <3>2, <3>3, <3>4
  <2>8. InReset(view') => Resets(view, view')
    <3>1. ASSUME Answers(m, view, view'), view.phase \in {"UNPROVISIONED", "JOINING"}
          PROVE  ~InReset(view')
      <4>1. IsJoined(m) => view.phase = "JOINING"
        BY <1>i, <2>2
      <4> QED BY <2>5, <3>1, <4>1 DEF Answers, Steers, Stays, IsCommand, IsJoined, Commands, InReset,
                 ResetFlow, ResultPhases, FinalPhases
    <3> QED BY <2>3, <3>1 DEF Resets
  <2> QED BY <2>3, <2>6, <2>7, <2>8
<1>16. CASE FinishCycle
  <2>1. /\ queue = <<>> /\ UNCHANGED <<queue, alarms, bdb, resetting, network>>
        /\ LossIsLast(queue) /\ JoinedIsFirst(queue) /\ ~HasLoss(queue) /\ ~HasJoined(queue)
        /\ OnlyCommands(queue)
    BY <1>16, EmptyQueue DEF FinishCycle
  <2>2. /\ view' \in Views /\ view'.pending = {}
    BY <1>0, <1>i, <1>16, CycleAnswers
  <2>3. PICK p \in Drift(view) :
            /\ p \in Views /\ Comes(view, p)
            /\ Stays(view, p) \/ Steers(view, p) \/ Resets(view, p)
            /\ view'.phase = p.phase \/ (InReset(p) /\ InReset(view'))
            /\ PostFunctions(p.pending)
    BY <1>0, <1>i, <1>16, CycleAnswers
  <2>4. /\ "start_steering" \in posted' =>
               "start_steering" \in posted \/ "START_STEERING" \in p.pending
        /\ "begin_local_reset" \in posted' =>
               "begin_local_reset" \in posted \/ "BEGIN_LOCAL_RESET" \in p.pending
    BY <2>3 DEF PostFunctions, PostedFor
  <2>5. InReset(view') <=> InReset(p)
    BY <2>3 DEF InReset
  <2>6. WipePending(view') /\ ResetInv'
    BY <1>i, <2>1, <2>2, <2>3, <2>4, <2>5 DEF Comes, WipePending
  <2>7. CASE Resets(view, p)
    <3>1. ~Asking /\ "START_STEERING" \notin p.pending /\ InReset(view')
      BY <1>i, <2>3, <2>5, <2>7 DEF Resets, Comes
    <3>2. ~Joining'
      BY <1>i, <2>1, <2>2, <2>4, <2>7, <3>1 DEF Resets
    <3>3. view'.phase \notin {"UNPROVISIONED", "JOINING"}
      BY <3>1 DEF InReset, ResetFlow, ResultPhases, FinalPhases
    <3> QED BY <1>i, <2>1, <2>6, <3>2, <3>3
  <2>8. CASE Stays(view, p) /\ ~InReset(p)
    <3>1. view'.phase = view.phase /\ (Joining' => Joining) /\ (Asking' => Asking)
      BY <2>1, <2>2, <2>3, <2>4, <2>8 DEF Stays
    <3>2. "start_steering" \in posted' => "START_STEERING" \notin view'.pending
      BY <2>2
    <3>3. ~InReset(view)
      BY <2>3, <2>8 DEF Comes
    <3> QED BY <1>i, <2>1, <2>6, <3>1, <3>2, <3>3
  <2>9. CASE Steers(view, p)
    <3>1. /\ view.phase = "UNPROVISIONED" /\ view'.phase = "JOINING" /\ network = "new"
          /\ NothingRuns
      BY <1>i, <2>3, <2>9 DEF Steers, InReset, ResetFlow, ResultPhases, FinalPhases
    <3>2. NothingRuns' /\ network' = "new" /\ view'.phase # "UNPROVISIONED"
      BY <2>1, <3>1
    <3> QED BY <1>i, <2>1, <2>2, <2>6, <3>1, <3>2
  <2>10. Stays(view, p) /\ InReset(p) => Resets(view, p)
    BY DEF Stays, Resets, InReset, ResetFlow, ResultPhases, FinalPhases
  <2> QED BY <2>3, <2>7, <2>8, <2>9, <2>10
<1> QED
  BY <1>1, <1>2, <1>3, <1>4, <1>5, <1>6, <1>7, <1>8, <1>9, <1>10, <1>11, <1>12, <1>13, <1>14,
     <1>15, <1>16
     DEF GatewayNext, PowerCycle, LeaseWatchdogReset

-----------------------------------------------------------------------------

LEMMA CommissionStutters == CommissionInv /\ UNCHANGED vars => CommissionInv'
BY DEF vars, ui, stack, flash, boot, CommissionInv, GatewayTypeOK, WipePending, ResetInv,
       JoiningInv, AskingInv, Joining, Asking, UnprovisionedInv, LosingInv, OnlineInv,
       OneCommissioning, JoinedInv, NothingRuns

\* At most one commissioning runs or waits for its retry.  The steering of a BOOT
\* hold, the retry timers and the start of the stack after a rejoin come from three
\* tasks (cr11_bridge.c:78-104, 295-404), and none of them finds the stack busy.
THEOREM OneCommissioningTheorem == UninterruptedSpec => []OneCommissioning
<1>1. CommissionInv /\ [GatewayNext /\ ~Interrupted]_vars => CommissionInv'
  BY CommissionStep, CommissionStutters
<1>2. CommissionInv => OneCommissioning
  BY DEF CommissionInv
<1> QED BY <1>1, <1>2, CommissionInit, PTL DEF UninterruptedSpec

-----------------------------------------------------------------------------
(* A gateway that waits has something to wait for.                          *)

Waiting == {"STARTING", "RESTORING", "JOINING"}

\* Nothing is under way, ...
Still == NothingRuns /\ ~Asking /\ ~InReset(view)

\* ... so that the phase does not wait for anything, or a message on its way ends
\* the wait.
Settled == (view.phase \notin Waiting /\ ~Reopening(queue)) \/ Settling(queue)

RestInv == ~abandoned /\ Still => Settled

LEMMA RestInit == GatewayInit => RestInv
BY DEF GatewayInit, RestInv, Still, NothingRuns

\* What the record says of a step after which nothing has been abandoned.
LEMMA NotAbandoned ==
    ASSUME Record, ~abandoned'
    PROVE  Rebooted \/ (~abandoned /\ ~NoFirstStart /\ ~NoRetry /\ ~NoTimer /\ ~NoSteering /\ ~NoReport)
BY DEF Record

LEMMA RestStep ==
    ASSUME CommissionInv, RestInv, GatewayNext, ~Interrupted, Record
    PROVE  RestInv'
<1> SUFFICES ASSUME ~abandoned', Still' PROVE Settled'
  BY DEF RestInv
<1>0. /\ GatewayTypeOK /\ GatewayTypeOK' /\ queue \in Seq(Messages)
      /\ alarms["INITIALIZATION"] \in Nat /\ alarms["STEERING"] \in Nat
      /\ alarms'["INITIALIZATION"] \in Nat /\ alarms'["STEERING"] \in Nat
  <2>1. GatewayTypeOK /\ GatewayTypeOK'
    BY TypeStep DEF CommissionInv
  <2> QED BY <2>1, AlarmsNat DEF GatewayTypeOK, Modes
<1>i. /\ WipePending(view) /\ ResetInv /\ JoiningInv /\ AskingInv /\ JoinedInv /\ OnlineInv
  BY DEF CommissionInv
<1>r. Still => Settled \/ abandoned
  BY DEF RestInv
<1>s. /\ bdb' = "idle" /\ alarms'["INITIALIZATION"] = 0 /\ alarms'["STEERING"] = 0
      /\ "START_STEERING" \notin view'.pending /\ "start_steering" \notin posted'
      /\ ~InReset(view')
  BY DEF Still, NothingRuns, Asking
<1>a. ~Rebooted => /\ ~abandoned /\ ~NoFirstStart /\ ~NoRetry /\ ~NoTimer /\ ~NoSteering
                   /\ ~NoReport
  BY NotAbandoned
<1>b. UNCHANGED boots => ~Rebooted
  BY DEF Rebooted
<1> USE DEF ui, stack, flash, boot
<1>1. CASE SkipStartup
  BY <1>a, <1>b, <1>s, <1>1 DEF SkipStartup, NoFirstStart
<1>2. CASE Initialized
  <2>1. PICK value \in BOOLEAN : Post("STACK_STARTED", value)
    BY <1>2 DEF Initialized
  <2>2. queue' # queue
    BY <1>a, <1>b, <1>2 DEF NoReport, Initialized
  <2>3. queue' # queue
            /\ (Loses("STACK_STARTED", value) \/ "STACK_STARTED" \in {"STACK_STARTED", "JOINED"})
          => Settling(queue')
    BY <1>0, <2>1, PostFacts
  <2> QED BY <2>2, <2>3 DEF Settled
<1>3. CASE NotInitialized
  <2>1. alarms' # alarms
    BY <1>a, <1>b, <1>s, <1>3 DEF NoTimer, NotInitialized
  <2>2. alarms' = alarms \/ alarms'["INITIALIZATION"] = alarms["INITIALIZATION"] + 1
    BY <1>0, <1>3, ScheduleFacts DEF NotInitialized, Modes
  <2> QED BY <1>0, <1>s, <2>1, <2>2
<1>4. CASE Steered
  <2>1. queue' # queue /\ Post("JOINED", FALSE)
    BY <1>a, <1>b, <1>4 DEF NoReport, Steered
  <2>2. queue' # queue
            /\ (Loses("JOINED", FALSE) \/ "JOINED" \in {"STACK_STARTED", "JOINED"})
          => Settling(queue')
    BY <1>0, <2>1, PostFacts
  <2> QED BY <2>1, <2>2 DEF Settled
<1>5. CASE NotSteered
  <2>1. alarms' # alarms
    BY <1>a, <1>b, <1>s, <1>5 DEF NoTimer, NotSteered
  <2>2. alarms' = alarms \/ alarms'["STEERING"] = alarms["STEERING"] + 1
    BY <1>0, <1>5, ScheduleFacts DEF NotSteered, Modes
  <2> QED BY <1>0, <1>s, <2>1, <2>2
<1>6. ASSUME NEW mode \in Modes, RetryTimer(mode)
      PROVE  Settled'
  <2>1. alarms[mode] > 0 /\ alarms'[mode] = alarms[mode] - 1 /\ alarms[mode] \in Nat
    BY <1>0, <1>6 DEF RetryTimer, AlarmTimerFired, GatewayTypeOK
  <2>2. bdb' # bdb
    BY <1>a, <1>b, <1>6, <2>1 DEF NoRetry, RetryTimer
  <2> QED BY <1>s, <1>6, <2>2 DEF RetryTimer, Modes
<1>7. CASE StartSteering
  <2>1. bdb = "idle"
    BY <1>i, <1>7 DEF AskingInv, Asking, NothingRuns, StartSteering
  <2>2. ScheduleRetry("STEERING")
    BY <1>s, <1>7 DEF StartSteering
  <2>3. alarms' # alarms
    BY <1>a, <1>b, <1>s, <1>7 DEF NoTimer, StartSteering
  <2>4. alarms' = alarms \/ alarms'["STEERING"] = alarms["STEERING"] + 1
    BY <1>0, <2>2, ScheduleFacts DEF Modes
  <2> QED BY <1>0, <1>s, <2>3, <2>4
<1>8. CASE BeginLocalReset
  BY <1>i, <1>s, <1>8 DEF BeginLocalReset, ResetInv
<1>9. CASE ResetLeaves
  BY <1>i, <1>s, <1>9 DEF ResetLeaves, ResetInv
<1>10. CASE CoordinatorRemoves
  <2>1. Post("NETWORK_LEFT", FALSE) /\ UNCHANGED <<view, posted, alarms, bdb, boots>>
    BY <1>s, <1>10 DEF CoordinatorRemoves
  <2>2. Still /\ Settled
    BY <1>a, <1>b, <1>r, <1>s, <2>1 DEF Still, NothingRuns, Asking
  <2>3. queue' # queue /\ (Loses("NETWORK_LEFT", FALSE)
                            \/ "NETWORK_LEFT" \in {"STACK_STARTED", "JOINED"})
          => Settling(queue')
    BY <1>0, <2>1, PostFacts
  <2>4. Loses("NETWORK_LEFT", FALSE)
    BY DEF Loses
  <2>5. CASE queue' = queue
    BY <2>1, <2>2, <2>5 DEF Settled
  <2> QED BY <2>3, <2>4, <2>5 DEF Settled
<1>11. CASE Supervise
  <2>1. PICK kind \in Commands : Post(kind, FALSE)
    BY <1>11 DEF Supervise
  <2>2. Still /\ Settled /\ view' = view
    BY <1>a, <1>b, <1>r, <1>s, <1>11 DEF Still, NothingRuns, Asking, Supervise
  <2>3. ~Waits(kind, FALSE)
    BY <2>1 DEF Waits, Commands
  <2>4. /\ Reopening(queue') => Reopening(queue) \/ Waits(kind, FALSE)
        /\ Settling(queue) /\ ~Waits(kind, FALSE) => Settling(queue')
    BY <1>0, <2>1, PostFacts
  <2> QED BY <2>2, <2>3, <2>4 DEF Settled
<1>12. ASSUME NEW watchdog \in BOOLEAN, Reboot(watchdog)
       PROVE  Settled'
  BY <1>s, <1>12 DEF Reboot
<1>13. CASE ApplyWipe \/ CleanUp \/ StartTasks
  <2>1. UNCHANGED <<view, queue, posted, alarms, bdb, boots>>
    BY <1>13 DEF ApplyWipe, CleanUp, StartTasks
  <2>2. Still /\ Settled
    BY <1>a, <1>b, <1>r, <1>s, <2>1 DEF Still, NothingRuns, Asking
  <2> QED BY <2>1, <2>2 DEF Settled
<1>14. CASE HandleMessage
  <2> DEFINE m == Head(queue)
  <2>1. /\ UNCHANGED <<posted, alarms, bdb, boots>>
        /\ queue # <<>> /\ queue' = Tail(queue)
    BY <1>14 DEF HandleMessage
  <2>2. /\ m \in Messages
        /\ HasJoined(queue') \/ IsJoined(m) => HasJoined(queue)
        /\ Reopening(queue') \/ Reopens(m) => Reopening(queue)
        /\ Settling(queue) => Settling(queue') \/ (Settles(m) /\ ~Reopening(queue'))
    BY <1>0, <2>1, TailFacts
  <2>3. Comes(view, view') /\ (Resets(view, view') \/ Answers(m, view, view'))
    BY <1>0, <1>14, HandledAnswers
  <2>4. m.value \in BOOLEAN
        /\ m.kind \in {"STACK_STARTED", "NETWORK_LEFT", "STACK_RETRYING", "JOINED",
                       "READY", "LEASE_PING", "GATEWAY_EVENT"}
    BY <2>2, MessageKinds
  <2> HIDE DEF m
  <2>5. Still /\ Settled
    <3>1. "START_STEERING" \notin view.pending /\ ~InReset(view)
      BY <1>s, <2>3 DEF Comes
    <3>2. Still
      BY <1>s, <2>1, <3>1 DEF Still, NothingRuns, Asking
    <3> QED BY <1>a, <1>b, <1>r, <2>1, <3>2
  <2>6. Answers(m, view, view')
    BY <1>s, <2>3 DEF Resets
  <2>7. CASE Settling(queue) /\ ~Settling(queue')
    <3>1. Settles(m) /\ ~Reopening(queue')
      BY <2>2, <2>7
    <3>2. IsJoined(m) => view.phase = "JOINING"
      BY <1>i, <2>2 DEF JoinedInv
    <3>3. view'.phase \notin Waiting
      BY <2>4, <2>6, <3>1, <3>2 DEF Answers, Settles, LosesNetwork, Loses, IsJoined, Waiting
    <3> QED BY <3>1, <3>3 DEF Settled
  <2>8. CASE view.phase \notin Waiting /\ ~Reopening(queue)
    <3>1. ~Reopening(queue') /\ ~Reopens(m) /\ ~IsJoined(m)
      BY <1>i, <2>2, <2>8 DEF JoinedInv, Waiting
    <3>2. view'.phase \notin Waiting
      BY <1>s, <2>4, <2>6, <2>8, <3>1
         DEF Answers, Stays, Steers, Reopens, Waits, IsJoined, IsCommand, Commands, Waiting
    <3> QED BY <3>1, <3>2 DEF Settled
  <2> QED BY <2>5, <2>7, <2>8 DEF Settled
<1>15. CASE FinishCycle
  <2>1. /\ queue = <<>> /\ UNCHANGED <<queue, alarms, bdb, boots>>
        /\ ~Reopening(queue) /\ ~Settling(queue)
    BY <1>15, EmptyQueue DEF FinishCycle
  <2>2. PICK p \in Drift(view) :
            /\ Comes(view, p)
            /\ Stays(view, p) \/ Steers(view, p) \/ Resets(view, p)
            /\ view'.phase = p.phase \/ (InReset(p) /\ InReset(view'))
            /\ PostFunctions(p.pending)
    BY <1>0, <1>i, <1>15, CycleAnswers
  <2>3. posted \subseteq posted'
    BY <2>2 DEF PostFunctions
  <2>4. view'.phase = p.phase /\ ~InReset(view) /\ ~Resets(view, p)
    BY <1>s, <2>2 DEF Comes, Resets, InReset
  <2>5. ~(view'.phase = "JOINING"
            /\ (view.phase # "JOINING" \/ "START_STEERING" \in view.pending))
    BY <1>a, <1>b, <1>s, <1>15, <2>1 DEF NoSteering
  <2>6. ~Steers(view, p)
    BY <2>4, <2>5 DEF Steers
  <2>7. view'.phase = view.phase
    BY <2>2, <2>4, <2>6 DEF Stays
  <2>8. ~Asking
    BY <1>i, <1>s, <2>3, <2>5, <2>7 DEF JoiningInv, Joining, Asking
  <2>9. Still /\ Settled
    BY <1>a, <1>b, <1>r, <1>s, <2>1, <2>4, <2>8 DEF Still, NothingRuns
  <2> QED BY <2>1, <2>7, <2>9 DEF Settled
<1> QED
  BY <1>1, <1>2, <1>3, <1>4, <1>5, <1>6, <1>7, <1>8, <1>9, <1>10, <1>11, <1>12, <1>13, <1>14,
     <1>15
     DEF GatewayNext, PowerCycle, LeaseWatchdogReset

LEMMA HistoryStutters ==
    CommissionInv /\ RestInv /\ UNCHANGED histories => (CommissionInv /\ RestInv)'
<1> SUFFICES ASSUME CommissionInv, RestInv, UNCHANGED histories
             PROVE  CommissionInv' /\ RestInv'
  OBVIOUS
<1>1. CommissionInv'
  BY CommissionStutters DEF histories
<1>2. RestInv'
  BY DEF histories, vars, ui, stack, flash, boot, RestInv, Still, Settled, NothingRuns, Asking
<1> QED BY <1>1, <1>2

\* A gateway whose light waits for a network has a commissioning, a retry timer, a
\* steering or a message to wait for, unless one of five calls that the code does
\* not repeat has failed since the boot (cr11_bridge.c:78-104, 295-404).
THEOREM NeverStrandedTheorem == HistorySpec => []NeverStranded
<1>1. HistoryInit => CommissionInv /\ RestInv
  BY CommissionInit, RestInit DEF HistoryInit
<1>2. CommissionInv /\ RestInv /\ [GatewayNext /\ ~Interrupted /\ Record]_histories
        => (CommissionInv /\ RestInv)'
  BY CommissionStep, RestStep, HistoryStutters
<1>3. CommissionInv /\ RestInv => NeverStranded
  <2> SUFFICES ASSUME RestInv, Stranded PROVE abandoned
    BY DEF NeverStranded
  <2>1. Still
    BY DEF Stranded, Still, NothingRuns, Asking, Modes, InReset, ResetFlow, ResultPhases,
           FinalPhases
  <2>2. queue = <<>> /\ view.phase \in Waiting
    BY DEF Stranded, Waiting
  <2>3. ~Settled
    BY <2>2, EmptyQueue DEF Settled
  <2> QED BY <2>1, <2>3 DEF RestInv
<1> QED BY <1>1, <1>2, <1>3, PTL DEF HistorySpec

-----------------------------------------------------------------------------
(* No join without BOOT.                                                    *)

AskedInv == Joining => asked

\* A steering that runs or waits was asked for before, and the asking itself takes
\* no network away.
LEMMA JoiningStep ==
    ASSUME CommissionInv, GatewayNext, ~Interrupted, Joining'
    PROVE  ~Rebooted /\ ~Lost /\ (Joining \/ Asking')
<1>0. /\ GatewayTypeOK /\ GatewayTypeOK'
      /\ alarms["INITIALIZATION"] \in Nat /\ alarms["STEERING"] \in Nat
      /\ alarms'["INITIALIZATION"] \in Nat /\ alarms'["STEERING"] \in Nat
  <2>1. GatewayTypeOK /\ GatewayTypeOK'
    BY TypeStep DEF CommissionInv
  <2> QED BY <2>1, AlarmsNat DEF GatewayTypeOK, Modes
<1>i. (Joining => network = "new") /\ (network = "online" => NothingRuns)
  BY DEF CommissionInv, JoiningInv, OnlineInv
<1>j. \/ "START_STEERING" \in view'.pending \/ "start_steering" \in posted'
      \/ bdb' = "STEERING" \/ alarms'["STEERING"] > 0
  BY DEF Joining, Asking
<1> USE DEF ui, stack, flash, boot, Rebooted, Lost
<1>1. CASE SkipStartup \/ Initialized \/ ResetLeaves \/ CoordinatorRemoves \/ Supervise
           \/ ApplyWipe \/ CleanUp \/ StartTasks
  <2>1. /\ UNCHANGED <<view, posted, alarms, boots>>
        /\ bdb' = bdb \/ bdb' \in {"INITIALIZATION", "idle"}
    BY <1>1 DEF SkipStartup, Initialized, ResetLeaves, CoordinatorRemoves, Supervise, ApplyWipe,
                CleanUp, StartTasks
  <2>2. Joining
    BY <1>0, <1>j, <2>1 DEF Joining, Asking
  <2> QED BY <1>i, <2>1, <2>2
<1>2. CASE NotInitialized
  <2>1. alarms'["STEERING"] = alarms["STEERING"]
    BY <1>0, <1>2, ScheduleFacts DEF NotInitialized, Modes
  <2>2. Joining
    BY <1>0, <1>2, <1>j, <2>1 DEF NotInitialized, Joining, Asking
  <2> QED BY <1>2, <1>i, <2>2 DEF NotInitialized
<1>3. CASE Steered \/ NotSteered \/ StartSteering
  <2>1. Joining /\ UNCHANGED boots
    BY <1>3 DEF Steered, NotSteered, StartSteering, Joining, Asking
  <2> QED BY <1>i, <2>1
<1>4. ASSUME NEW mode \in Modes, RetryTimer(mode)
      PROVE  ~Rebooted /\ ~Lost /\ (Joining \/ Asking')
  <2>1. /\ alarms[mode] > 0
        /\ bdb' = bdb \/ bdb' = mode
        /\ \A other \in Modes : other # mode => alarms'[other] = alarms[other]
        /\ UNCHANGED <<view, posted, network, boots>>
    BY <1>0, <1>4 DEF RetryTimer, AlarmTimerFired, GatewayTypeOK
  <2>2. CASE mode = "STEERING"
    BY <1>i, <2>1, <2>2 DEF Joining
  <2>3. CASE mode = "INITIALIZATION"
    <3>1. alarms'["STEERING"] = alarms["STEERING"]
      BY <2>1, <2>3 DEF Modes
    <3>2. Joining
      BY <1>0, <1>j, <2>1, <2>3, <3>1 DEF Joining, Asking
    <3> QED BY <1>i, <2>1, <3>2
  <2> QED BY <2>2, <2>3 DEF Modes
<1>5. CASE BeginLocalReset
  <2>1. Joining
    BY <1>0, <1>5, <1>j DEF BeginLocalReset, Joining, Asking
  <2> QED BY <1>5, <1>i, <2>1 DEF BeginLocalReset
<1>6. CASE HandleMessage \/ FinishCycle
  <2>1. UNCHANGED <<alarms, bdb, network, boots>>
    BY <1>6 DEF HandleMessage, FinishCycle
  <2> QED BY <2>1, <1>j DEF Joining, Asking
<1>7. ASSUME NEW watchdog \in BOOLEAN, Reboot(watchdog)
      PROVE  FALSE
  <2>1. view'.pending = {} /\ posted' = {} /\ bdb' = "startup" /\ alarms'["STEERING"] = 0
    BY <1>7, FreshFacts DEF Reboot, Modes
  <2> QED BY <1>j, <2>1
<1> QED
  BY <1>1, <1>2, <1>3, <1>4, <1>5, <1>6, <1>7 DEF GatewayNext, PowerCycle, LeaseWatchdogReset

LEMMA AskedStep ==
    ASSUME CommissionInv, AskedInv, GatewayNext, ~Interrupted, Record
    PROVE  AskedInv'
<1> SUFFICES ASSUME Joining' PROVE asked'
  BY DEF AskedInv
<1>1. ~Rebooted /\ ~Lost /\ (Joining \/ Asking')
  BY JoiningStep
<1> QED BY <1>1 DEF AskedInv, Record, Asking

\* A network is gained by steering alone.
LEMMA GainedFacts ==
    ASSUME GatewayNext, Gained
    PROVE  Steered
<1> USE DEF ui, stack, flash, boot, Gained
<1>1. ASSUME NEW watchdog \in BOOLEAN, Reboot(watchdog)
      PROVE  FALSE
  BY <1>1 DEF Reboot
<1>2. ASSUME NEW mode \in Modes, RetryTimer(mode)
      PROVE  FALSE
  BY <1>2 DEF RetryTimer
<1>3. ASSUME HandleMessage \/ FinishCycle \/ SkipStartup \/ NotInitialized \/ NotSteered
             \/ StartSteering \/ BeginLocalReset \/ Supervise \/ CleanUp \/ StartTasks
      PROVE  FALSE
  BY <1>3 DEF HandleMessage, FinishCycle, SkipStartup, NotInitialized, NotSteered, StartSteering,
              BeginLocalReset, Supervise, CleanUp, StartTasks
<1>4. ASSUME Initialized \/ ResetLeaves \/ CoordinatorRemoves \/ ApplyWipe
      PROVE  FALSE
  BY <1>4 DEF Initialized, ResetLeaves, CoordinatorRemoves, ApplyWipe
<1> QED BY <1>1, <1>2, <1>3, <1>4 DEF GatewayNext, PowerCycle, LeaseWatchdogReset

\* A network is joined only after BOOT was held for it in this boot, with no network
\* lost in between: no steering of an earlier hold, posted or waiting for its retry
\* (cr11_bridge.c:78-104, 381-404), outlives the loss of the network it brought.
THEOREM JoinsOnlyWhenAskedTheorem == HistorySpec => JoinsOnlyWhenAsked
<1>1. HistoryInit => CommissionInv /\ AskedInv
  BY CommissionInit
     DEF HistoryInit, GatewayInit, Init, AskedInv, Joining, Asking, Fresh, Modes
<1>2. CommissionInv /\ AskedInv /\ [GatewayNext /\ ~Interrupted /\ Record]_histories
        => (CommissionInv /\ AskedInv)'
  <2>1. CommissionInv /\ AskedInv /\ UNCHANGED histories => (CommissionInv /\ AskedInv)'
    BY CommissionStutters DEF histories, vars, ui, stack, AskedInv, Joining, Asking
  <2> QED BY <2>1, CommissionStep, AskedStep
<1>3. CommissionInv /\ AskedInv /\ [GatewayNext /\ ~Interrupted /\ Record]_histories
        => [Gained => asked]_histories
  <2> SUFFICES ASSUME AskedInv, GatewayNext, Gained PROVE asked
    OBVIOUS
  <2>1. Steered
    BY GainedFacts
  <2> QED BY <2>1 DEF Steered, AskedInv, Joining
<1> QED BY <1>1, <1>2, <1>3, PTL DEF HistorySpec, JoinsOnlyWhenAsked

-----------------------------------------------------------------------------
(* No wipe without BOOT.                                                    *)

RenouncedInv ==
    view.phase \in ResetFlow \/ marker \/ "BEGIN_LOCAL_RESET" \in view.pending => renounced

\* The marker comes from a reset.
LEMMA MarkerFacts ==
    ASSUME CommissionInv, GatewayNext, marker', ~marker
    PROVE  view.phase \in ResetFlow
<1> USE DEF ui, stack, flash, boot
<1>1. CASE FinishCycle
  <2>1. marker' = marker \/ view.phase \in ResetFlow
    BY <1>1, CycleAnswers DEF CommissionInv
  <2> QED BY <2>1
<1>2. CASE HandleMessage
  BY <1>2 DEF HandleMessage
<1>3. ASSUME NEW watchdog \in BOOLEAN, Reboot(watchdog)
      PROVE  FALSE
  BY <1>3 DEF Reboot
<1>4. CASE ApplyWipe \/ CleanUp \/ StartTasks \/ UNCHANGED <<view, marker, power>>
  BY <1>4 DEF ApplyWipe, CleanUp, StartTasks
<1> QED BY <1>1, <1>2, <1>3, <1>4, OtherSteps

LEMMA RenouncedStep ==
    ASSUME CommissionInv, MarkerIsShown, RenouncedInv, GatewayNext, Record
    PROVE  RenouncedInv'
<1> SUFFICES ASSUME view'.phase \in ResetFlow \/ marker'
                        \/ "BEGIN_LOCAL_RESET" \in view'.pending
             PROVE  renounced'
  BY DEF RenouncedInv
<1>1. CASE Gained
  <2>1. Steered
    BY <1>1, GainedFacts
  <2>2. UNCHANGED <<view, marker>> /\ Up
    BY <2>1 DEF Steered, flash
  <2>3. view.phase = "JOINING"
    BY <2>1 DEF Steered, CommissionInv, JoiningInv, Joining
  <2>4. ~InReset(view)
    BY <2>3 DEF InReset, ResetFlow, ResultPhases, FinalPhases
  <2>5. ~marker
    BY <2>2, <2>3 DEF MarkerIsShown, FinalPhases
  <2>6. "BEGIN_LOCAL_RESET" \notin view.pending
    BY <2>4 DEF CommissionInv, ResetInv
  <2>7. view.phase \notin ResetFlow
    BY <2>4 DEF InReset
  <2> QED BY <2>2, <2>5, <2>6, <2>7
<1>2. CASE ~Gained
  <2>1. marker' => renounced
    BY MarkerFacts DEF RenouncedInv
  <2> QED BY <1>2, <2>1 DEF Record
<1> QED BY <1>1, <1>2

\* As long as the marker can be erased after the wipe, a boot wipes no membership
\* that BOOT was not held to give up: the marker that a reset leaves in the flash is
\* never found by the boots of the next membership (cr11_ui_runtime.c:599-632).
THEOREM WipesOnlyWhenRenouncedTheorem ==
    ASSUME "cleanup" \notin Faults
    PROVE  HistorySpec => WipesOnlyWhenRenounced
<1>1. HistoryInit => CommissionInv /\ MarkerInv /\ RenouncedInv
  <2>1. HistoryInit => CommissionInv /\ MarkerInv
    BY CommissionInit, MarkerInit DEF HistoryInit
  <2>2. HistoryInit => RenouncedInv
    BY DEF HistoryInit, GatewayInit, Init, Fresh, RenouncedInv, ResetFlow, ResultPhases
  <2> QED BY <2>1, <2>2
<1>2. CommissionInv /\ MarkerInv /\ RenouncedInv
        /\ [GatewayNext /\ ~Interrupted /\ Record]_histories
        => (CommissionInv /\ MarkerInv /\ RenouncedInv)'
  <2>1. CommissionInv /\ MarkerInv /\ RenouncedInv /\ UNCHANGED histories
          => (CommissionInv /\ MarkerInv /\ RenouncedInv)'
    <3> SUFFICES ASSUME CommissionInv, MarkerInv, RenouncedInv, UNCHANGED histories
                 PROVE  CommissionInv' /\ MarkerInv' /\ RenouncedInv'
      OBVIOUS
    <3>1. UNCHANGED vars
      BY DEF histories
    <3>2. CommissionInv'
      BY <3>1, CommissionStutters
    <3>3. MarkerInv'
      BY <3>1, MarkerStep
    <3>4. RenouncedInv'
      BY DEF RenouncedInv, histories, vars, ui, flash
    <3> QED BY <3>2, <3>3, <3>4
  <2>2. ASSUME CommissionInv, MarkerInv, RenouncedInv, GatewayNext, ~Interrupted, Record
        PROVE  (CommissionInv /\ MarkerInv /\ RenouncedInv)'
    <3>1. CommissionInv'
      BY <2>2, CommissionStep
    <3>2. MarkerInv'
      BY <2>2, MarkerStep
    <3>3. RenouncedInv'
      BY <2>2, RenouncedStep DEF MarkerInv
    <3> QED BY <3>1, <3>2, <3>3
  <2> QED BY <2>1, <2>2
<1>3. RenouncedInv /\ [GatewayNext /\ ~Interrupted /\ Record]_histories
        => [ApplyWipe /\ network # "new" => renounced]_histories
  BY DEF RenouncedInv, ApplyWipe
<1> QED BY <1>1, <1>2, <1>3, PTL DEF HistorySpec, WipesOnlyWhenRenounced
=============================================================================
