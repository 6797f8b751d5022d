------------------------------ MODULE UiPhases ------------------------------
(***************************************************************************)
(* What the user interface promises to the rest of the gateway, without     *)
(* clocks and buttons: which phase may follow which, for which reason, and   *)
(* what it asks for on the way.  A hold of BOOT may complete whenever the    *)
(* phase offers it and a time-out may pass at any time; UiRefinement shows   *)
(* that the machine of cr11_ui_state.c keeps to this.                       *)
(*                                                                         *)
(* Every operator takes the view p before a call; the ones named ...Views    *)
(* give the set of views the call may leave, as the code lets the time that  *)
(* has passed take effect first.  An operator named X_Y is a mutant of X; no *)
(* specification uses it.                                                   *)
(***************************************************************************)
EXTENDS UiNames

VARIABLE view

Views == [phase    : Phases,
          pending  : SUBSET Actions,    \* actions not yet taken by the UI task
          left     : BOOLEAN,           \* the stack reported the end of a reset
          lease    : BOOLEAN,           \* the supervisor's lease is armed
          watchdog : BOOLEAN]           \* the watchdog caused this boot

Fresh == [phase |-> "STARTING", pending |-> {}, left |-> FALSE,
          lease |-> FALSE, watchdog |-> FALSE]

-----------------------------------------------------------------------------

To(p, phase) == [p EXCEPT !.phase = phase]

AskFor(p, phase, action) == [p EXCEPT !.phase = phase, !.pending = @ \cup {action}]

Due_NoTimeout(p) ==
    CASE p.phase = "UNPROVISIONED" -> {AskFor(p, "JOINING", "START_STEERING")}
      [] AcceptsReset(p.phase) ->
            {[AskFor(p, "LEAVING", "BEGIN_LOCAL_RESET") EXCEPT !.left = FALSE]}
      [] p.phase = "LEAVING" /\ p.left ->
            {To(p, "RESULT_GRACEFUL"), To(p, "TERMINAL")}
      [] p.phase \in ResultPhases -> {To(p, "TERMINAL")}
      [] OTHER -> {}

\* What the passing of time may do to p beyond leaving it alone.
Due(p) ==
    CASE p.phase = "UNPROVISIONED" -> {AskFor(p, "JOINING", "START_STEERING")}
      [] AcceptsReset(p.phase) ->
            {[AskFor(p, "LEAVING", "BEGIN_LOCAL_RESET") EXCEPT !.left = FALSE]}
      [] p.phase = "LEAVING" ->
            IF p.left THEN {To(p, "RESULT_GRACEFUL"), To(p, "TERMINAL")}
                      ELSE {AskFor(p, "FORCE_PENDING", "ARM_FORCED_WIPE")}
      [] p.phase \in ResultPhases -> {To(p, "TERMINAL")}
      [] OTHER -> {}

Drift(p) == {p} \cup Due(p)

Started_AlwaysArmed(p, factoryNew, watchdog) ==
    IF p.phase \in FinalPhases THEN p
    ELSE [p EXCEPT !.phase = IF factoryNew THEN "UNPROVISIONED" ELSE "READY",
                   !.lease = ~factoryNew,
                   !.watchdog = watchdog]

Started(p, factoryNew, watchdog) ==
    IF p.phase \in FinalPhases THEN p
    ELSE [p EXCEPT !.phase = IF factoryNew THEN "UNPROVISIONED" ELSE "READY",
                   !.lease = ~factoryNew /\ ~watchdog,
                   !.watchdog = watchdog]

Retrying_InReset(p, watchdog) ==
    IF p.phase \in FinalPhases THEN p
    ELSE [p EXCEPT !.phase = "RESTORING", !.lease = FALSE, !.watchdog = watchdog]

Retrying(p, watchdog) ==
    IF p.phase \in ResetFlow \cup FinalPhases THEN p
    ELSE [p EXCEPT !.phase = "RESTORING", !.lease = FALSE, !.watchdog = watchdog]

JoinedViews(p) ==
    {IF q.phase = "JOINING" THEN To(q, "POST_JOIN") ELSE q : q \in Drift(p)}

LeaveViews(p) ==
    UNION {IF q.phase = "LEAVING" THEN Drift([q EXCEPT !.left = TRUE]) ELSE {q} :
             q \in Drift(p)}

LostFrom(p, willRejoin) ==
    CASE p.phase = "LEAVING" -> Drift([p EXCEPT !.left = TRUE])
      [] p.phase \in {"FORCE_PENDING"} \cup ResultPhases \cup FinalPhases -> {p}
      [] OTHER -> {[p EXCEPT !.phase = IF willRejoin THEN "RESTORING"
                                       ELSE "UNPROVISIONED",
                             !.lease = FALSE]}

LostViews(p, willRejoin) == UNION {LostFrom(q, willRejoin) : q \in Drift(p)}

ReadyViews(p) ==
    {IF q.phase \in {"READY", "POST_JOIN"}
     THEN [q EXCEPT !.phase = "READY", !.lease = TRUE] ELSE q : q \in Drift(p)}

PingViews(p) ==
    {IF q.phase = "READY" THEN [q EXCEPT !.lease = TRUE] ELSE q : q \in Drift(p)}

WipeViews(p, success) ==
    {IF q.phase = "FORCE_PENDING"
     THEN To(q, IF success THEN "RESULT_FORCED" ELSE "ERROR") ELSE q : q \in Drift(p)}

Taken(p) == [p EXCEPT !.pending = {}]

-----------------------------------------------------------------------------

Init == view = Fresh

Next ==
    \/ view' \in Drift(view)
    \/ \E factoryNew, watchdog \in BOOLEAN : view' = Started(view, factoryNew, watchdog)
    \/ \E watchdog \in BOOLEAN : view' = Retrying(view, watchdog)
    \/ view' \in JoinedViews(view)
    \/ view' \in LeaveViews(view)
    \/ \E willRejoin \in BOOLEAN : view' \in LostViews(view, willRejoin)
    \/ view' \in ReadyViews(view)
    \/ view' \in PingViews(view)
    \/ \E success \in BOOLEAN : view' \in WipeViews(view, success)
    \/ view' = Taken(view)

Spec == Init /\ [][Next]_view
=============================================================================
