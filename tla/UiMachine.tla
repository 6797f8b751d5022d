------------------------------ MODULE UiMachine ------------------------------
(***************************************************************************)
(* The UI state machine of UiState under every sequence of calls its API    *)
(* admits: any function, with any argument, at any time.  Nothing is        *)
(* assumed of the Zigbee stack, the supervisor or the order in which their  *)
(* messages are handled, so what holds here holds however the runtime       *)
(* drops, delays or reorders them.                                          *)
(*                                                                         *)
(* ui is the cr11_ui_state_t.  The other variables record history and take  *)
(* no part in what the code does.                                           *)
(***************************************************************************)
EXTENDS UiState

CONSTANTS MaxTime,      \* bound on the clock
          MaxGap,       \* bound on the time between two calls
          MaxLag        \* how far a call may be stamped before the latest one

ASSUME BoundAssumption == MaxTime \in Nat /\ MaxGap \in Nat /\ MaxLag \in Nat

VARIABLES
    ui,         \* the state record
    downSince,  \* when BOOT last went down
    spent,      \* the hold at hand has had its effect or missed it, and was
                \*   not counted anew since
    taken,      \* the hold at hand has had an effect
    heard       \* the supervisor spoke since the stack last started

vars == <<ui, downSince, spent, taken, heard>>

\* The times at which the next call may be stamped: a message is stamped when
\* it is posted and may be handled after calls of a later time.
Stamps == {t \in ui.last_now - MaxLag .. ui.last_now + MaxGap : 0 <= t /\ t <= MaxTime}

BootActions == {"START_STEERING", "BEGIN_LOCAL_RESET"}

\* The actions this step adds to the mailbox.
Emitted == ui'.pending \ ui.pending

Accepted == Emitted \cap BootActions # {}

Init ==
    /\ ui = InitState(0)
    /\ downSince = 0
    /\ spent = FALSE
    /\ taken = FALSE
    /\ heard = FALSE

-----------------------------------------------------------------------------

\* What becomes of a hold in a call that leaves BOOT down: the call's Advance may
\* accept its action, the call may take away what the hold was for, or count the
\* hold anew.
HoldGoesOn(missed, anew) ==
    /\ spent' = (Accepted \/ missed \/ (spent /\ ~anew))
    /\ taken' = (taken \/ Accepted)

\* A call that leaves the history of BOOT and of the supervisor alone, but
\* for the action that its Advance may accept.
Quiet(newUi) ==
    /\ ui' = newUi
    /\ HoldGoesOn(FALSE, FALSE)
    /\ UNCHANGED <<downSince, heard>>

StackStartedCall(t) == \E factoryNew, watchdogReset \in BOOLEAN :
    /\ ui' = StackStarted(ui, factoryNew, watchdogReset, t)
    /\ HoldGoesOn(FALSE, ui.phase \notin FinalPhases)
    /\ heard' = FALSE
    /\ UNCHANGED downSince

StackRetryingCall(t) == \E watchdogReset \in BOOLEAN :
    /\ ui' = StackRetrying(ui, watchdogReset, t)
    /\ HoldGoesOn(FALSE, ui.phase \notin ResetFlow \cup FinalPhases \cup {"RESTORING"})
    /\ UNCHANGED <<downSince, heard>>

\* The phases in which a press of BOOT begins something.
Offers(phase) == phase = "UNPROVISIONED" \/ AcceptsReset(phase)

BootPressedCall(t) ==
    /\ ui' = BootInput(ui, TRUE, t)
    /\ downSince' = IF ui.boot_down THEN downSince ELSE ui'.last_now
    /\ HoldGoesOn(~ui.boot_down /\ ~Offers(ui'.phase), FALSE)
    /\ UNCHANGED heard

BootReleasedCall(t) ==
    /\ ui' = BootInput(ui, FALSE, t)
    /\ spent' = FALSE /\ taken' = FALSE
    /\ UNCHANGED <<downSince, heard>>

JoinedCall(t) == Quiet(Joined(ui, t))

NetworkLeftCall(t) == \E willRejoin \in BOOLEAN :
    /\ ui' = NetworkLeft(ui, willRejoin, t)
    /\ HoldGoesOn(ui.boot_down /\ ui'.phase = AwayPhase(willRejoin), FALSE)
    /\ UNCHANGED <<downSince, heard>>

LeaveSucceededCall(t) == Quiet(LeaveSucceeded(ui, t))

ForcedWipeArmedCall(t) == \E success \in BOOLEAN : Quiet(ForcedWipeArmed(ui, success, t))

GatewayEventCall(t) == \E lowerButton \in BOOLEAN : Quiet(GatewayEvent(ui, lowerButton, t))

AdvanceCall(t) == Quiet(Advance(ui, t))

ReadyCall(t) ==
    /\ ui' = Ready(ui, t)
    /\ HoldGoesOn(FALSE, FALSE)
    /\ heard' = TRUE
    /\ UNCHANGED downSince

LeasePingCall(t) ==
    /\ ui' = LeasePing(ui, t)
    /\ HoldGoesOn(FALSE, FALSE)
    /\ heard' = TRUE
    /\ UNCHANGED downSince

TakeActionsCall == Quiet(TakeActions(ui))

Call(t) ==
    \/ StackStartedCall(t)
    \/ StackRetryingCall(t)
    \/ BootPressedCall(t)
    \/ BootReleasedCall(t)
    \/ JoinedCall(t)
    \/ ReadyCall(t)
    \/ LeasePingCall(t)
    \/ NetworkLeftCall(t)
    \/ LeaveSucceededCall(t)
    \/ ForcedWipeArmedCall(t)
    \/ GatewayEventCall(t)
    \/ AdvanceCall(t)

Next == TakeActionsCall \/ \E t \in Stamps : Call(t)

Spec == Init /\ [][Next]_vars

\* BOOT is pressed while the saved network, which is found in the end, is out of
\* reach.
RestoringInit ==
    /\ ui = StackRetrying(InitState(0), FALSE, 0)
    /\ downSince = 0
    /\ spent = FALSE /\ taken = FALSE /\ heard = FALSE

RestoringSpec == RestoringInit /\ [][Next /\ ui'.phase # "UNPROVISIONED"]_vars

-----------------------------------------------------------------------------

TypeOK ==
    /\ ui \in States
    /\ downSince \in Nat
    /\ spent \in BOOLEAN
    /\ taken \in BOOLEAN
    /\ heard \in BOOLEAN

\* Every time the code subtracts from the clock lies in the past, so that no
\* difference of two uint64_t wraps around (advance, cr11_ui_state.c:331-371,
\* and the LED patterns).
NoUnderflow == TimesPassed(ui)

\* A hold that counts towards an action is a hold of the action that the
\* present phase offers: BOOT pressed for a join never ends in a reset because
\* the phase changed under it, nor the other way round.
PressMatchesPhase == PressOffered(ui)

\* A lease is of the present stay in READY: one granted before the network
\* was lost is not found, stale, when the gateway is ready again.
LeaseBelongsToSession == LeaseOfSession(ui)

\* After a boot that the watchdog caused, the lease is armed only once the
\* supervisor was heard: a supervisor that stays away cannot make the gateway
\* reboot over and over.
NoWatchdogLoop ==
    ui.phase = "READY" /\ ui.boot_was_watchdog /\ ui.lease_armed => heard

\* An action is accepted only if BOOT has been down without a break for as
\* long as that action asks.
HeldLongEnough ==
    /\ "START_STEERING" \in Emitted =>
           ui.boot_down /\ ui'.last_now - downSince >= JOIN_HOLD
    /\ "BEGIN_LOCAL_RESET" \in Emitted =>
           ui.boot_down /\ ui'.last_now - downSince >= RESET_HOLD

HoldBeforeAction == [][HeldLongEnough]_vars

\* A hold that has had its effect, that began where nothing is offered, or that was
\* under way when the network was lost has no effect any more, whatever phases it
\* lasts through: only a release of BOOT, or the stack's start or its first retry
\* (cr11_ui_state.c:103-107 and 138-141), begins a new count.
SpentHoldStaysSpent == [][Accepted => ~spent]_vars


\* TERMINAL and ERROR last until the power cycle: no call leaves them and none
\* puts a new action into the mailbox.
StaysFinal == ui.phase \in FinalPhases => ui'.phase = ui.phase /\ Emitted = {}

FinalIsFinal == [][StaysFinal]_vars

\* The phases a local reset can still come to from the one it is in.
Onward(phase) ==
    CASE phase = "LEAVING"       -> ResetFlow \cup FinalPhases
      [] phase = "FORCE_PENDING" -> {"FORCE_PENDING", "RESULT_FORCED"} \cup FinalPhases
      [] OTHER                   -> {phase, "TERMINAL"}

\* A local reset only goes forward unless the stack starts in the middle of it:
\* no other report of the stack, no supervisor command and no BOOT press takes
\* the gateway out of it or back to an earlier part of it.
GoesOnward ==
    ui.phase \in ResetFlow =>
        \/ ui'.phase \in Onward(ui.phase)
        \/ \E t \in Stamps : StackStartedCall(t)

ResetOnlyForward == [][GoesOnward]_vars
=============================================================================
