--------------------------- MODULE GatewayHistory ---------------------------
(***************************************************************************)
(* Gateway with a record of what the user has asked for and of the failures  *)
(* that nobody makes good, for properties that relate a state to steps taken *)
(* long before it.                                                          *)
(***************************************************************************)
EXTENDS Gateway

VARIABLES
    asked,      \* BOOT was held for a join since the last loss or boot
    renounced,  \* BOOT was held for a reset of this membership
    abandoned   \* in this boot a call failed that the code does not repeat

histories == <<vars, asked, renounced, abandoned>>

Rebooted == boots' # boots
Lost == network # "new" /\ network' = "new"
Gained == network = "new" /\ network' # "new"

\* The failures that are only logged, or not even that: of the first start, of a
\* start by a retry timer, of the timer itself, of the posted steering, and of the
\* message with which the stack reports a success.
NoFirstStart == bdb = "startup" /\ bdb' = "idle"
NoRetry == \E mode \in Modes : alarms'[mode] < alarms[mode] /\ bdb' = bdb
NoTimer == (NotInitialized \/ NotSteered \/ StartSteering) /\ bdb' = "idle" /\ alarms' = alarms
NoSteering ==
    /\ FinishCycle /\ view'.phase = "JOINING"
    /\ view.phase # "JOINING" \/ "START_STEERING" \in view.pending
    /\ "start_steering" \notin posted'
NoReport == (Initialized \/ Steered) /\ queue' = queue

Record ==
    /\ asked' = /\ ~Rebooted /\ ~Lost
                /\ \/ asked
                   \/ "START_STEERING" \in view'.pending
                   \/ "start_steering" \in posted'
    /\ renounced' = /\ ~Gained
                    /\ \/ renounced
                       \/ "BEGIN_LOCAL_RESET" \in view'.pending
                       \/ view'.phase \in ResetFlow
    /\ abandoned' = /\ ~Rebooted
                    /\ abandoned \/ NoFirstStart \/ NoRetry \/ NoTimer \/ NoSteering \/ NoReport

HistoryInit == GatewayInit /\ asked = FALSE /\ renounced = FALSE /\ abandoned = FALSE

HistorySpec ==
    /\ HistoryInit
    /\ [][GatewayNext /\ ~Interrupted /\ Record]_histories

FairHistorySpec == HistorySpec /\ Fairness

-----------------------------------------------------------------------------

\* No join without a BOOT hold since the last network was lost or the gateway
\* booted: no steering left over from an earlier hold, in the Zigbee task's
\* queue or in a retry timer, joins anew.
JoinsOnlyWhenAsked == [][Gained => asked]_histories

\* A boot wipes only a membership that the user has held BOOT to give up.
WipesOnlyWhenRenounced ==
    [][ApplyWipe /\ network # "new" => renounced]_histories

\* The UI waits for a network, and nothing is under way that could bring it: no
\* commissioning, no retry timer, no posted steering and no message.
Stranded ==
    /\ Up /\ view.phase \in {"STARTING", "RESTORING", "JOINING"}
    /\ bdb = "idle" /\ \A mode \in Modes : alarms[mode] = 0
    /\ "start_steering" \notin posted /\ "START_STEERING" \notin view.pending
    /\ queue = <<>>

\* The gateway is never stranded unless one of five calls has failed in this boot:
\* a late report, a steering refused because another start was under way, or a
\* network lost and found again leaves it trying (cr11_bridge.c:78-104, 295-404).
NeverStranded == Stranded => abandoned

\* The start, a saved network that is out of reach, and a join are tried again until
\* they succeed, or until the user gives the network up, unless a call has failed
\* that the code does not repeat.
RetriesContinue ==
    \A phase \in {"STARTING", "RESTORING", "JOINING"} :
        view.phase = phase ~> view.phase # phase \/ abandoned
=============================================================================
