------------------------------- MODULE Gateway -------------------------------
(***************************************************************************)
(* The gateway's firmware from one power-up to the next: the UI task and its *)
(* message queue (cr11_ui_runtime.c), the bridge that starts, retries and    *)
(* reports commissioning (cr11_bridge.c), the one-shot retry timers          *)
(* (alarm_timer.c), the non-volatile storage with its forced-wipe marker,    *)
(* and reboots.  The UI's state is the view of UiPhases.                     *)
(*                                                                         *)
(* The Zigbee stack is external: bdb, network and resetting say what of it   *)
(* the firmware starts, hears of and loses.                                  *)
(*                                                                         *)
(* An operator named X_Y is a mutant of X; no specification uses it.         *)
(***************************************************************************)
EXTENDS UiPhases, Naturals, Sequences

CONSTANTS
    QUEUE_LENGTH,   \* slots of the UI task's queue
    MaxBoots,       \* bound on the number of reboots
    MaxAlarms,      \* bound on the pending retry timers of one mode
    Faults          \* what may go wrong, a subset of AllFaults

AllFaults ==
    {"start",       \* ezb_bdb_start_top_level_commissioning returns an error
     "schedule",    \* a retry timer cannot be created or started
     "post",        \* esp_zigbee_task_queue_post returns an error
     "queue",       \* messages come faster than the UI task handles them
     "arm",         \* the forced-wipe marker cannot be written
     "cleanup"}     \* the forced-wipe marker cannot be erased after the wipe

ASSUME GatewayAssumption ==
    /\ QUEUE_LENGTH \in Nat \ {0}
    /\ MaxBoots \in Nat /\ MaxAlarms \in Nat
    /\ Faults \subseteq AllFaults

VARIABLES
    queue,          \* runtime.queue, messages for the UI task
    posted,         \* functions posted to the Zigbee task
    alarms,         \* number of pending retry timers, by commissioning mode
    bdb,            \* the base device behavior commissioning the stack runs
    resetting,      \* the stack was asked for a local reset
    network,        \* the membership in the stack's storage, and whether it is up
    marker,         \* force_wipe = 1 in the cr11_ui namespace
    erased,         \* the wipe of this boot has been applied
    power,          \* "booting" until app_main has started the tasks
    watchdogReset,  \* the reset reason of this boot
    boots           \* reboots so far

ui == <<view, queue>>
stack == <<bdb, resetting, network>>
flash == <<marker, erased>>
boot == <<power, watchdogReset, boots>>
vars == <<ui, posted, alarms, stack, flash, boot>>

Modes == {"INITIALIZATION", "STEERING"}

\* The messages that may come at any time: the supervisor's commands, and a gateway
\* event, which stands for an order of the console too (VIRTUAL_BOOT and STATUS).
Commands == {"READY", "LEASE_PING", "GATEWAY_EVENT"}

Messages == [kind : {"STACK_STARTED", "NETWORK_LEFT"}, value : BOOLEAN]
            \cup [kind : {"STACK_RETRYING", "JOINED"} \cup Commands, value : {FALSE}]

Up == power = "up"

-----------------------------------------------------------------------------
(* The UI task.                                                             *)

Post_TooMany(kind, value) ==
    IF Len(queue) <= QUEUE_LENGTH
    THEN queue' = Append(queue, [kind |-> kind, value |-> value])
    ELSE "queue" \in Faults /\ UNCHANGED queue

\* post_message never waits: a message that finds the queue full is lost.
\* Without that fault the task keeps up, and there is always a free slot.
Post(kind, value) ==
    IF Len(queue) < QUEUE_LENGTH
    THEN queue' = Append(queue, [kind |-> kind, value |-> value])
    ELSE "queue" \in Faults /\ UNCHANGED queue

\* A gateway event only lets time pass here; it changes nothing but the light.
\* (No code of the bridge posts LEAVE_SUCCEEDED.)
HandledViews(m) ==
    CASE m.kind = "STACK_STARTED"  -> {Started(view, m.value, watchdogReset)}
      [] m.kind = "STACK_RETRYING" -> {Retrying(view, watchdogReset)}
      [] m.kind = "JOINED"         -> JoinedViews(view)
      [] m.kind = "READY"          -> ReadyViews(view)
      [] m.kind = "LEASE_PING"     -> PingViews(view)
      [] m.kind = "GATEWAY_EVENT"  -> Drift(view)
      [] m.kind = "NETWORK_LEFT"   -> LostViews(view, m.value)

HandleMessage ==
    /\ Up /\ queue # <<>>
    /\ queue' = Tail(queue)
    /\ view' \in HandledViews(Head(queue))
    /\ UNCHANGED <<posted, alarms, stack, flash, boot>>

Functions == {"start_steering", "begin_local_reset"}

PostedFor(action) ==
    CASE action = "START_STEERING"    -> {"start_steering"}
      [] action = "BEGIN_LOCAL_RESET" -> {"begin_local_reset"}
      [] OTHER                        -> {}

PostFunctions(actions) ==
    \/ posted' = posted \cup UNION {PostedFor(a) : a \in actions}
    \/ "post" \in Faults /\ UNCHANGED posted

ArmForcedWipe_Unconfirmed(p, success) ==
    /\ view' \in WipeViews(p, TRUE)
    /\ IF success THEN marker' = TRUE
       ELSE "arm" \in Faults /\ marker' \in {marker, TRUE}

\* Writing the marker may fail after the value has reached the flash.
ArmForcedWipe(p, success) ==
    /\ view' \in WipeViews(p, success)
    /\ IF success THEN marker' = TRUE
       ELSE "arm" \in Faults /\ marker' \in {marker, TRUE}

\* The end of a cycle of the task, which has found its queue empty: the time that
\* has passed, and the dispatch of the actions taken from the mailbox.  A failed
\* post is only logged.  (A message that arrives in the meantime waits for the
\* next cycle and might as well have come then.)
FinishCycle ==
    /\ Up /\ queue = <<>>
    /\ \E p \in Drift(view) :
         /\ PostFunctions(p.pending)
         /\ IF "ARM_FORCED_WIPE" \in p.pending
            THEN \E success \in BOOLEAN : ArmForcedWipe(Taken(p), success)
            ELSE view' = Taken(p) /\ UNCHANGED marker
    /\ UNCHANGED <<queue, alarms, stack, erased, boot>>

-----------------------------------------------------------------------------
(* The bridge and the stack.                                                *)

\* alarm_timer_schedule: memory, a timer and its start, or nothing is left of them.
AlarmTimerSchedule(mode) ==
    \/ alarms[mode] < MaxAlarms /\ alarms' = [alarms EXCEPT ![mode] = @ + 1]
    \/ "schedule" \in Faults /\ UNCHANGED alarms

AlarmTimerFired(mode) == alarms[mode] > 0 /\ alarms' = [alarms EXCEPT ![mode] = @ - 1]

\* An error of the timer is only logged.
ScheduleRetry(mode) == AlarmTimerSchedule(mode)

\* The stack runs one commissioning at a time and refuses a second one.
CanStart == bdb = "idle"
CanRefuse == bdb # "idle" \/ "start" \in Faults

\* EZB_ZDO_SIGNAL_SKIP_STARTUP: the error of the call is ignored.
SkipStartup ==
    /\ Up /\ bdb = "startup"
    /\ \/ bdb' = "INITIALIZATION"
       \/ "start" \in Faults /\ bdb' = "idle"
    /\ UNCHANGED <<ui, posted, alarms, resetting, network, flash, boot>>

\* DEVICE_FIRST_START or DEVICE_REBOOT with success.
Initialized ==
    /\ Up /\ bdb = "INITIALIZATION"
    /\ bdb' = "idle"
    /\ network' = IF network = "new" THEN "new" ELSE "online"
    /\ Post("STACK_STARTED", network = "new")
    /\ UNCHANGED <<view, posted, alarms, resetting, flash, boot>>

NotInitialized ==
    /\ Up /\ bdb = "INITIALIZATION"
    /\ bdb' = "idle"
    /\ Post("STACK_RETRYING", FALSE)
    /\ ScheduleRetry("INITIALIZATION")
    /\ UNCHANGED <<view, posted, resetting, network, flash, boot>>

Steered ==
    /\ Up /\ bdb = "STEERING"
    /\ bdb' = "idle"
    /\ network' = "online"
    /\ Post("JOINED", FALSE)
    /\ UNCHANGED <<view, posted, alarms, resetting, flash, boot>>

NotSteered ==
    /\ Up /\ bdb = "STEERING"
    /\ bdb' = "idle"
    /\ ScheduleRetry("STEERING")
    /\ UNCHANGED <<ui, posted, resetting, network, flash, boot>>

RetryTimer_Repeats(mode) ==
    /\ Up /\ alarms[mode] > 0
    /\ CanStart /\ bdb' = mode
    /\ UNCHANGED <<ui, posted, alarms, resetting, network, flash, boot>>

RetryTimer_Steers(mode) ==
    /\ Up /\ alarms[mode] > 0
    /\ alarms' = [alarms EXCEPT ![mode] = @ - 1]
    /\ \/ CanStart /\ bdb' = "STEERING"
       \/ CanRefuse /\ UNCHANGED bdb
    /\ UNCHANGED <<ui, posted, resetting, network, flash, boot>>

\* A retry timer fires.  If the stack refuses, there is no further retry.
RetryTimer(mode) ==
    /\ Up /\ AlarmTimerFired(mode)
    /\ \/ CanStart /\ bdb' = mode
       \/ CanRefuse /\ UNCHANGED bdb
    /\ UNCHANGED <<ui, posted, resetting, network, flash, boot>>

StartSteering ==
    /\ Up /\ "start_steering" \in posted
    /\ posted' = posted \ {"start_steering"}
    /\ \/ CanStart /\ bdb' = "STEERING" /\ UNCHANGED alarms
       \/ CanRefuse /\ UNCHANGED bdb /\ ScheduleRetry("STEERING")
    /\ UNCHANGED <<ui, resetting, network, flash, boot>>

BeginLocalReset ==
    /\ Up /\ "begin_local_reset" \in posted
    /\ posted' = posted \ {"begin_local_reset"}
    /\ resetting' = TRUE
    /\ UNCHANGED <<ui, alarms, bdb, network, flash, boot>>

\* The stack leaves as it was asked to.  Nothing says how soon.
ResetLeaves ==
    /\ Up /\ resetting
    /\ resetting' = FALSE
    /\ IF network = "new" THEN UNCHANGED <<queue, network>>
       ELSE network' = "new" /\ Post("NETWORK_LEFT", FALSE)
    /\ UNCHANGED <<view, posted, alarms, bdb, flash, boot>>

\* The coordinator makes the gateway leave, perhaps only to join again; the
\* firmware then waits for the stack to report the rejoin as a start.
CoordinatorRemoves == \E willRejoin \in BOOLEAN :
    /\ Up /\ network = "online" /\ bdb = "idle"
    /\ IF willRejoin THEN network' = "offline" /\ bdb' = "INITIALIZATION"
                     ELSE network' = "new" /\ UNCHANGED bdb
    /\ Post("NETWORK_LEFT", willRejoin)
    /\ UNCHANGED <<view, posted, alarms, resetting, flash, boot>>

\* The supervisor's `ready' and heartbeat, which the UART console can also inject,
\* and the presses of a CR11.  Unless they flood the queue, they leave it time.
Supervise == \E kind \in Commands :
    /\ Up /\ (queue = <<>> \/ "queue" \in Faults)
    /\ Post(kind, FALSE)
    /\ UNCHANGED <<view, posted, alarms, stack, flash, boot>>

-----------------------------------------------------------------------------
(* Power.                                                                   *)

\* RAM is lost; the flash and the membership in it are not.
Reboot(watchdog) ==
    /\ boots < MaxBoots /\ boots' = boots + 1
    /\ power' = "booting" /\ watchdogReset' = watchdog
    /\ view' = Fresh /\ queue' = <<>>
    /\ posted' = {} /\ alarms' = [mode \in Modes |-> 0]
    /\ bdb' = "startup" /\ resetting' = FALSE
    /\ network' = IF network = "new" THEN "new" ELSE "offline"
    /\ erased' = FALSE /\ UNCHANGED marker

PowerCycle == Reboot(FALSE)

\* The task watchdog bites once an armed lease has run out.
LeaseWatchdogReset ==
    /\ Up /\ view.phase = "READY" /\ view.lease
    /\ Reboot(TRUE)

\* init_nvs with the marker set: the storage is erased ...
ApplyWipe ==
    /\ power = "booting" /\ marker /\ ~erased
    /\ network' = "new"
    /\ erased' = TRUE
    /\ UNCHANGED <<ui, posted, alarms, bdb, resetting, marker, boot>>

CleanUp_Forgotten ==
    /\ power = "booting" /\ erased
    /\ power' = "up"
    /\ UNCHANGED <<ui, posted, alarms, stack, flash, watchdogReset, boots>>

\* ... and then the marker, but the start goes on if that fails.
CleanUp ==
    /\ power = "booting" /\ erased
    /\ marker' = FALSE \/ ("cleanup" \in Faults /\ UNCHANGED marker)
    /\ power' = "up"
    /\ UNCHANGED <<ui, posted, alarms, stack, erased, watchdogReset, boots>>

StartTasks ==
    /\ power = "booting" /\ ~marker
    /\ power' = "up"
    /\ UNCHANGED <<ui, posted, alarms, stack, flash, watchdogReset, boots>>

-----------------------------------------------------------------------------

GatewayInit ==
    /\ Init /\ queue = <<>>
    /\ posted = {} /\ alarms = [mode \in Modes |-> 0]
    /\ bdb = "startup" /\ resetting = FALSE /\ network \in {"new", "offline"}
    /\ marker = FALSE /\ erased = FALSE
    /\ power = "booting" /\ watchdogReset = FALSE /\ boots = 0

GatewayNext ==
    \/ HandleMessage
    \/ FinishCycle
    \/ SkipStartup
    \/ Initialized
    \/ NotInitialized
    \/ Steered
    \/ NotSteered
    \/ \E mode \in Modes : RetryTimer(mode)
    \/ StartSteering
    \/ BeginLocalReset
    \/ ResetLeaves
    \/ CoordinatorRemoves
    \/ Supervise
    \/ PowerCycle
    \/ LeaseWatchdogReset
    \/ ApplyWipe
    \/ CleanUp
    \/ StartTasks

GatewaySpec == GatewayInit /\ [][GatewayNext]_vars

\* A behaviour without the one thing that ends a reset early: BOOT was held while
\* the saved network was being restored, and the stack then reports its start.
Interrupted ==
    /\ Up /\ queue # <<>> /\ queue' = Tail(queue)
    /\ Head(queue).kind = "STACK_STARTED"
    /\ view.phase \in ResetFlow

UninterruptedSpec == GatewayInit /\ [][GatewayNext /\ ~Interrupted]_vars

\* The UI task runs every 10 ms and handles messages faster than they come, so
\* that it empties its queue again and again, dispatches what is in the mailbox,
\* and every time-out of a reset passes.  Nobody has to hold BOOT.  The Zigbee
\* task and the timers do what they are given.  Of the outside world, only that a
\* network that is tried again and again is found in the end.
Fairness ==
    /\ WF_vars(HandleMessage)
    /\ SF_vars(FinishCycle /\ view.pending # {})
    /\ SF_vars(FinishCycle /\ view.phase \in ResetFlow /\ view'.phase # view.phase)
    /\ WF_vars(SkipStartup) /\ WF_vars(StartSteering) /\ WF_vars(BeginLocalReset)
    /\ \A mode \in Modes : WF_vars(RetryTimer(mode))
    /\ SF_vars(Initialized) /\ SF_vars(Steered)
    /\ WF_vars(ApplyWipe) /\ WF_vars(CleanUp) /\ WF_vars(StartTasks)

-----------------------------------------------------------------------------

GatewayTypeOK ==
    /\ view \in Views
    /\ queue \in Seq(Messages) /\ Len(queue) <= QUEUE_LENGTH
    /\ posted \subseteq Functions
    /\ alarms \in [Modes -> Nat]
    /\ bdb \in {"startup", "idle"} \cup Modes
    /\ resetting \in BOOLEAN
    /\ network \in {"new", "offline", "online"}
    /\ marker \in BOOLEAN /\ erased \in BOOLEAN
    /\ power \in {"booting", "up"}
    /\ watchdogReset \in BOOLEAN
    /\ boots \in 0 .. MaxBoots

\* Purple means that the wipe is durable: as long as a forced result is shown,
\* the marker that makes the next boot erase the storage is in the flash.
ForcedResultIsDurable == view.phase = "RESULT_FORCED" => marker

\* A marker in the flash is the user's doing and has been shown: the gateway
\* never works on, READY or joining, with a wipe ahead of it that the next
\* reboot will bring.
MarkerIsShown ==
    Up /\ marker => view.phase \in {"RESULT_FORCED"} \cup FinalPhases

\* At most one commissioning runs or waits for its retry, so that a retry never
\* finds the stack busy with another one (start_steering, the retry timers and
\* the rejoin are started by three different tasks).  Of behaviours in which no
\* reset is interrupted.
OneCommissioning ==
    /\ alarms["INITIALIZATION"] + alarms["STEERING"] <= 1
    /\ alarms["INITIALIZATION"] + alarms["STEERING"] = 1 => bdb = "idle"

\* A reset that was begun ends only in the terminal pattern, or in the error
\* state, that lasts until the power is cycled.
EndsFinally ==
    [][view.phase \in ResetFlow => \/ view'.phase \in ResetFlow \cup FinalPhases
                                   \/ power' = "booting"]_vars

\* Every reset comes to an end: no lost or late answer of the stack, failed
\* post or failed write of the marker keeps the light red for good.
ResetEnds == view.phase \in ResetFlow ~> view.phase \notin ResetFlow
=============================================================================
