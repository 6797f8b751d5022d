# A TLA+ model of the CR11S8UZ gateway

The repository makes an ESP32-C6 board with a button and a light into a Zigbee
router, *CR11Gateway*, that receives the commands of a CR11S8UZ remote and hands
them to Zigbee2MQTT, where two converters and an extension turn them into named
actions. This directory holds a model of its control: what the firmware does with
its button, its network, its supervisor and its flash, and how an event travels
from the remote to the name that Zigbee2MQTT publishes. TLC checks the modules on
small instances; TLAPS proves the most important invariants for every value of
the constants.

Paths below are relative to the repository; `main/` is `firmware/main/`,
`z2m/` is `zigbee2mqtt/`. `PROJECT.json` names, for every definition that models
code, the lines it stands for.

## 1. The system

| Component | Keeps | Operations |
|---|---|---|
| UI state machine, `main/cr11_ui_state.c` | one record: phase and since when, time of the last call, the button and its press, the mailbox of actions, the times of a leave, the supervisor's lease | one function per report of the stack, per supervisor command, per edge of BOOT, plus `advance`, which lets the passed time take effect, and `led`, which turns record and time into a colour and an effect |
| UI runtime, `main/cr11_ui_runtime.c` | a queue of messages, the debounced pin, the virtual button of the console, a user of the task watchdog, the forced-wipe marker in the NVS | the UI task's cycle: sample the clock and pin, drain the queue, advance, sync the watchdog, dispatch the mailbox, set the light |
| Bridge: commissioning, `main/cr11_bridge.c`, `main/alarm_timer.c` | functions posted to the Zigbee task, one-shot retry timers | the signals of the stack, retries, the reset asked for by the UI, the boot with its wipe |
| Bridge: events, `main/cr11_bridge.c`, `main/cr11_event.c` | 32 motion slots, the sequence number | decode a frame, remember or take back a motion, emit a packet |
| Gateway packet, `main/cr11_gateway_packet.c` | nothing | map an event to a button, build, encode, decode, print |
| USB transport, `main/cr11_usb_*.c`, `firmware/tools/cr11_usb_monitor.py` | a bounded queue, the event under way; the monitor's line and whether it skips the rest of one | submit, write a line with checksum; collect a line, check, decode |
| Gateway converter, `z2m/cr11_gateway_external.mjs` | nothing | decode a packet |
| Router extension, `z2m/cr11_gateway_router_extension.mjs` | the packets seen in the last five seconds, a timer, a flag for a running heartbeat, one for a running soft rejoin | start, stop, heartbeat, route a packet, soft rejoin |
| CR11 converter, `z2m/cr11s8uz_external.mjs` | per remote: the pending operation, the assignment mode, the setup state shown | install or clear an action table, raw commands, reports of the remote |
| Debug switch; flashing, installing and release scripts | a flag; files | not modelled: see section 8 |

How they interact. Three tasks of the firmware share nothing but queues: the
Zigbee task and the console's task post messages to the UI task, which never
waits for room and stamps each message with the time of its posting; the UI task
posts functions to the Zigbee task. Retry timers fire in a task of their own. The
NVS is read at boot and written by the UI task. The remote's frames, the
gateway's packets and the extension's heartbeats cross the radio, which may lose,
repeat, delay and reorder them. The functions of Zigbee2MQTT run in one event
loop and interleave at every `await`.

What is hard here:

* a time stamp may be older than the last call, a sample of the clock older than
  a message, and all times are unsigned (UI state machine, virtual button);
* one hold of BOOT should have one effect, although the phase changes under it;
* one call lets all the time take effect that has passed since the last one, so that
  it may go through a phase that the light never shows;
* a local reset is a dialogue with a stack that may answer early, late or never,
  ends in a mark in the flash, and must leave no hidden wipe behind;
* commissioning is started by the UI, by retry timers and by the stack itself;
* the lease watchdog must reboot a gateway whose supervisor is silent, and
  nothing else, and not for ever;
* a release does not say which button is released;
* a packet may come twice, the gateway's numbers begin again after a reboot;
* the USB driver takes what there is room for, so that a frame may be cut and the
  next one continue its line; hosts and readers come and go;
* a soft rejoin opens the network to strangers, then fails, or is not sure whether
  it has failed, while others open and close the same window;
* the installation of an action table is followed twice, by the function that
  awaits the answers and by the converter that sees them pass.

For each component, what makes it correct: *UI* - no wrapped difference of times,
no action without its hold, no stale lease, final phases are final. *Runtime and
bridge* - a reset ends, durably, and is shown; retries go on; nobody joins or
wipes unasked; no reboot loop; the watchdog bites
silence only, after a warning; nothing but the failures that the code only logs leaves
the gateway waiting. *Events* - what is
published is what the user did. *USB* - genuine events, in
order and once, a loss only for a reason, and nobody waits for a host. *Extension* -
once, and never none; the network is open no longer than there is a reason, and open
as long as a remote was promised. *Converter* -
what is shown as written is written, and nothing is shown as under way for ever.
`PROJECT.json` lists the hazards behind these at their lines.

## 2. The modules

| Module | Models | Uses |
|---|---|---|
| `UiNames` | phases and actions | |
| `UiState` | the functions of `cr11_ui_state.c`, as operators on its record | `UiNames` |
| `UiMachine` | any sequence of calls of these, on a clock, with late stamps | `UiState` |
| `UiPhases` | abstract specification of the UI: which phase may follow which, and why | `UiNames` |
| `UiRefinement` | `UiMachine` implements `UiPhases` | both |
| `Gateway` | the firmware from one power-up to the next: UI task, queue, bridge, timers, NVS, reboots, and the stack around it | `UiPhases` |
| `GatewayHistory` | the same with a record of who asked for what | `Gateway` |
| `GatewayProofs` | proofs about both | `GatewayHistory` |
| `UiLight` | the light: the patterns that read the record | `UiState` |
| `ResetLight` | a local reset on real time, and how long the light shows each part of it | `UiLight` |
| `UiMachineProofs` | proofs about `UiMachine`, the refinement included, and about `ResetLight` | `UiRefinement`, `ResetLight` |
| `LeaseWatchdog` | the lease, its warning, what may cover it, and the task watchdog on real time, over reboots | `UiLight` |
| `LeaseWatchdogProofs` | proofs about it | `LeaseWatchdog` |
| `BootButton` | pin, debounce, virtual button, hold and light on real time | `UiLight` |
| `BootButtonProofs` | proofs about it | `BootButton` |
| `Events`, `Packets` | decoding, mapping, encoding, the three decoders, the log | |
| `EventPath`, `EventPathMC` | gesture, frame, motion slots, packet, name; and its instance | `Packets` |
| `EventPathProofs` | proofs about it | `EventPath` |
| `LossyStream` | abstract specification of the USB port: some events are lost, the others come in order and once | |
| `UsbStream` | queue, writer task, driver's buffer, cable, monitor; implements `LossyStream` | `LossyStream` |
| `UsbStreamProofs` | proofs about it, the refinement included | `UsbStream` |
| `RouterExtension` | heartbeats and routing of the extension | |
| `SoftRejoin` | the extension's soft rejoin, its join window, the user, reloads | |
| `ExtensionMC` | the two for TLC, each running while the other is at rest: they share no state, and each property is about one of them | `RouterExtension`, `SoftRejoin` |
| `ExtensionProofs` | proofs about the two | `RouterExtension`, `SoftRejoin` |
| `ActionTable` | the writing of the action table, and its progress | |
| `ActionTableProofs` | proofs about it | `ActionTable` |

The composition has two levels. `Gateway` does not carry the clocks of the UI
state machine, which would make it too large; it is built on `UiPhases`, in which
a hold may complete and a time-out may pass at any time, and `UiRefinement` shows
that the machine of `cr11_ui_state.c` takes no other step than `UiPhases` allows.
What depends on real time is checked on the concrete record, by `ResetLight`,
`LeaseWatchdog` and `BootButton`, with the part of the runtime that matters there.

An operator whose name has an underscore, `X_Y`, is `X` with a mistake of the kind
that an edit of the code might make; no specification uses it. It shows, for each
property, that the property depends on the code it is about.

### How a module corresponds to the code

*UiState.* One operator per function, `F(s, ..., now)`, giving the record after
the call; `Advance` is the chain of `AdvanceJoin` to `AdvanceResult` in the order
of the code. `UiMachine` calls them with a stamp that may lie `MaxLag` before the
last call and up to `MaxGap` after it. Of its history, `spent` says that the present hold
has had its effect or missed it and has not been counted anew since, which the start
and the first retry of the stack do to a BOOT that is down; `taken` that it has had an effect, however
often it is counted.

*Gateway.* `queue` is `runtime.queue`; `HandleMessage` one turn of the drain loop;
`FinishCycle` the rest of the cycle, with `dispatch_actions`: posted functions,
and the write of the marker, which may fail before or after the value is in the
flash. `posted` and `alarms` are what waits for the Zigbee task and the timers;
`RetryTimer`, `StartSteering` and `BeginLocalReset` are the functions that then
run. `Initialized` to `NotSteered`, `ResetLeaves` and `CoordinatorRemoves` are the
branches of `zigbee_signal_handler`, each with all it posts and schedules.
`Reboot` clears what is in RAM; `ApplyWipe` and `CleanUp` are the two writes of
`init_nvs`, between which the power may go. `Faults` says which calls may fail.

*UiLight.* `LightAt(s, now)` is `cr11_ui_state_led`: an effect, a colour, and for the
gradient of the lease warning its level in place of the components.

*LeaseWatchdog*, *BootButton* and *ResetLight* have a cycle in three steps, `BeginCycle`,
`HandleMessage`, `EndCycle`, because messages may be posted in between. `EndCycle` has the
button, `cr11_ui_state_advance`, the watchdog, `dispatch_actions` as far as it changes the
record, and `apply_led`, of which `LeaseWatchdog` keeps what the light showed when the
warning was at its last pulse (`atLastPulse`), and `BootButton` the effect. In
`ResetLight` it is two steps, `Act` and `ApplyLed`, and time passes within a cycle too,
since writing the marker to the flash takes some. `light` is
`emitted_led.effect`; `litSince`, since when, is history. The messages of `LeaseWatchdog`
are all that a commissioned gateway can post, but for requests for the status, which
change nothing; a GATEWAY_EVENT lets time pass and covers the light for its flash, and BOOT
may be down or up in any cycle.

*UsbStream.* `Receive` and `Write` are the two halves of `usb_task`, between which the
cable may be pulled. `Write` puts into the driver's buffer what there is room for, or
less. `Read` is the monitor's loop for one character, with the line it collects and the
flag by which it skips the rest of one that is too long; `decode_frame_line` is
`IsFrame`. A frame is a few pieces; a damaged piece is no newline and belongs to no
frame, which is what length and checksum are there for. `Leave` ends the monitor with
what it had read and not used. `blamed` collects, as history, the events whose loss has
a reason.

*SoftRejoin.* `onMQTTMessage` for one request, an action from each `await` to the next:
`Opened`, `Left`, `Closed`, `Confirmed` and `Failed` are the ways on from `permitJoin(60)`,
`sendRaw`, `permitJoin(0)` and the two answers, each with success and failure; a
`permitJoin` that fails may have opened the window or not, and a `sendRaw` that fails may
have told the remote to leave or not (the third disjunct of `Left`: the frame went
out, `leaveSent` stays false, and the catch block closes the window). `calls` holds
what each request awaits with its local variables. `granted`, `promised` and `doubtful` are
history: the time for which there is a reason for an open window, the time that a remote
has been given, and the requests whose leave went out and was reported as failed.

*EventPath.* A gesture is turned into the frame that the four-target plan
(`routerPlan`), the rockers and the window endpoint use for it; `RawZclHandler` is
the whole of `raw_zcl_handler`; `wire` has the very bytes, `log` what the debug log
prints of the packet, `flash` the colour that the light is asked for. `Noise` sends frames
that mean nothing.

*RouterExtension.* An action is what runs between two awaits. The age of an entry
of `seen` stands for its time stamp. The loop that deletes what has expired drops the
head of the table (`Fresh`), since the entries stand in the order of their ages;
`FreshTheorem` says that this is the same. What the network still has of a packet is in
`packets`; so is the history that the properties need.

*ActionTable.* A call's state is what it awaits: an answer, or the pause before
another attempt. `Progress` is `installProgress` with what `protocolResponse`
publishes of it. The two orders in which a promise and the converter get to see an
answer are both there. `Next` has the guards of the code and no other; `TimelyNext` is `Next`
with an assumption on the surroundings (section 4). A record that a raw `add_big`
writes is `RawRecord`, which is in no plan.

## 3. The runs

| Run | Question | Size |
|---|---|---|
| `ui_machine` | Do the invariants and action properties of the UI state machine hold, and does it implement `UiPhases`? | three units of time |
| `gateway` | Safety of the firmware over three boots, with every fault but `cleanup` | queue of 2, two timers of a mode |
| `gateway_fair` | Do resets end, and are starting, restoring and joining tried until they succeed, over a reboot and with failing calls? | queue of 2, one reboot |
| `reset_light` | Are the red light and the result of a reset lit for their time? | 11 units of time, 4 messages and moves of BOOT, queue of 1 |
| `lease_watchdog` | Does the watchdog bite silence, in time, only silence, and after the warning? | lease of 4, 8 units of time, 3 reports and moves of BOOT in a boot, one bite |
| `boot_button` | Does a hold take effect only if BOOT is really held and the light tells of it? | hold of 4, limit of 5, four moves |
| `event_path` | Is what is published, logged and flashed what the user did? | 6 links, 2 slots, 4 frames |
| `usb_stream` | Does the monitor print genuine events in order and once, and is a loss ever without a reason? | 5 events, queue of 2, buffer of 5 pieces, 2 mishaps |
| `extension` | Is each packet published once and not never; do heartbeats go on, singly; is the join window open only, and always, as long as it has to be? | 3 packets, 2 copies, 2 boots; 2 requests, one reload, one window of a user |
| `action_table` | Is what is shown what is written? | two operations of any kind, 2 records |
| `ui_hold_recounted`, `action_table_overlap` | Disagreements, section 6 | as small as shows them |

### What they show

`ui_machine`: whatever calls are made, no unsigned difference wraps
(`NoUnderflow`); a lease belongs to the present stay in READY; after a watchdog boot
the lease is armed only by the supervisor; an action follows a whole hold; and a hold that
has had its effect, or began where nothing is offered, or lost its network, has no effect
any more until BOOT is released or the stack starts or first retries, which count it
anew (`SpentHoldStaysSpent`). So one hold does not always buy one action: section 6.
`KeepsPromise` is the refinement of `UiPhases`. That a press belongs to the action that
the phase offers, that TERMINAL and ERROR are final and that a reset goes forward unless
the stack starts in its middle is proved, and so not run.

`gateway`: a marker in the flash is always shown (`MarkerIsShown`), at most one
commissioning runs or waits, a reset ends finally, and a network is gained only
after a hold of BOOT and wiped at boot only if it was given up. `NeverStranded`: the
gateway never waits for a network that nothing could bring, in STARTING, RESTORING or
JOINING with no commissioning, timer, posted function or message left, unless one of five
calls has failed in this boot, of which the code only logs the failure, or not even
that: the first start (main/cr11_bridge.c:351), a start by a retry timer (:304), the
timer itself (:317), the posting of a steering (main/cr11_ui_runtime.c:306), and the
message with which the stack reports a success (:126). Behaviours in which the stack's
start interrupts a reset are left out here; the trace of `ui_hold_recounted` shows what
such a start does.

`gateway_fair`: every reset ends, although the stack may answer late or never;
STARTING, RESTORING and JOINING are left once the network is there, unless one of the
five calls has failed; purple, the result of a forced reset, is shown only with the
marker in the flash.

`reset_light`: the phases keep their times by their own stamps, which the code may
backdate, and one late call of `advance` may go from LEAVING over a result to TERMINAL. What is seen is
another question. `ResetIsSeen`: when green or purple comes, red has been lit until then
for `LEAVE_MIN_RED`, and when the terminal pattern comes, green or purple has
been lit until then for `RESULT`, each but for `Slack`, the time from the
sample of one cycle to the light of the next. No result is skipped as long as a
cycle is that much shorter than the lights (`ShortCycleAssumption`; 10 ms and what a
cycle takes against one second). For a cycle later than that neither would hold: the
code has nothing but the scheduling of the UI task to rely on.

`lease_watchdog`: silence is noticed within the guard, the two cycles it takes to
handle a message and the retries of failed registrations; a bite answers a
silence of the whole lease, but for a heartbeat that comes so late that the UI
task cannot have seen it; and before it bites, the warning has come to its last pulse
and the light has shown it, which it would not without `FINAL_PULSE_GRACE`, unless a hold of
BOOT or the flash of an event was in its place (`LastPulseSeen`): the flash lasts as
long as a pulse and can cover the whole of it, and no failed call is needed for
that.

`boot_button`: a release stops the hold within the debounce and the cycles under
way; joining and resetting happen only while the effective button has been down
for the whole hold on the real clock, and with the light of that hold, whatever event,
warning or phase it would otherwise show; a virtual press ends at its limit and not
before, unless it is stamped later than the sample of the clock (section 6).

`event_path`: whatever is sent is read alike by the converter, the monitor and the
firmware's decoder, and logged so, as a valid event, whose published name is the gesture, `plain` and `selected`, and
whose button is among those that the log guesses and has the colour that
the light flashes. No gesture is lost as long as
the links that have ever held a button fit into the slots; beyond that only
releases are. A slot tells the direction of its link's present hold and none
otherwise. The slots are never given back, so an active hold can be evicted
although other slots are idle; 32 slots make this rare, not impossible.

`extension`, the routing: a packet is published once, unless as many packets as the
table has room for came in between or it is late by more than the window (which the
delays of the run do not reach, and the proof, for any delay, has to name); a first delivery is dropped only if the
gateway has rebooted and the number was used for the same remote within the
window; heartbeats never overlap, end with the extension, although its timer may
outlive it (`stop()` during the first heartbeat of `start()`), and go on
otherwise.

`usb_stream`: `KeepsPromise`, the refinement of `LossyStream`: what is printed are events
that were submitted, in their order and once each, over damage, cut frames, readers that
leave in the middle of a line and reboots. `OnlyBlamedAreLost`: when all is quiet, each
event has been printed, or it met a full queue or buffer, a missing host or reader, or
damage; a cut frame or a damaged newline costs the next frame and never one after that.
`NeverBlocks`: no event stays in the gateway, whatever the host does.

`extension`, the soft rejoin: with nothing in progress the window is open only for as long as the user
asked, a remote was told to leave, or closing it has failed (`WindowHasReason`); a
remote that was told to leave finds it open for the time the answer promises, unless the
user set the window anew, another request failed and closed it, or the leave itself was
reported as failed although it had gone out, for then the same request closes the window
on the remote and answers "error" (`ReturnStaysOpen`; without any of the three exceptions it
does not hold); each request ends and lets in the next.

`action_table`: a setup shown as `gateway_ready` or `direct_ready` has left
exactly its plan, or nothing, in the table; the device's time-out is put back; a
setup does not stay under way. All three under `TimelySpec` (section 4), and with no raw
commands; section 6 has what raw commands and late answers do.

### Bounds, and why they are enough

* *Times* are small multiples of a unit. The code compares differences of times
  with constants, each of which appears with a value of its own; where two
  constants are equal no code compares them with each other (the comments in the
  .cfg files say which). `UiMachineProofs` removes the bound for its properties.
  The assumption `TimeAssumption` states what the constants of the header satisfy.
* *QUEUE_LENGTH* = 2 lets messages wait behind one another and be lost;
  `GatewayProofs` removes the bound.
* *MaxBoots* = 2: a reboot in the middle of a wipe and one that follows it.
* *MaxAlarms* = 2: the second timer of a mode is what `OneCommissioning` denies;
  with faults, a run with 2 has the room to show it.
* *ResetLight*: every light lasts three units and `Slack` is two, so that one cycle more
  would skip one. 11 units are a hold, a leave that times out and is answered late, both
  results and the terminal pattern; four moves are the hold, its release and two
  messages of any kind; a second slot of the queue is not needed, as a message waits for
  a whole cycle in the first. `UiMachineProofs` removes these bounds.
* *LeaseWatchdog*: the warning has pulses before its last one, the guard is shorter than
  the lease by less than a pulse's period, and the grace moves the bite behind the last
  pulse: with one unit less it does not hold. 8 units are a lease, a grace, and a
  heartbeat before; three moves a start of the stack, a flash and a press of BOOT. The
  boot after a bite is run until it would be bitten, and not bitten again. `LeaseWatchdogProofs` removes the bounds on time, queue, commands
  and failures.
* *BootButton*: a hold is longer than a release may go unnoticed, and the limit of a virtual
  press longer than a hold, so that each bound can be missed; `BootButtonProofs` removes these bounds, too.
* *EventPath*: two slots and three holding links force an eviction; the fourth
  frame is the stop that has lost its direction. The sequence wraps after 3. All
  endpoints and both kinds of address are there, and every gesture on each.
* *RouterExtension*: `LIMIT` = 2 and three packets push an entry out; a window
  and a delay of one unit let an entry expire before, with and after a second
  delivery; two boots repeat a number. `ExtensionProofs` removes these bounds.
* *UsbStream*: a buffer of one frame and a part of another cuts the second one before its
  newline; a line of one body and not of two is what `MAX_BUFFERED_LINE` is; two mishaps
  combine a damaged or cut line with a reader that leaves or a reboot.
* *SoftRejoin*: two requests, which can run at once across a reload, or of which the second
  is refused; a window shorter and longer than the extension's own.
* *ActionTable*: two records and a clear make a first, a middle and a last
  answer; one retry stands for three; two handlers give an operation after and
  during another one.

Deadlock checking is off where a bound makes the model stop (`MaxTime`,
`MaxFrames`, `MaxBoots`) or where the system really comes to rest (a table
written, a factory-new gateway that nobody touches).

## 4. Environment and fairness

*The Zigbee stack* is external. It runs one commissioning at a time and refuses a
second, answers each in its time or never, leaves when it is asked to, now or
much later, and may be removed by the coordinator.

*Fairness of `Gateway`.* The UI task runs every 10 ms and handles messages faster
than they come: WF on `HandleMessage`, SF on the dispatch of a full mailbox and on
the time-outs of a reset, since each is disabled again and again by a new message.
(The drain loop has no bound of its own, main/cr11_ui_runtime.c:471; a flood of
messages would starve the rest of the cycle. That the task keeps up is an
assumption.) The Zigbee task and the timers run what they were given: WF. The boot
goes on: WF. Nobody has to hold BOOT, and the stack has to leave never: no
fairness. The one assumption about the world is SF on `Initialized` and `Steered`,
a network that is tried again and again is found in the end; without it no retry
need ever succeed. `FairHistorySpec` leaves out interrupted resets. Its run is with every
fault but `cleanup` and `queue`: with a flood of messages `ResetEnds` fails.

*Fairness of `RouterExtension`.* A timer fires, and a command settles: `endpoint.command`
has a time-out. *Of
`SoftRejoin`.* Whatever is awaited settles, as the calls of the adapter and of the broker
time out. *Of `UsbStream`.* `usb_task`, whose priority is the lowest, gets its turn;
nothing is asked of the host. *Of `ActionTable`.* Time-outs and pauses end, and an answer arrives
or is lost. *Of the surroundings of `ActionTable`*, `TimelySpec` assumes what nothing in
the code enforces: no operation that the guards would let in is requested while an answer
to an earlier one is still under way, and no time-out expires while its answer is. `Spec`
has no such assumption, and under it `ShownIsWritten` does not hold: `seen_responses`
belongs to one operation, and an old answer to `clearBig` that is repeated in a later one
counts for it (z2m/cr11s8uz_external.mjs:658). The promise of an answer and the
converter's callback are assumed to run in the same turn of the event loop.

Other simplifications. A leave that the coordinator asks for during a local reset counts
as the end of the reset, rejoin or not (main/cr11_ui_state.c:251), and is modelled so.
The failures of the three ways out of `emit_gateway_packet` (radio, USB queue, UI queue)
are only logged, and touch no state of `EventPath`. A network window that a failed
`permitJoin` may have left open is open in the whole network.

## 5. What is proved

TLAPS checks, from the assumptions named in the modules only
(`TimeAssumption`, `LightAssumption`, `CycleAssumption`, `ShortCycleAssumption`, `GatewayAssumption`, `LeaseAssumption`,
`SpanAssumption`, `ButtonAssumption`, `RouterAssumption`, `RejoinAssumption`,
`StreamAssumption`, `ActionTableAssumption`, `EventPathAssumption`) and the hypotheses that a theorem states:

*`UiMachineProofs`, for all times, all gaps and all lateness.* The inductive
invariant is `IInv`. Its first part, `Sound(ui)`, joins the type and four
statements about the record: every stored time lies in the past, a press fits its
phase, an armed lease is of this stay in READY, and a result follows its red
light. None of these is inductive alone: `NoUnderflow` needs the phase to know
which times are meaningful, and the lease needs the times. The second part ties
the history variables to the record: how long BOOT has been down (`Counting`),
whether the present hold has had its effect or missed it (`spent`: then
the record has no press that counts), whether the supervisor was heard after a
watchdog boot. The lemmas go in three layers: every operator of `UiState` takes
sound records to sound ones; every call relates the record before to the one
after as `Ages` says; and the histories follow. From `IInv` come the type and the
invariants, and with `StepOK`, what one step may do, the action
properties. `SpentHoldTheorem` says no more than `SpentHoldStaysSpent`: the start and the first
retry of the stack begin a new count, and what docs/FIRMWARE.md says of a release is not a
theorem but a disagreement (section 6).

*`UiMachineProofs`, the refinement.* `RefinementTheorem`, for all times, gaps and lateness:
the state machine implements `UiPhases`. The mapping is `Shown`, the fields that the
rest of the firmware reads. The lemmas first show what an update of the record is on the
shown side (`ShownTo`, `ShownAskFor`), then give for every call the step of
`UiPhases` of the same name; `Advance` needs that its parts change what is shown one at
a time, except that a leave and its result may end in the same call, which follows from
the phases they are for. `IInv` is needed for the type and
for the press that a hold counts. This joins the proofs about the machine with those about
`Gateway`, which is built on `UiPhases`.

*`UiMachineProofs`, the light of a reset, for all times of the machine, any queue, any clock
and any cycle that is short against the parts of a reset (`ShortCycleAssumption`).*
`ResetSeenTheorem` shows `ResetIsSeen`. The property relates three clocks, the real one, the
task's sample of it, and the record's `last_now`, which messages may move ahead of the
sample. `Good` says, in every phase of a reset, how far the three may be apart and since
when the light has been lit: while the light is not red yet, the sample is at most one cycle
later than the start of the leave, so that not enough time can have passed for a result
(`StillEarly`). Every call keeps it (`AdvanceGood` and the lemmas of the calls), also when it passes through
several phases. For the next sample one needs in addition that a cycle ends with the record
caught up (`Caught`) and with the light of its phase (`Matches`, from `LightOfPhase`).

*`GatewayProofs`, for every queue length, number of boots, and set of faults.*
The type, with the bound of the queue; `ForcedResultIsDurable`, from `DurableInv`:
a booting gateway shows nothing, and a result that is shown has its marker;
`EndsFinally` for behaviours without an interrupted reset; and `MarkerIsShown`
for those in which moreover a marker can be erased, from `MarkerInv`. The last
needs `WipePending`: a request for a forced wipe in the mailbox is still in
FORCE_PENDING when it is taken, as else the marker would be written in a phase
that does not show it. `Quiet` collects what all calls but the start of the stack
and the answer to the wipe leave alone.

*`GatewayProofs`, the history, for every queue length, bound and set of faults, as long as
no start of the stack interrupts a reset.* `OneCommissioning` needs `CommissionInv`, which
joins what holds of the queue with what holds of the stack: who is joining has nothing but
commands of the supervisor in the queue, nothing that settles the network follows its loss,
and a joined network comes first. With it, none of the three tasks that may commission can
find another one's commissioning. `NeverStranded` follows from `RestInv`: when nothing
runs and nothing is asked for, either the phase does not wait, or a message that ends the
wait is in the queue, or one of the five calls has failed. `JoinsOnlyWhenAsked` and
`WipesOnlyWhenRenounced` carry the history along (`AskedInv`, `RenouncedInv`); the second
supposes that the marker can be erased, since otherwise it fails (section 6).

*`LeaseWatchdogProofs`, for any queue, clock, number of commands and number of failed
calls, and all spans in the proportions of the code's (`SpanAssumption`: the task's
period is short against all others, the pulses of the warning divide its span evenly, and
the grace for the last pulse is a small part of the guard; 10 ms, 2 s in 20 s, and 200 ms
of 5 s in the code).* The inductive invariant is `LeaseInv`. `SilenceIsNoticed` is not
inductive: it needs `ArmInv`, which follows the lease from its last ping over the
registration of the watchdog, with what each failed call has cost, to the deadline. That
the deadline belongs to the lease that counts now (`Silent`), or that the running cycle
has handled a message and ends with a cancel (`Renewed`), is half of `WarnInv`. The other
half is that while the watchdog counts and the last pulse has not been shown, the next
sample still comes in time to show it: a cycle begins in every period, the pulse is at least
as long as a period, and the grace keeps the watchdog waiting for two (`WholePeriods` does
the arithmetic of the pulses). That it comes in time does not mean that it is seen: the
theorem says that the light shows it, or a hold of BOOT or the flash of an event, which
`cr11_ui_state_led` puts above it. `HeardInv` and `SpokeInv` do the same for the
supervisor's last command, which is in the queue or has renewed the lease. From these come
`SilenceIsNoticed`, `BitesOnlySilence` and `LastPulseSeen`.

*`BootButtonProofs`, for any debounce, hold, limit, period, lag and queue.* The lemmas
say first what a call of the state machine makes of a hold: `Aged` relates the record before
and after, and a phase is left for JOINING or LEAVING only by a hold that has lasted;
`CycleFacts` puts them together for the end of a cycle. The inductive invariant is
`ButtonInv`. `ReleaseStopsHold` needs the chain from the finger to the record: `PinInv`
bounds how long the debounced pin outlives the last sample that saw BOOT down,
`OrderInv` says that a virtual press that the console has taken back has its release
behind it in the queue, so that a cycle that has emptied the queue goes by the console's last
word, and `EffectiveInv` adds the cycle that is under way. `HoldInv` says that a hold
that counts has been counted since the effective button went down and is what the light
shows; messages with later stamps let the record age, and may complete a hold ahead of
the task's own sample of the clock, but not ahead of the real one. `VirtualInv` is for
`VirtualHoldLimited`.

*`UsbStreamProofs`, for every length of a frame, the queue, the driver's buffer and the
monitor's line.* `OrderInv` says that the reader's line and the driver's buffer together
are pieces of submitted events in the order of submission, that the queue is ascending and
later than these, and that what has been printed is earlier. From it,
`PromiseTheorem` shows that the stream implements `LossyStream`; what is on its way in the
abstract sense is what still has its whole body in the stream, or is in the queue. The
lemmas about `Thins`, a sequence that loses a part or has pieces damaged, stand for everything that
may happen to the cable. `OnlyBlamedTheorem` needs more: `CareInv` says of each
event that has not been blamed that it is printed, queued, or intact in the stream,
which means with a line's end or the beginning of the stream before it.

*`ExtensionProofs`, the routing, for any number of remotes, packets, deliveries and boots,
and any window, limit and delay.* `RouterInv` joins the table with the packets that the
network still has. `PublishedInv`: a packet that has been published, is within the window
and has fewer than `LIMIT` packets after it is in the table, with an entry that is not older
than the packet and has no more entries after it than packets were taken since; the
lemmas about suffixes follow an entry through the deletion of what has expired and of
what is too much (`TableKeeps`, `TableNew`). So its second delivery finds it:
`PublishedOnce`. `EntryInv` is the other direction: an entry that has not expired is that of a
packet which was delivered, so what is dropped has been published or shares its number
with a packet of another boot: `FreshIsPublished`, with `NumberInv` for the packets of
one boot. `OneHeartbeat` follows from the flag (`FlagInv`).

*`ExtensionProofs`, the soft rejoin, for any number of requests, reloads and windows of
the user, and any length of the windows.* `WindowHasReason` and `ReturnStaysOpen`, from
`RejoinInv`. Neither is inductive alone: that a request which fails before the leave is
sent goes on to close the window needs the flags of the call, and that closing it
hurts no remote of its own needs that it has promised nothing yet, or that its leave
was reported as failed. `Before` says both
for each `await`. `OneCall` states once what a step must show of the one call it
moves; the lemmas of the actions cite it.

*`ActionTableProofs`, for any number of calls, records, retries and deliveries.* The
inductive invariant is `TableInv`: at most one setup or installation is under way
(`Busy`), the pending operation of the converter and the call agree on how many commands are
confirmed (`Knows`), every answer under way is to a command that has been
counted or to the one that is awaited, and the table holds what the confirmed commands
have written (`Told`). The two orders in which call and converter see an answer are shown to give the
same (`DeliverGoesOn`, `DeliverEnds`). From it come `TimeoutRestored` and
`ShownIsWritten`. Both have two hypotheses, which the code does not enforce: only setups and
installations are requested (`Operations \subseteq Installs`), as a raw command may overlap
with them, and both are then false (`action_table_overlap`, and section 6); and the
behaviour is one of `TimelySpec`, in which no answer outlasts the operation that awaits
it, without which `ShownIsWritten` is false.

*`EventPathProofs`, for any number of slots, links and frames.* `SlotsInv` says that no
link has two slots and that a slot's direction, with the rocker of its link, names the
button that is held; of it `SlotsTellHolds` is what the property says of used slots. The
lemmas `Decode...` tell the kind of event of each frame, so that holds, stops and all the
rest are one lemma each about the slots (`RememberSound`, `ForgetSound`, `QuietSound`).
`NothingLost` needs in addition what becomes of the links that ever held a button:
`HoldersInv` says that each keeps its slot, unless there are more of them than slots
(`EvictionCrowds`, by the pigeonhole principle: the slots are given to distinct links).
The lemmas `Map...`, `BuildFacts` and `EncodeFacts` then follow an event to the
packet that is sent.

Only model-checked:

* liveness (`ResetEnds`, `RetriesContinue`, `NeverBlocks`, `RequestsEnd`, `HeartbeatsGoOn`,
  `SetupSettles`), which is out of the prover's reach;
* `ActionIsGesture`: it compares what three decoders read with what was encoded, and the
  numbers are read by a fold, whose value the provers do not compute.

The modelled operators that the proofs use have disjoint guards in their CASEs, since
TLA+ leaves open which of two that hold is taken.

## 6. Disagreements

* `ui_hold_recounted`. BOOT is held while the saved network is being restored, the reset
  begins, and the network comes back: `cr11_ui_state_stack_started` sets READY in the middle
  of the reset, takes the BOOT that is still down for a new press
  (main/cr11_ui_state.c:103), and it begins a second reset. docs/FIRMWARE.md:50 says that the
  button must be released before, and docs/INSTALLATION.md:245 that a reset is terminal.
  `cr11_ui_state_stack_retrying` has the guard for the phases of a reset that is missing here.
* `action_table_overlap`. A raw command that overlaps a setup saves the raised
  time-out of the device and puts it back last; z2m/tests/test_cr11s8uz_external.mjs:239
  expects the original one.

Met on the way, without a run of its own:

* If the marker cannot be erased after a wipe (main/cr11_bridge.c:1022), the start goes
  on, and the network joined since is wiped at the next boot; `WipesOnlyWhenRenounced`
  fails if `cleanup` is added to the faults of the run.
* A retry that the stack refuses is logged and not scheduled again, and the gateway stays
  in RESTORING, which CHANGELOG.md:60 describes as retrying on; `NeverStranded` without
  `NoRetry` fails.
* A virtual press that is posted while the UI task is in a cycle carries a later time than
  the cycle's sample; the difference wraps, and the press is released at once
  (main/cr11_ui_runtime.c:447). `VirtualHoldLimited` names this case.
* docs/FIRMWARE.md:62 describes the restoring pattern with a green flash; the code's
  flashes are yellow and orange.
* A colour that could not be written to the LED is remembered as shown
  (main/cr11_ui_runtime.c:214) and not written again until it changes.
* The light of a reset is as long as the code says but for the cycles at either end
  (`reset_light`); docs/FIRMWARE.md:78-85 has the times without them.
* The last pulse of the lease warning may be covered by a flash or a hold. No document says
  otherwise; the watchdog bites all the same.
* The answer to a raw `add_big` that overlaps a setup is counted for a record of the plan,
  and `gateway_ready` is shown before the last record is written, which README.md:97
  excludes; no answer need be late or repeated for it.
* An answer that comes after its time-out, or again in a later operation, is counted for
  that operation (`ShownIsWritten` fails under `Spec`).
* A soft rejoin whose `sendRaw` fails after the frame went out closes the window on a remote
  that leaves. The extension's test of a failing `sendRaw` expects just that
  (z2m/tests/test_cr11_gateway_extension.mjs:296), so this is a limit and not a disagreement.
* A soft rejoin whose answer "sent" cannot be published is answered with "error" although
  the remote was told to leave; and a request that fails closes the window that another
  one, of an instance before a reload, or the user has opened.
* While one setup runs, a second press of the same control shows "error" until the first
  one's next answer.

## 7. Plan

Done, in this order: the UI state machine with its proofs; its abstract
specification and the refinement; the firmware around it, with proofs; the two
modules on real time; the path of events; the extension; the action table; the light,
within the modules on real time; what strands the gateway; the USB stream with its
abstract specification; the soft rejoin with its proofs; the light of a reset; then, as
proofs, the refinement of `UiPhases`, which joins the proofs about the record with those about the firmware, the
properties of `GatewayHistory`, the USB stream, the action table, the motion slots, the
routing of the extension, the lease watchdog and the button on real time.

With this every invariant and every action property of the runs has its theorem but
`ActionIsGesture` (section 5). Left to do, should the code grow that way: an abstract
specification of the lease that `Gateway` could be built on as it is on `UiPhases`, so
that its watchdog needs no choice of its own; and the plans of the CR11 converter other than
the four-target one (section 8).

## 8. Not modelled

The LED strip's driver, printing, and the assembly of console lines from characters;
registration of endpoints and the stack's own start; the arithmetic of the checksum;
profile, transaction number, signal strength and source endpoint of a packet, which
nobody interprets; the names of phases, colours and effects in the log. Of the CR11
converter: the conversion of commands that a remote sends to the coordinator itself. It
keeps for each device the selected column, the mode and the last button of either rocker,
in which the plans `portable`, `independent` and `dual-level` would matter; but the
setups that the repository offers leave the coordinator the clicks of the buttons 1 to 4
(docs/INSTALLATION.md:230), a table of four entries, and make 5 to 8 inactive, so that
nothing says what the state is for. For the same reason the plans other than the four-target one
are left out, and the raw commands that do not
write the Big table. The debug switch selects what is printed. The scripts that build,
flash and install run once, on files and processes.
