---------------------------- MODULE ActionTable ----------------------------
(***************************************************************************)
(* Writing the action table of a remote (cr11s8uz_external.mjs): the setup   *)
(* controls and raw commands, each handled by a function that awaits one     *)
(* answer of the remote after the other; the converter, which sees the same  *)
(* answers and publishes the progress; and the reports of the assignment     *)
(* mode, without which no table is written.                                  *)
(*                                                                         *)
(* The remote, the radio and Zigbee2MQTT are external.  An answer reaches    *)
(* the waiting function and the converter in one turn of the event loop, in  *)
(* either order; it may be lost, and the radio may repeat it, in which case  *)
(* only the converter sees it again.  z2m is all that the module keeps, with *)
(* the setup state as it was last published.  An operator named X_Y is a     *)
(* mutant of X.                                                              *)
(***************************************************************************)
EXTENDS Naturals, FiniteSets

CONSTANTS
    Handlers,       \* calls of convertSet, each handling one request
    Operations,     \* the operations that are requested
    RECORDS,        \* records of the router plan
    RETRIES,        \* INSTALL_NO_ROUTE_RETRY_DELAYS_MS: attempts after the first
    MaxCopies,      \* bound on the deliveries of an answer
    MaxPresses      \* bound on the changes of the assignment mode

Setups == {"gateway", "direct"}
Installs == Setups \cup {"install_router", "restore_direct"}
Raw == {"add_big", "clear_big"}

ASSUME ActionTableAssumption ==
    /\ Operations \subseteq Installs \cup Raw
    /\ RECORDS \in Nat \ {0} /\ {RETRIES, MaxCopies, MaxPresses} \subseteq Nat

VARIABLES
    z2m,            \* what the module and its functions keep
    listening,      \* the remote is in its assignment mode
    table,          \* the Big table of the remote: records of the plan, or a raw one
    executed,       \* transaction numbers of the commands that the remote has executed
    answers,        \* answers under way
    presses         \* changes of the assignment mode so far

remote == <<listening, table, executed, presses>>
vars == <<z2m, remote, answers>>

WAKE_QUEUE == 45000
NoPending == [op |-> "none"]

\* The record of a raw command; those of the plan are numbered from one.
RawRecord == 0

\* The records that an operation writes; a raw operation is a single command.
Expected(op) ==
    IF op \in {"gateway", "install_router"} THEN RECORDS ELSE 0
Command(call) == IF call.op = "add_big" \/ call.written > 0 THEN "addBig" ELSE "clearBig"

Idle == [op |-> "none", state |-> "idle", written |-> 0, attempt |-> 0, tsn |-> 0, saved |-> 0]

Init ==
    /\ z2m = [pending |-> NoPending, mode |-> "unknown", setup |-> "unknown",
              timeout |-> 0, tsn |-> 0, calls |-> [h \in Handlers |-> Idle]]
    /\ listening = FALSE /\ table = {} /\ executed = {} /\ presses = 0
    /\ answers = {}

-----------------------------------------------------------------------------
(* One call: from its request over its commands to its end. *)

\* entity.command: written counts the commands of the plan that are confirmed.
SendCommand(z, h) ==
    [z EXCEPT !.tsn = @ + 1, !.calls[h].tsn = z.tsn + 1, !.calls[h].state = "awaiting"]

Closing(op) ==
    CASE op = "gateway" -> "gateway_ready" [] op = "direct" -> "direct_ready"
Opening(op) ==
    CASE op = "gateway" -> "configuring_gateway" [] op = "direct" -> "restoring_direct"

Restored_OnSuccess(z, h, ok) ==
    IF ok THEN [z EXCEPT !.timeout = z.calls[h].saved] ELSE z

\* The finally of withWakeQueue.
Restored(z, h, ok) == [z EXCEPT !.timeout = z.calls[h].saved]

Shown_OnSuccess(z, op, ok) ==
    IF op \in Setups /\ ok THEN [z EXCEPT !.setup = Closing(op)] ELSE z

\* The setup state with which tzCr11Human ends.
Shown(z, op, ok) ==
    IF op \in Setups
    THEN [z EXCEPT !.setup = IF ok THEN Closing(op) ELSE "error"]
    ELSE z

\* An operation that was begun ends.
End(z, h, ok) ==
    LET op == z.calls[h].op
        ended == [Restored(z, h, ok) EXCEPT
                    !.pending = IF op \in Installs THEN NoPending ELSE @,
                    !.calls[h] = [Idle EXCEPT !.state = "over"]]
    IN  Shown(ended, op, ok)

Allowed(z, op) == op \in Installs => z.mode = "active" /\ z.pending = NoPending

\* A request up to its first await.  A gateway must have been found for its setup;
\* one that may not begin ends at once, and shows an error if it is a setup.
Request(h, op, found) ==
    /\ z2m.calls[h].state = "idle"
    /\ z2m' =
         IF Allowed(z2m, op) /\ (op = "gateway" => found)
         THEN SendCommand(
                [z2m EXCEPT
                   !.setup = IF op \in Setups THEN Opening(op) ELSE @,
                   !.timeout = WAKE_QUEUE,
                   !.pending = IF op \in Installs
                               THEN [op |-> op, clear_confirmed |-> FALSE,
                                     records_confirmed |-> 0, records_expected |-> Expected(op),
                                     seen_responses |-> {}]
                               ELSE @,
                   !.calls[h] = [Idle EXCEPT !.op = op, !.saved = z2m.timeout]], h)
         ELSE Shown([z2m EXCEPT !.calls[h].state = "over"], op, FALSE)
    /\ UNCHANGED <<remote, answers>>

\* The answer that a call awaits, with its status.
Resolve(z, h, ok) ==
    LET call == z.calls[h]
    IN  IF ok /\ call.written < Expected(call.op)
        THEN SendCommand([z EXCEPT !.calls[h].written = @ + 1, !.calls[h].attempt = 0], h)
        ELSE End(z, h, ok)

-----------------------------------------------------------------------------
(* The converter. *)

Repeated_Never(pending, answer) == FALSE

Repeated(pending, answer) == answer.key \in pending.seen_responses

\* Whether the answer is one that the pending operation waits for.
Counts(pending, answer) ==
    IF answer.key[1] = "clearBig" THEN ~pending.clear_confirmed
    ELSE pending.clear_confirmed /\ pending.records_confirmed < pending.records_expected

Counted(pending, answer) ==
    IF answer.key[1] = "clearBig" THEN [pending EXCEPT !.clear_confirmed = TRUE]
    ELSE [pending EXCEPT !.records_confirmed = @ + 1]

Complete(pending) ==
    pending.clear_confirmed /\ pending.records_confirmed = pending.records_expected

\* installProgress and what protocolResponse publishes of it.
Progress(z, answer) ==
    LET heard == [z.pending EXCEPT !.seen_responses = @ \cup {answer.key}]
        counted == Counted(heard, answer)
        counts == answer.ok /\ Counts(heard, answer)
    IN  IF z.pending = NoPending \/ Repeated(z.pending, answer) THEN z
        ELSE CASE ~answer.ok -> Shown([z EXCEPT !.pending = NoPending], z.pending.op, FALSE)
               [] answer.ok /\ ~counts -> [z EXCEPT !.pending = heard]
               [] counts /\ Complete(counted) ->
                    Shown([z EXCEPT !.pending = NoPending], z.pending.op, TRUE)
               [] counts /\ ~Complete(counted) ->
                    [z EXCEPT !.pending = counted,
                              !.setup = IF z.pending.op \in Setups
                                        THEN Opening(z.pending.op) ELSE @]

\* A report of the assignment mode (fzAssignmentMode).
Report(z, active) ==
    IF active THEN [z EXCEPT !.mode = "active", !.setup = "ready"]
    ELSE [z EXCEPT !.mode = "idle",
                   !.setup = IF z.pending = NoPending /\ @ \in {"unknown", "ready"}
                             THEN "idle" ELSE @]

-----------------------------------------------------------------------------
(* The remote and the radio. *)

\* The remote enters or leaves its assignment mode; its report may be lost.
AssignmentMode(reported) ==
    /\ presses < MaxPresses /\ presses' = presses + 1
    /\ listening' = ~listening
    /\ z2m' = IF reported THEN Report(z2m, ~listening) ELSE z2m
    /\ UNCHANGED <<table, executed, answers>>

Awaiting(h) == z2m.calls[h].state = "awaiting"

\* The remote executes a command, or has no room for it, and answers.
Execute(h, ok) ==
    LET call == z2m.calls[h]
    IN  /\ Awaiting(h) /\ listening /\ call.tsn \notin executed
        /\ executed' = executed \cup {call.tsn}
        /\ table' = CASE ~ok -> table
                      [] ok /\ Command(call) = "clearBig" -> {}
                      [] ok /\ call.op = "add_big" -> table \cup {RawRecord}
                      [] OTHER -> table \cup {call.written}
        /\ answers' = answers \cup {[key |-> <<Command(call), call.tsn>>, ok |-> ok, copies |-> 0]}
        /\ UNCHANGED <<z2m, listening, presses>>

\* The first delivery of an answer resolves the promise of its transaction number.
Waiters(answer) == {h \in Handlers : Awaiting(h) /\ z2m.calls[h].tsn = answer.key[2]}

Deliver(answer) ==
    /\ answers' = (answers \ {answer}) \cup
                    (IF answer.copies + 1 < MaxCopies
                     THEN {[answer EXCEPT !.copies = @ + 1]} ELSE {})
    /\ IF Waiters(answer) = {} THEN z2m' = Progress(z2m, answer)
       ELSE \E h \in Waiters(answer) :
              \/ z2m' = Resolve(Progress(z2m, answer), h, answer.ok)
              \/ z2m' = Progress(Resolve(z2m, h, answer.ok), answer)
    /\ UNCHANGED remote

Lose(answer) ==
    /\ answers' = answers \ {answer}
    /\ UNCHANGED <<z2m, remote>>

\* There is no route to the remote: an installation tries again after a while.
NoRoute(h) ==
    LET call == z2m.calls[h]
    IN  /\ Awaiting(h) /\ call.tsn \notin executed
        /\ z2m' = IF call.op \in Installs /\ call.attempt < RETRIES
                  THEN [z2m EXCEPT !.calls[h].attempt = @ + 1, !.calls[h].state = "waiting"]
                  ELSE End(z2m, h, FALSE)
        /\ UNCHANGED <<remote, answers>>

Retry(h) ==
    /\ z2m.calls[h].state = "waiting"
    /\ z2m' = SendCommand(z2m, h)
    /\ UNCHANGED <<remote, answers>>

\* No answer comes within the time-out.
TimesOut(h) ==
    /\ Awaiting(h)
    /\ z2m' = End(z2m, h, FALSE)
    /\ UNCHANGED <<remote, answers>>

Proceeds(h) == (\E ok \in BOOLEAN : Execute(h, ok)) \/ NoRoute(h) \/ Retry(h)

Surroundings ==
    \/ \E reported \in BOOLEAN : AssignmentMode(reported)
    \/ \E answer \in answers : Deliver(answer) \/ Lose(answer)

Next ==
    \/ \E h \in Handlers :
         \/ \E op \in Operations, found \in BOOLEAN : Request(h, op, found)
         \/ TimesOut(h)
         \/ Proceeds(h)
    \/ Surroundings

Spec == Init /\ [][Next]_vars

-----------------------------------------------------------------------------
(* An assumption on the surroundings, which nothing in the module enforces:  *)
(* no answer comes after its time-out, or is repeated in a later operation.  *)

Answered(h) == \E answer \in answers : answer.key[2] = z2m.calls[h].tsn

InTime(h) == ~Answered(h) /\ TimesOut(h)

TimelyNext ==
    \/ \E h \in Handlers :
         \/ \E op \in Operations, found \in BOOLEAN :
              (answers = {} \/ ~Allowed(z2m, op)) /\ Request(h, op, found)
         \/ InTime(h)
         \/ Proceeds(h)
    \/ Surroundings

TimelySpec == Init /\ [][TimelyNext]_vars

\* Timers expire, and an answer arrives or is lost.
FairSpec ==
    /\ TimelySpec
    /\ \A h \in Handlers : WF_vars(Retry(h)) /\ WF_vars(InTime(h))
    /\ WF_vars(\E answer \in answers : Deliver(answer) \/ Lose(answer))

-----------------------------------------------------------------------------

Plan == 1..RECORDS

\* A setup that is shown to have succeeded has written what it says: the remote
\* holds the whole plan and nothing else, or nothing (installProgress counts the
\* answers, which the radio may repeat within an operation, apart from the function
\* that awaits them).  With answers that outlast their operation, or with raw
\* commands at the same time, it does not hold.
ShownIsWritten ==
    [][/\ z2m.setup # "gateway_ready" /\ z2m'.setup = "gateway_ready" => table = Plan
       /\ z2m.setup # "direct_ready" /\ z2m'.setup = "direct_ready" => table = {}]_vars

\* The time that requests for a sleeping remote are kept is put back when the last
\* call ends, also for calls that are turned down while another one is waiting
\* (withWakeQueue).
TimeoutRestored ==
    (\A h \in Handlers : z2m.calls[h].state \in {"idle", "over"}) => z2m.timeout = 0

\* A setup does not remain under way for ever (tzCr11Human and installProgress).
SetupSettles ==
    z2m.setup \in {Opening(op) : op \in Setups} ~> z2m.setup \notin {Opening(op) : op \in Setups}
=============================================================================
