------------------------------ MODULE SoftRejoin ------------------------------
(***************************************************************************)
(* The soft rejoin of cr11_gateway_router_extension.mjs: an MQTT request for  *)
(* which the extension opens the join window and tells a remote to leave and *)
(* to rejoin, and which it answers.  A function runs without interruption up *)
(* to an await; what it awaits may fail, and what has failed may have taken  *)
(* effect all the same.                                                     *)
(*                                                                         *)
(* The network, its join window and the user, who opens and closes the       *)
(* window too, are external, as is Zigbee2MQTT, which may reload the         *)
(* extension: a new instance, while a request of the old one goes on.        *)
(*                                                                         *)
(* An operator named X_Y is a mutant of X; no specification uses it.         *)
(***************************************************************************)
EXTENDS Naturals

CONSTANTS
    JOIN_WINDOW,    \* SOFT_REJOIN_JOIN_WINDOW_SECONDS
    MaxWindow,      \* the longest window that a user asks for
    MaxRequests,    \* bound on the requests
    MaxReloads,     \* bound on the reloads of the extension
    MaxUserPermits  \* bound on the user's own windows

ASSUME RejoinAssumption ==
    /\ {JOIN_WINDOW, MaxWindow, MaxRequests, MaxReloads, MaxUserPermits} \subseteq Nat
    /\ 0 < JOIN_WINDOW

Ids == 1..MaxRequests
Instances == 0..MaxReloads

VARIABLES
    instance,       \* the instance that gets the requests
    running,        \* softRejoinRunning of each instance
    calls,          \* onMQTTMessage for each request: what it awaits, and its locals
    window,         \* seconds until the join window closes
    userPermits,    \* windows opened and closed by the user so far
    granted,        \* history: seconds for which there is a reason for an open window
    promised,       \* history: seconds left to the remote that each request told to leave
    revoked,        \* history: requests whose window somebody else has closed
    doubtful        \* history: requests whose leave was sent and yet reported as failed

network == <<window, userPermits>>
history == <<granted, promised, revoked, doubtful>>
rejoinVars == <<instance, running, calls, network, history>>

\* A call before it begins and after it has returned.
Call(place) == [at |-> place, owner |-> 0, joinWindowMayBeOpen |-> FALSE,
                leaveSent |-> FALSE]

RejoinInit ==
    /\ instance = 0 /\ running = [i \in Instances |-> FALSE]
    /\ calls = [q \in Ids |-> Call("unsent")]
    /\ window = 0 /\ userPermits = 0
    /\ granted = 0 /\ promised = [q \in Ids |-> 0] /\ revoked = {} /\ doubtful = {}

At(q, place) == calls[q].at = place

Becomes(q, call) == calls' = [calls EXCEPT ![q] = call]

Goto(q, place) == Becomes(q, [calls[q] EXCEPT !.at = place])

Least(a, b) == IF a < b THEN a ELSE b
Most(a, b) == IF a < b THEN b ELSE a

-----------------------------------------------------------------------------

\* The requests come one after the other.
Arrives(q) == At(q, "unsent") /\ \A p \in 1..(q - 1) : ~At(p, "unsent")

\* onMQTTMessage up to its first await.  A message that is no request for a known
\* remote, and one that comes while another is running, is answered with an error.
Reject(q) ==
    /\ Arrives(q) /\ Becomes(q, Call("rejecting"))
    /\ UNCHANGED <<instance, running, network, history>>

Request(q) ==
    /\ Arrives(q) /\ ~running[instance]
    /\ running' = [running EXCEPT ![instance] = TRUE]
    /\ Becomes(q, [at |-> "opening", owner |-> instance,
                   joinWindowMayBeOpen |-> TRUE, leaveSent |-> FALSE])
    /\ UNCHANGED <<instance, network, history>>

MustClose_WhenOpened(call) == call.at = "leaving"

MustClose_WhenAsked(call) == call.joinWindowMayBeOpen

\* The condition on which the catch block closes the window.
MustClose(call) == call.joinWindowMayBeOpen /\ ~call.leaveSent

\* The catch block up to its first await.
Caught(q) == Goto(q, IF MustClose(calls[q]) THEN "closing" ELSE "failing")

\* permitJoin(60) settles; a window that it could not open everywhere may be open
\* in a part of the network.
Opened(q) ==
    /\ At(q, "opening")
    /\ \/ window' = JOIN_WINDOW /\ Goto(q, "leaving")
       \/ window' \in {window, JOIN_WINDOW} /\ Caught(q)
    /\ UNCHANGED <<instance, running, userPermits, history>>

\* The remote is told to leave, and has the time that the answer promises, if the
\* window is that long.
TellsToLeave(q) == promised' = [promised EXCEPT ![q] = Least(window, JOIN_WINDOW)]

\* sendRaw settles.  The remote does not confirm the leave, so that the catch block
\* cannot tell a frame that was not sent from one that went out before the call
\* failed: leaveSent is FALSE for both.
Left(q) ==
    /\ At(q, "leaving")
    /\ \/ /\ Becomes(q, [calls[q] EXCEPT !.at = "confirming", !.leaveSent = TRUE])
          /\ TellsToLeave(q)
          /\ granted' = Most(granted, window)
          /\ revoked' = revoked \ {q}
          /\ UNCHANGED doubtful
       \/ Caught(q) /\ UNCHANGED history
       \/ /\ Caught(q)
          /\ TellsToLeave(q)
          /\ doubtful' = doubtful \union {q}
          /\ UNCHANGED <<granted, revoked>>
    /\ UNCHANGED <<instance, running, window, userPermits>>

\* permitJoin(0) settles.  The catch block goes on if it fails.
Closed(q) ==
    /\ At(q, "closing") /\ Goto(q, "failing")
    /\ \/ /\ window' = 0 /\ UNCHANGED granted
          /\ revoked' = revoked \union (Ids \ {q})
       \/ UNCHANGED <<window, revoked>> /\ granted' = Most(granted, window)
    /\ UNCHANGED <<instance, running, userPermits, promised, doubtful>>

Finally_OnSuccess(q) ==
    running' = IF At(q, "confirming") THEN [running EXCEPT ![calls[q].owner] = FALSE] ELSE running

\* The finally block, after which the call returns.
Finally(q) == running' = [running EXCEPT ![calls[q].owner] = FALSE]

\* The answer `sent' is published, or cannot be.
Confirmed(q) ==
    /\ At(q, "confirming")
    /\ \/ Becomes(q, Call("done")) /\ Finally(q)
       \/ Caught(q) /\ UNCHANGED running
    /\ UNCHANGED <<instance, network, history>>

\* The answer `error' is published, or its failure is passed to the event bus.
Failed(q) ==
    /\ At(q, "failing") /\ Becomes(q, Call("done"))
    /\ Finally(q)
    /\ UNCHANGED <<instance, network, history>>

Rejected(q) ==
    /\ At(q, "rejecting") /\ Becomes(q, Call("done"))
    /\ UNCHANGED <<instance, running, network, history>>

Settles(q) == Opened(q) \/ Left(q) \/ Closed(q) \/ Confirmed(q) \/ Failed(q) \/ Rejected(q)

-----------------------------------------------------------------------------

Less(n) == IF n = 0 THEN 0 ELSE n - 1

SecondPasses ==
    /\ window > 0
    /\ window' = Less(window) /\ granted' = Less(granted)
    /\ promised' = [q \in Ids |-> Less(promised[q])]
    /\ UNCHANGED <<instance, running, calls, userPermits, revoked, doubtful>>

UserPermit ==
    /\ userPermits < MaxUserPermits /\ userPermits' = userPermits + 1
    /\ \E seconds \in 0..MaxWindow : window' = seconds /\ granted' = Most(granted, seconds)
    /\ revoked' = Ids
    /\ UNCHANGED <<instance, running, calls, promised, doubtful>>

\* stop() takes the listener away and leaves a running request alone.
Reload ==
    /\ instance < MaxReloads /\ instance' = instance + 1
    /\ UNCHANGED <<running, calls, network, history>>

RejoinNext ==
    \/ \E q \in Ids : Reject(q) \/ Request(q) \/ Settles(q)
    \/ SecondPasses \/ UserPermit \/ Reload

\* Whatever is awaited settles: the adapter's and the broker's calls time out.
RejoinFairness == \A q \in Ids : WF_rejoinVars(Settles(q))

RejoinSpec == RejoinInit /\ [][RejoinNext]_rejoinVars /\ RejoinFairness

-----------------------------------------------------------------------------

InProgress(q) == calls[q].at \in {"opening", "leaving", "closing"}

\* The network is open to strangers only for a reason: a user has opened it, a
\* request is busy, a remote has been told to leave, or closing it has failed.  A
\* request that fails half-way leaves no window behind, not even one that
\* permitJoin has opened before it failed (onMQTTMessage, the catch block).
WindowHasReason == (\A q \in Ids : ~InProgress(q)) => window <= granted

\* A remote that has been told to leave finds the window open as long as the answer
\* says, even if the answer could not be published; unless the user has set the
\* window anew, another request has failed and closed it, or the leave went out and
\* was reported as failed, for then the request closes its own window on the remote
\* and answers `error' (onMQTTMessage, the catch block).
ReturnStaysOpen == \A q \in Ids : q \in revoked \union doubtful \/ promised[q] <= window

\* Every request is answered, or its answer has failed, and the next one is let in
\* (softRejoinRunning).
RequestsEnd ==
    /\ \A q \in Ids : ~At(q, "unsent") ~> At(q, "done")
    /\ \A i \in Instances : running[i] ~> ~running[i]
=============================================================================
