--------------------------- MODULE ActionTableProofs ---------------------------
(***************************************************************************)
(* Proofs about ActionTable, for any number of calls, records, retries and   *)
(* deliveries.  They rest on two assumptions that the code does not enforce: *)
(* that only setups and installations are requested, none of the raw         *)
(* commands, and that no answer outlasts the operation that awaits it.       *)
(***************************************************************************)
EXTENDS ActionTable, TLAPS

Keys == {"clearBig", "addBig"} \X Nat

Operation ==
    [op : Installs, clear_confirmed : BOOLEAN, records_confirmed : Nat,
     records_expected : Nat, seen_responses : SUBSET Keys]
Pendings == {NoPending} \cup Operation

Calls ==
    [op : Installs \cup {"none"}, state : {"idle", "awaiting", "waiting", "over"}, written : Nat, attempt : Nat, tsn : Nat, saved : Nat]

SetupStates ==
    {"unknown", "idle", "ready", "configuring_gateway", "restoring_direct",
     "gateway_ready", "direct_ready", "error"}

Z2m ==
    [pending : Pendings, mode : {"unknown", "active", "idle"}, setup : SetupStates, timeout : Nat, tsn : Nat,
     calls : [Handlers -> Calls]]

LEMMA SendFacts ==
    ASSUME NEW z \in Z2m, NEW h \in Handlers, NEW y, y = SendCommand(z, h)
    PROVE  /\ y \in Z2m /\ y.tsn = z.tsn + 1 /\ y.pending = z.pending
           /\ y.setup = z.setup /\ y.mode = z.mode /\ y.timeout = z.timeout
           /\ y.calls[h].op = z.calls[h].op /\ y.calls[h].saved = z.calls[h].saved
           /\ y.calls[h].written = z.calls[h].written /\ y.calls[h].tsn = z.tsn + 1
           /\ y.calls[h].state = "awaiting"
           /\ \A g \in Handlers \ {h} : y.calls[g] = z.calls[g]
<1>1. z.tsn + 1 \in Nat /\ z.calls \in [Handlers -> Calls] /\ z.calls[h] \in Calls
  BY DEF Z2m
<1> DEFINE call == [z.calls[h] EXCEPT !.tsn = z.tsn + 1, !.state = "awaiting"]
           calls == [z.calls EXCEPT ![h] = call]
<1>2. /\ call \in Calls /\ call.op = z.calls[h].op /\ call.saved = z.calls[h].saved
      /\ call.written = z.calls[h].written /\ call.tsn = z.tsn + 1
      /\ call.state = "awaiting"
  BY <1>1 DEF Calls
<1>3. /\ calls \in [Handlers -> Calls] /\ calls[h] = call
      /\ \A g \in Handlers \ {h} : calls[g] = z.calls[g]
  BY <1>1, <1>2
<1>4. y = [z EXCEPT !.tsn = z.tsn + 1, !.calls = calls]
  BY DEF SendCommand, Z2m, Calls
<1> HIDE DEF calls, call
<1>5. /\ y \in Z2m /\ y.tsn = z.tsn + 1 /\ y.pending = z.pending
      /\ y.setup = z.setup /\ y.mode = z.mode /\ y.timeout = z.timeout
      /\ y.calls = calls
  BY <1>1, <1>3, <1>4 DEF Z2m
<1> QED BY <1>2, <1>3, <1>5

\* The setup state with which an operation ends.
Settled(op, ok, setup) ==
    IF op \in Setups THEN IF ok THEN Closing(op) ELSE "error" ELSE setup

LEMMA ShownFacts ==
    ASSUME NEW z \in Z2m, NEW op \in Installs, NEW ok \in BOOLEAN, NEW y, y = Shown(z, op, ok)
    PROVE  /\ y \in Z2m /\ y.setup = Settled(op, ok, z.setup)
           /\ y.tsn = z.tsn /\ y.pending = z.pending /\ y.mode = z.mode
           /\ y.timeout = z.timeout /\ y.calls = z.calls
<1>1. CASE op \in Setups
  <2> DEFINE s == IF ok THEN Closing(op) ELSE "error"
  <2>1. s \in SetupStates
    BY <1>1 DEF Closing, Setups, SetupStates
  <2>2. y = [z EXCEPT !.setup = s]
    BY <1>1 DEF Shown
  <2>3. Settled(op, ok, z.setup) = s
    BY <1>1 DEF Settled
  <2> HIDE DEF s
  <2> QED BY <2>1, <2>2, <2>3 DEF Z2m
<1>2. CASE op \notin Setups
  BY <1>2 DEF Shown, Settled
<1> QED BY <1>1, <1>2

LEMMA EndFacts ==
    ASSUME NEW z \in Z2m, NEW h \in Handlers, z.calls[h].op \in Installs,
           NEW ok \in BOOLEAN, NEW y, y = End(z, h, ok)
    PROVE  /\ y \in Z2m /\ y.tsn = z.tsn /\ y.pending = NoPending /\ y.mode = z.mode
           /\ y.setup = Settled(z.calls[h].op, ok, z.setup)
           /\ y.timeout = z.calls[h].saved
           /\ y.calls[h] = [Idle EXCEPT !.state = "over"]
           /\ \A g \in Handlers \ {h} : y.calls[g] = z.calls[g]
<1>1. z.calls \in [Handlers -> Calls] /\ z.calls[h] \in Calls
  BY DEF Z2m
<1> DEFINE over == [Idle EXCEPT !.state = "over"]
           calls == [z.calls EXCEPT ![h] = over]
           saved == z.calls[h].saved
           ended == [z EXCEPT !.timeout = saved, !.pending = NoPending, !.calls = calls]
<1>2. over \in Calls
  BY DEF Idle, Calls
<1>3. saved \in Nat
  BY <1>1 DEF Calls
<1>4. /\ calls \in [Handlers -> Calls] /\ calls[h] = over
      /\ \A g \in Handlers \ {h} : calls[g] = z.calls[g]
  BY <1>1, <1>2
<1>5. y = Shown(ended, z.calls[h].op, ok)
  BY DEF End, Restored
<1> HIDE DEF over, calls, saved
<1>6. /\ ended \in Z2m /\ ended.timeout = saved /\ ended.pending = NoPending
      /\ ended.calls = calls /\ ended.tsn = z.tsn /\ ended.mode = z.mode
      /\ ended.setup = z.setup
  BY <1>3, <1>4 DEF Z2m, Pendings
<1> HIDE DEF ended
<1>7. /\ y \in Z2m /\ y.setup = Settled(z.calls[h].op, ok, ended.setup)
      /\ y.tsn = ended.tsn /\ y.pending = ended.pending /\ y.mode = ended.mode
      /\ y.timeout = ended.timeout /\ y.calls = ended.calls
  BY <1>5, <1>6, ShownFacts
<1> QED BY <1>4, <1>6, <1>7 DEF over, saved

-----------------------------------------------------------------------------
(* At most one call is under way.                                           *)

Resting(z) ==
    /\ \A h \in Handlers : z.calls[h].state \in {"idle", "over"}
    /\ z.timeout = 0 /\ z.pending = NoPending

\* What the converter knows of an operation of which so many commands are confirmed.
Knows(pending, op, written, seen) ==
    /\ pending \in Operation /\ pending.op = op
    /\ written > 0 => /\ pending.clear_confirmed = TRUE
                      /\ pending.records_confirmed = written - 1
    /\ ~(written > 0) => /\ pending.clear_confirmed = FALSE
                         /\ pending.records_confirmed = 0
    /\ pending.records_expected = Expected(op)
    /\ pending.seen_responses = seen

Busy(z, h, seen) ==
    /\ z.calls[h].state \in {"awaiting", "waiting"}
    /\ \A g \in Handlers \ {h} : z.calls[g].state \in {"idle", "over"}
    /\ z.timeout = WAKE_QUEUE /\ z.calls[h].saved = 0
    /\ z.calls[h].tsn = z.tsn /\ z.tsn > 0
    /\ z.calls[h].op \in Operations /\ z.calls[h].written \in 0 .. Expected(z.calls[h].op)
    /\ Knows(z.pending, z.calls[h].op, z.calls[h].written, seen)
    /\ seen \in SUBSET Keys /\ \A key \in seen : key[2] < z.tsn

Answers == [key : Keys, ok : BOOLEAN, copies : Nat]

\* The call h ends.
LEMMA EndRests ==
    ASSUME NEW z \in Z2m, NEW h \in Handlers, NEW seen, Busy(z, h, seen),
           Operations \subseteq Installs, NEW ok \in BOOLEAN
    PROVE  /\ End(z, h, ok) \in Z2m /\ Resting(End(z, h, ok))
           /\ End(z, h, ok).tsn = z.tsn
           /\ End(z, h, ok).setup = Settled(z.calls[h].op, ok, z.setup)
<1> DEFINE y == End(z, h, ok)
<1>1. z.calls[h].op \in Installs
  BY DEF Busy
<1>2. /\ y \in Z2m /\ y.tsn = z.tsn /\ y.pending = NoPending
      /\ y.setup = Settled(z.calls[h].op, ok, z.setup)
      /\ y.timeout = z.calls[h].saved
      /\ y.calls[h] = [Idle EXCEPT !.state = "over"]
      /\ \A g \in Handlers \ {h} : y.calls[g] = z.calls[g]
  BY <1>1, EndFacts
<1> HIDE DEF y
<1>3. y.calls[h].state = "over"
  BY <1>2 DEF Idle
<1>4. y.timeout = 0 /\ \A g \in Handlers \ {h} : y.calls[g].state \in {"idle", "over"}
  BY <1>2 DEF Busy
<1>5. Resting(y)
  BY <1>2, <1>3, <1>4 DEF Resting
<1> QED BY <1>2, <1>5 DEF y

-----------------------------------------------------------------------------
(* An answer that the pending operation waits for.                          *)

LEMMA ExpectedNat ==
    ASSUME NEW op
    PROVE  Expected(op) \in Nat /\ RECORDS \in Nat \ {0}
BY ActionTableAssumption DEF Expected

LEMMA NotNone == \A pending \in Operation : pending # NoPending
BY DEF Operation, NoPending, Installs, Setups

LEMMA ProgressNothing ==
    ASSUME NEW z, NEW a, z.pending = NoPending \/ a.key \in z.pending.seen_responses
    PROVE  Progress(z, a) = z
BY DEF Progress, Repeated

\* An answer with which the plan goes on.
More(a, op, w) == a.ok /\ w < Expected(op)

\* What it knows once the answer has confirmed one more.
KnowsNext(pending, op, written, seen, a) ==
    Knows(pending, op, written + 1, seen \cup {a.key})

\* An answer that the pending operation waits for.
Awaited(z, op, w, seen, a) ==
    /\ z \in Z2m /\ op \in Installs /\ w \in 0 .. Expected(op)
    /\ seen \in SUBSET Keys /\ Knows(z.pending, op, w, seen)
    /\ a \in Answers /\ a.key \notin seen
    /\ a.key[1] = (IF w > 0 THEN "addBig" ELSE "clearBig")

LEMMA ProgressCounts ==
    ASSUME NEW z, NEW op, NEW w, NEW seen, NEW a, Awaited(z, op, w, seen, a),
           NEW y, y = Progress(z, a)
    PROVE  /\ y \in Z2m /\ y.calls = z.calls /\ y.tsn = z.tsn /\ y.timeout = z.timeout
           /\ More(a, op, w) =>
                /\ KnowsNext(y.pending, op, w, seen, a)
                /\ y.setup = IF op \in Setups THEN Opening(op) ELSE z.setup
           /\ ~More(a, op, w) =>
                /\ y.pending = NoPending
                /\ y.setup = Settled(op, a.ok, z.setup)
<1> DEFINE heard == [z.pending EXCEPT !.seen_responses = @ \cup {a.key}]
           counted == Counted(heard, a)
           more == seen \cup {a.key}
           none == [z EXCEPT !.pending = NoPending]
<1> /\ z \in Z2m /\ op \in Installs /\ w \in 0 .. Expected(op)
    /\ seen \in SUBSET Keys /\ Knows(z.pending, op, w, seen)
    /\ a \in Answers /\ a.key \notin seen
    /\ a.key[1] = (IF w > 0 THEN "addBig" ELSE "clearBig")
  BY DEF Awaited
<1>1. /\ w \in Nat /\ Expected(op) \in Nat /\ w <= Expected(op) /\ more \in SUBSET Keys
      /\ a.key \in Keys /\ a.ok \in BOOLEAN
  BY ExpectedNat DEF Answers
<1>2. /\ z.pending \in Operation /\ z.pending # NoPending /\ z.pending.op = op
      /\ z.pending.seen_responses = seen
  BY NotNone DEF Knows
<1>3. Knows(heard, op, w, more)
  <2>1. heard = [z.pending EXCEPT !.seen_responses = more]
    BY <1>2
  <2> HIDE DEF heard, more
  <2> QED BY <1>1, <1>2, <2>1 DEF Knows, Operation
<1> HIDE DEF heard, more
<1>4. Counts(heard, a)
  <2>1. CASE w > 0
    <3>1. /\ heard.clear_confirmed = TRUE /\ heard.records_confirmed = w - 1
          /\ heard.records_expected = Expected(op)
      BY <1>3, <2>1 DEF Knows
    <3>2. a.key[1] # "clearBig"
      BY <2>1
    <3> QED BY <1>1, <3>1, <3>2 DEF Counts
  <2>2. CASE ~(w > 0)
    <3>1. heard.clear_confirmed = FALSE
      BY <1>3, <2>2 DEF Knows
    <3>2. a.key[1] = "clearBig"
      BY <2>2
    <3> QED BY <3>1, <3>2 DEF Counts
  <2> QED BY <2>1, <2>2
<1>5. Knows(counted, op, w + 1, more)
  <2>0. w + 1 > 0 /\ w + 1 - 1 = w
    BY <1>1
  <2>1. CASE w > 0
    <3>1. /\ heard.records_confirmed = w - 1 /\ w - 1 + 1 = w /\ a.key[1] # "clearBig"
          /\ heard.clear_confirmed = TRUE
      BY <1>1, <1>3, <2>1 DEF Knows
    <3>2. counted = [heard EXCEPT !.records_confirmed = w]
      BY <3>1 DEF Counted
    <3> HIDE DEF counted
    <3>3. heard \in Operation /\ w \in Nat
      BY <1>1, <1>3 DEF Knows
    <3>4. /\ counted \in Operation /\ counted.op = heard.op
          /\ counted.records_confirmed = w
          /\ counted.records_expected = heard.records_expected
          /\ counted.seen_responses = heard.seen_responses
      BY <3>2, <3>3 DEF Operation
    <3>5. counted.clear_confirmed = TRUE
      BY <3>1, <3>2, <3>3 DEF Operation
    <3>6. heard.op = op /\ heard.records_expected = Expected(op) /\ heard.seen_responses = more
      BY <1>3 DEF Knows
    <3> QED BY <2>0, <3>3, <3>4, <3>5, <3>6 DEF Knows
  <2>2. CASE ~(w > 0)
    <3>1. /\ counted = [heard EXCEPT !.clear_confirmed = TRUE] /\ w = 0
          /\ heard.records_confirmed = 0
      BY <1>1, <1>3, <2>2 DEF Counted, Knows
    <3> HIDE DEF counted
    <3>2. heard \in Operation
      BY <1>3 DEF Knows
    <3>3. /\ counted \in Operation /\ counted.op = heard.op
          /\ counted.records_confirmed = heard.records_confirmed
          /\ counted.records_expected = heard.records_expected
          /\ counted.seen_responses = heard.seen_responses
      BY <3>1, <3>2 DEF Operation
    <3>4. counted.clear_confirmed = TRUE
      BY <3>1, <3>2 DEF Operation
    <3>5. heard.op = op /\ heard.records_expected = Expected(op) /\ heard.seen_responses = more
      BY <1>3 DEF Knows
    <3> QED BY <2>0, <3>1, <3>3, <3>4, <3>5 DEF Knows
  <2> QED BY <2>1, <2>2
<1> HIDE DEF counted
<1>6. Complete(counted) <=> w = Expected(op)
  <2>0. w + 1 > 0 /\ w + 1 - 1 = w
    BY <1>1
  <2>1. /\ counted.clear_confirmed = TRUE /\ counted.records_confirmed = w
        /\ counted.records_expected = Expected(op)
    BY <1>5, <2>0 DEF Knows
  <2> QED BY <2>1 DEF Complete
<1>7. /\ none \in Z2m /\ none.calls = z.calls /\ none.tsn = z.tsn
      /\ none.timeout = z.timeout /\ none.setup = z.setup /\ none.pending = NoPending
  BY DEF Z2m, Pendings
<1> HIDE DEF none
<1>8. ASSUME NEW ok \in BOOLEAN, y = Shown(none, op, ok)
      PROVE  /\ y \in Z2m /\ y.setup = Settled(op, ok, z.setup) /\ y.tsn = z.tsn
             /\ y.pending = NoPending /\ y.timeout = z.timeout /\ y.calls = z.calls
  <2>1. /\ y \in Z2m /\ y.setup = Settled(op, ok, none.setup) /\ y.tsn = none.tsn
        /\ y.pending = none.pending /\ y.timeout = none.timeout /\ y.calls = none.calls
    BY <1>7, <1>8, ShownFacts
  <2> QED BY <1>7, <2>1
<1>9. CASE ~a.ok
  <2>1. y = Shown(none, op, FALSE) /\ a.ok = FALSE
    BY <1>1, <1>2, <1>9 DEF Progress, Repeated, none
  <2>2. Settled(op, a.ok, z.setup) = Settled(op, FALSE, z.setup)
    BY <2>1
  <2>3. ~More(a, op, w)
    BY <1>9 DEF More
  <2> QED BY <1>8, <2>1, <2>2, <2>3
<1>10. CASE a.ok /\ w = Expected(op)
  <2>1. y = Shown(none, op, TRUE) /\ a.ok = TRUE
    BY <1>1, <1>2, <1>4, <1>6, <1>10 DEF Progress, Repeated, none, heard, counted
  <2>2. Settled(op, a.ok, z.setup) = Settled(op, TRUE, z.setup)
    BY <2>1
  <2>3. ~More(a, op, w)
    BY <1>1, <1>10 DEF More
  <2> QED BY <1>8, <2>1, <2>2, <2>3
<1>11. CASE a.ok /\ w # Expected(op)
  <2> DEFINE s == IF op \in Setups THEN Opening(op) ELSE z.setup
  <2>1. y = [z EXCEPT !.pending = counted, !.setup = s]
    BY <1>2, <1>4, <1>6, <1>11 DEF Progress, Repeated, heard, counted
  <2>2. s \in SetupStates
    BY DEF Opening, Setups, SetupStates, Z2m
  <2>3. More(a, op, w)
    BY <1>1, <1>11 DEF More
  <2>4. counted \in Pendings
    BY <1>5 DEF Knows, Pendings
  <2> HIDE DEF s
  <2>5. /\ y \in Z2m /\ y.calls = z.calls /\ y.tsn = z.tsn /\ y.timeout = z.timeout
        /\ y.pending = counted /\ y.setup = s
    BY <2>1, <2>2, <2>4 DEF Z2m
  <2> QED BY <1>5, <2>3, <2>5 DEF s, more, KnowsNext
<1> QED BY <1>9, <1>10, <1>11

\* The call goes on to the next command of its plan.
NextCommand(z, h) ==
    SendCommand([z EXCEPT !.calls[h].written = @ + 1, !.calls[h].attempt = 0], h)

LEMMA NextFacts ==
    ASSUME NEW z \in Z2m, NEW h \in Handlers
    PROVE  LET y == NextCommand(z, h) IN
           /\ y \in Z2m /\ y.tsn = z.tsn + 1 /\ y.pending = z.pending
           /\ y.setup = z.setup /\ y.timeout = z.timeout
           /\ y.calls[h].op = z.calls[h].op /\ y.calls[h].saved = z.calls[h].saved
           /\ y.calls[h].written = z.calls[h].written + 1 /\ y.calls[h].tsn = z.tsn + 1
           /\ y.calls[h].state = "awaiting"
           /\ \A g \in Handlers \ {h} : y.calls[g] = z.calls[g]
<1>1. z.calls \in [Handlers -> Calls] /\ z.calls[h] \in Calls
  BY DEF Z2m
<1> DEFINE written == z.calls[h].written + 1
           call == [z.calls[h] EXCEPT !.written = written, !.attempt = 0]
           calls == [z.calls EXCEPT ![h] = call]
           x == [z EXCEPT !.calls = calls]
           y == NextCommand(z, h)
<1>2. written \in Nat
  BY <1>1 DEF Calls
<1>3. x = [z EXCEPT !.calls[h].written = @ + 1, !.calls[h].attempt = 0]
  BY <1>1 DEF Z2m, Calls
<1> HIDE DEF written
<1>4. /\ call \in Calls /\ call.op = z.calls[h].op /\ call.saved = z.calls[h].saved
      /\ call.written = written
  BY <1>1, <1>2 DEF Calls
<1> HIDE DEF call
<1>5. /\ calls \in [Handlers -> Calls] /\ calls[h] = call
      /\ \A g \in Handlers \ {h} : calls[g] = z.calls[g]
  BY <1>1, <1>4
<1> HIDE DEF calls
<1>6. /\ x \in Z2m /\ x.calls = calls /\ x.tsn = z.tsn /\ x.pending = z.pending
      /\ x.setup = z.setup /\ x.timeout = z.timeout
  BY <1>5 DEF Z2m
<1>7. y = SendCommand(x, h)
  BY <1>3 DEF NextCommand
<1> HIDE DEF x, y
<1>8. /\ y \in Z2m /\ y.tsn = x.tsn + 1 /\ y.pending = x.pending
      /\ y.setup = x.setup /\ y.timeout = x.timeout
      /\ y.calls[h].op = x.calls[h].op /\ y.calls[h].saved = x.calls[h].saved
      /\ y.calls[h].written = x.calls[h].written /\ y.calls[h].tsn = x.tsn + 1
      /\ y.calls[h].state = "awaiting"
      /\ \A g \in Handlers \ {h} : y.calls[g] = x.calls[g]
  BY <1>6, <1>7, SendFacts
<1> QED BY <1>4, <1>5, <1>6, <1>8 DEF written, y

\* The answer to the command that h awaits is one that its operation waits for.
LEMMA BusyAwaits ==
    ASSUME NEW z \in Z2m, NEW h \in Handlers, NEW seen, Busy(z, h, seen),
           Operations \subseteq Installs, NEW a \in Answers,
           a.key = <<Command(z.calls[h]), z.calls[h].tsn>>
    PROVE  Awaited(z, z.calls[h].op, z.calls[h].written, seen, a)
<1> DEFINE op == z.calls[h].op
           w == z.calls[h].written
<1>1. /\ z.calls[h].tsn = z.tsn /\ op \in Operations /\ w \in 0 .. Expected(op)
      /\ Knows(z.pending, op, w, seen)
      /\ seen \in SUBSET Keys /\ \A key \in seen : key[2] < z.tsn
  BY DEF Busy
<1>2. /\ z.tsn \in Nat /\ op \in Installs /\ Expected(op) \in Nat /\ w \in Nat
  BY <1>1, ExpectedNat DEF Z2m
<1>3. op # "add_big"
  BY <1>2 DEF Installs, Setups
<1>4. a.key[1] = (IF w > 0 THEN "addBig" ELSE "clearBig") /\ a.key[2] = z.tsn
  BY <1>1, <1>3 DEF Command
<1>5. a.key \notin seen
  BY <1>1, <1>2, <1>4
<1> HIDE DEF op, w
<1>6. Awaited(z, op, w, seen, a)
  BY <1>1, <1>2, <1>4, <1>5 DEF Awaited
<1> QED BY <1>6 DEF op, w

\* What the answer to the command that h awaits makes of z: the call goes on ...
GoesOn(z, y, h, seen) ==
    /\ y \in Z2m /\ Busy(y, h, seen) /\ y.tsn = z.tsn + 1
    /\ y.calls[h].op = z.calls[h].op /\ y.calls[h].written = z.calls[h].written + 1
    /\ y.calls[h].tsn = z.tsn + 1 /\ y.calls[h].state = "awaiting"
    /\ y.setup \in {z.setup} \cup {Opening(op) : op \in Setups}

\* ... or ends.
Ends(z, y, h, ok) ==
    /\ y \in Z2m /\ Resting(y) /\ y.tsn = z.tsn
    /\ y.setup = Settled(z.calls[h].op, ok, z.setup)

LEMMA DeliverGoesOn ==
    ASSUME NEW z \in Z2m, NEW h \in Handlers, NEW seen, Busy(z, h, seen),
           Operations \subseteq Installs, NEW a \in Answers,
           a.key = <<Command(z.calls[h]), z.calls[h].tsn>>,
           a.ok, z.calls[h].written < Expected(z.calls[h].op),
           NEW y, y = NextCommand(Progress(z, a), h) \/ y = Progress(NextCommand(z, h), a)
    PROVE  GoesOn(z, y, h, seen \cup {a.key})
<1> DEFINE op == z.calls[h].op
           w == z.calls[h].written
           more == seen \cup {a.key}
<1>1. /\ z.calls[h].state \in {"awaiting", "waiting"}
      /\ \A g \in Handlers \ {h} : z.calls[g].state \in {"idle", "over"}
      /\ z.timeout = WAKE_QUEUE /\ z.calls[h].saved = 0 /\ z.calls[h].tsn = z.tsn /\ z.tsn > 0
      /\ op \in Operations /\ w \in 0 .. Expected(op)
      /\ Knows(z.pending, op, w, seen)
      /\ seen \in SUBSET Keys /\ \A key \in seen : key[2] < z.tsn
  BY DEF Busy
<1>2. /\ z.tsn \in Nat /\ op \in Installs /\ Expected(op) \in Nat /\ w \in Nat
      /\ a.key \in Keys
  BY <1>1, ExpectedNat DEF Z2m, Answers
<1>4. a.key[2] = z.tsn
  BY <1>1
<1>6. more \in SUBSET Keys /\ \A key \in more : key[2] < z.tsn + 1
  <2>1. \A key \in seen : key[2] \in Nat
    BY <1>1 DEF Keys
  <2> QED BY <1>1, <1>2, <1>4, <2>1
<1> DEFINE p == Progress(z, a)
           x == NextCommand(z, h)
<1>7. /\ x \in Z2m /\ x.tsn = z.tsn + 1 /\ x.pending = z.pending
      /\ x.setup = z.setup /\ x.timeout = z.timeout
      /\ x.calls[h].op = op /\ x.calls[h].saved = z.calls[h].saved
      /\ x.calls[h].written = w + 1 /\ x.calls[h].tsn = z.tsn + 1
      /\ x.calls[h].state = "awaiting"
      /\ \A g \in Handlers \ {h} : x.calls[g] = z.calls[g]
  BY NextFacts
<1>0. a.ok /\ w < Expected(op) /\ More(a, op, w)
  BY DEF More
<1>p. p = Progress(z, a)
  OBVIOUS
<1>y. y = NextCommand(p, h) \/ y = Progress(x, a)
  OBVIOUS
<1> HIDE DEF p, x, op, w, more
<1>a. Awaited(z, op, w, seen, a)
  BY BusyAwaits DEF op, w
<1>b. Awaited(x, op, w, seen, a)
  BY <1>7, <1>a DEF Awaited
<1>8. /\ p \in Z2m /\ p.calls = z.calls /\ p.tsn = z.tsn /\ p.timeout = z.timeout
      /\ KnowsNext(p.pending, op, w, seen, a)
      /\ p.setup = IF op \in Setups THEN Opening(op) ELSE z.setup
  BY <1>0, <1>a, <1>p, ProgressCounts
<1>9. /\ y \in Z2m /\ y.tsn = z.tsn + 1 /\ KnowsNext(y.pending, op, w, seen, a)
      /\ y.setup = (IF op \in Setups THEN Opening(op) ELSE z.setup)
      /\ y.timeout = z.timeout
      /\ y.calls[h].op = op /\ y.calls[h].saved = z.calls[h].saved
      /\ y.calls[h].written = w + 1 /\ y.calls[h].tsn = z.tsn + 1
      /\ y.calls[h].state = "awaiting"
      /\ \A g \in Handlers \ {h} : y.calls[g] = z.calls[g]
  <2>1. CASE y = NextCommand(p, h)
    <3>1. /\ y \in Z2m /\ y.tsn = p.tsn + 1 /\ y.pending = p.pending
          /\ y.setup = p.setup /\ y.timeout = p.timeout
          /\ y.calls[h].op = p.calls[h].op /\ y.calls[h].saved = p.calls[h].saved
          /\ y.calls[h].written = p.calls[h].written + 1 /\ y.calls[h].tsn = p.tsn + 1
          /\ y.calls[h].state = "awaiting"
          /\ \A g \in Handlers \ {h} : y.calls[g] = p.calls[g]
      BY <1>8, <2>1, NextFacts, SMTT(30)
    <3> QED BY <1>8, <3>1 DEF op, w
  <2>2. CASE y = Progress(x, a)
    <3>1. /\ y \in Z2m /\ y.calls = x.calls /\ y.tsn = x.tsn /\ y.timeout = x.timeout
          /\ KnowsNext(y.pending, op, w, seen, a)
          /\ y.setup = IF op \in Setups THEN Opening(op) ELSE x.setup
      BY <1>0, <1>b, <2>2, ProgressCounts
    <3> QED BY <1>7, <3>1
  <2> QED BY ONLY <1>y, <2>1, <2>2
<1>10. w + 1 \in 0 .. Expected(op) /\ z.tsn + 1 > 0
  BY <1>0, <1>2
<1>11. Busy(y, h, more)
  BY <1>1, <1>6, <1>9, <1>10 DEF Busy, KnowsNext, more
<1>12. y.setup \in {z.setup} \cup {Opening(o) : o \in Setups}
  BY <1>9
<1> QED BY <1>9, <1>11, <1>12 DEF GoesOn, op, w, more

LEMMA DeliverEnds ==
    ASSUME NEW z \in Z2m, NEW h \in Handlers, NEW seen, Busy(z, h, seen),
           Operations \subseteq Installs, NEW a \in Answers,
           a.key = <<Command(z.calls[h]), z.calls[h].tsn>>,
           ~(a.ok /\ z.calls[h].written < Expected(z.calls[h].op)),
           NEW y, y = End(Progress(z, a), h, a.ok) \/ y = Progress(End(z, h, a.ok), a)
    PROVE  Ends(z, y, h, a.ok)
<1> DEFINE op == z.calls[h].op
           w == z.calls[h].written
<1>1. /\ \A g \in Handlers \ {h} : z.calls[g].state \in {"idle", "over"}
      /\ z.calls[h].saved = 0 /\ z.calls[h].tsn = z.tsn
      /\ op \in Operations /\ w \in 0 .. Expected(op)
      /\ Knows(z.pending, op, w, seen)
      /\ seen \in SUBSET Keys /\ \A key \in seen : key[2] < z.tsn
  BY DEF Busy
<1>2. /\ z.tsn \in Nat /\ op \in Installs /\ Expected(op) \in Nat /\ w \in Nat
      /\ a.key \in Keys /\ a.ok \in BOOLEAN
  BY <1>1, ExpectedNat DEF Z2m, Answers
<1> DEFINE p == Progress(z, a)
           x == End(z, h, a.ok)
<1>0. ~More(a, op, w)
  BY DEF More
<1>p. p = Progress(z, a)
  OBVIOUS
<1>x. x \in Z2m /\ Resting(x) /\ x.tsn = z.tsn /\ x.setup = Settled(op, a.ok, z.setup)
  BY <1>2, EndRests
<1>y. y = Progress(x, a) \/ y = End(p, h, a.ok)
  OBVIOUS
<1>o. op = z.calls[h].op
  OBVIOUS
<1> HIDE DEF p, x, op, w
<1>a. Awaited(z, op, w, seen, a)
  BY BusyAwaits DEF op, w
<1>q. /\ p \in Z2m /\ p.calls = z.calls /\ p.tsn = z.tsn
      /\ p.setup = Settled(op, a.ok, z.setup)
  BY <1>0, <1>a, <1>p, ProgressCounts
<1>6. CASE y = Progress(x, a)
  <2>1. y = x
    BY <1>6, <1>x, ProgressNothing DEF Resting
  <2> QED BY <1>x, <1>o, <2>1 DEF Ends
<1>7. CASE y = End(p, h, a.ok)
  <2>1. /\ y \in Z2m /\ y.tsn = p.tsn /\ y.pending = NoPending
        /\ y.setup = Settled(op, a.ok, p.setup)
        /\ y.timeout = p.calls[h].saved
        /\ y.calls[h] = [Idle EXCEPT !.state = "over"]
        /\ \A g \in Handlers \ {h} : y.calls[g] = p.calls[g]
    BY <1>2, <1>7, <1>o, <1>q, EndFacts
  <2>2. y.calls[h].state = "over"
    BY <2>1 DEF Idle
  <2>3. Resting(y)
    BY <1>1, <1>q, <2>1, <2>2 DEF Resting
  <2>4. y.setup = Settled(op, a.ok, z.setup)
    BY <1>q, <2>1 DEF Settled
  <2> QED BY <1>o, <1>q, <2>1, <2>3, <2>4 DEF Ends
<1> QED BY <1>y, <1>6, <1>7

-----------------------------------------------------------------------------
(* The inductive invariant.                                                 *)

\* The commands before the one that c awaits are executed.
Before(tab, w) == w > 0 => tab = 1 .. w - 1

\* An answer is to an earlier command, or to the one that c awaits.
Due(c, seen, tab, a) ==
    \/ a.key \in seen
    \/ /\ c.state = "awaiting" /\ a.key = <<Command(c), c.tsn>>
       /\ a.ok => tab = 1 .. c.written

Told(c, seen, tab, exec, ans) ==
    /\ c.state = "waiting" => c.tsn \notin exec
    /\ c.tsn \notin exec => Before(tab, c.written)
    /\ \A a \in ans : Due(c, seen, tab, a)

Sent(z, exec, ans) ==
    /\ \A t \in exec : t \in Nat /\ t <= z.tsn
    /\ \A a \in ans : a \in Answers /\ a.key[2] \in exec

Sound(z, tab, exec, ans) ==
    /\ z \in Z2m /\ Sent(z, exec, ans)
    /\ \/ Resting(z)
       \/ \E h \in Handlers, seen \in SUBSET Keys :
             Busy(z, h, seen) /\ Told(z.calls[h], seen, tab, exec, ans)

TableInv == Sound(z2m, table, executed, answers)

\* What a change of the setup state claims of the table.
Claims(s, t, tab) ==
    /\ s # "gateway_ready" /\ t = "gateway_ready" => tab = Plan
    /\ s # "direct_ready" /\ t = "direct_ready" => tab = {}

LEMMA Quiet ==
    ASSUME NEW s, NEW t, NEW tab,
           t \in {s, "error", "ready", "idle"} \cup {Opening(op) : op \in Setups}
    PROVE  Claims(s, t, tab)
BY DEF Claims, Opening, Setups

LEMMA SettledQuiet ==
    ASSUME NEW s, NEW op, NEW tab
    PROVE  Claims(s, Settled(op, FALSE, s), tab)
BY Quiet DEF Settled

LEMMA InitSound == Init => TableInv
<1> SUFFICES ASSUME Init PROVE TableInv
  OBVIOUS
<1>1. Idle \in Calls /\ Idle.state = "idle"
  BY DEF Idle, Calls
<1>2. /\ z2m.pending = NoPending /\ z2m.timeout = 0 /\ executed = {} /\ answers = {}
      /\ \A h \in Handlers : z2m.calls[h] = Idle
  BY DEF Init
<1>3. [h \in Handlers |-> Idle] \in [Handlers -> Calls]
  BY <1>1
<1>4. z2m \in Z2m
  BY <1>3 DEF Init, Z2m, Pendings, SetupStates
<1>5. Resting(z2m)
  BY <1>1, <1>2 DEF Resting
<1> QED BY <1>2, <1>4, <1>5 DEF TableInv, Sound, Sent

\* A call that is not busy leaves what is so of the one that is.
Aside(z, h, y) ==
    /\ z \in Z2m /\ y \in Z2m /\ h \in Handlers /\ z.calls[h].state = "idle"
    /\ y.tsn = z.tsn /\ y.pending = z.pending /\ y.timeout = z.timeout
    /\ y.calls[h].state = "over" /\ \A g \in Handlers \ {h} : y.calls[g] = z.calls[g]

LEMMA AsideSound ==
    ASSUME NEW z, NEW h, NEW y, Aside(z, h, y),
           NEW tab, NEW exec, NEW ans, Sound(z, tab, exec, ans)
    PROVE  Sound(y, tab, exec, ans)
<1> /\ z \in Z2m /\ y \in Z2m /\ h \in Handlers /\ z.calls[h].state = "idle"
    /\ y.tsn = z.tsn /\ y.pending = z.pending /\ y.timeout = z.timeout
    /\ y.calls[h].state = "over" /\ \A g \in Handlers \ {h} : y.calls[g] = z.calls[g]
  BY DEF Aside
<1>1. Sent(y, exec, ans)
  BY DEF Sound, Sent
<1>2. CASE Resting(z)
  <2>1. Resting(y)
    BY <1>2 DEF Resting
  <2> QED BY <1>1, <2>1 DEF Sound
<1>3. ASSUME NEW g \in Handlers, NEW seen \in SUBSET Keys, Busy(z, g, seen),
             Told(z.calls[g], seen, tab, exec, ans)
      PROVE  Sound(y, tab, exec, ans)
  <2>1. g # h /\ y.calls[g] = z.calls[g]
    BY <1>3 DEF Busy
  <2>2. \A f \in Handlers \ {g} : y.calls[f].state \in {"idle", "over"}
    BY <1>3 DEF Busy
  <2>3. Busy(y, g, seen)
    BY <1>3, <2>1, <2>2 DEF Busy
  <2> QED BY <1>1, <1>3, <2>1, <2>3 DEF Sound
<1> QED BY <1>2, <1>3 DEF Sound

\* A call that was idle is turned down.
Refused(z, h) == [z EXCEPT !.calls[h].state = "over"]

LEMMA RefusedFacts ==
    ASSUME NEW z \in Z2m, NEW h \in Handlers, NEW y, y = Refused(z, h)
    PROVE  /\ y \in Z2m /\ y.tsn = z.tsn /\ y.pending = z.pending /\ y.timeout = z.timeout
           /\ y.setup = z.setup /\ y.calls[h].state = "over"
           /\ \A g \in Handlers \ {h} : y.calls[g] = z.calls[g]
<1> DEFINE call == [z.calls[h] EXCEPT !.state = "over"]
           calls == [z.calls EXCEPT ![h] = call]
<1>1. z.calls \in [Handlers -> Calls] /\ z.calls[h] \in Calls
  BY DEF Z2m
<1>2. call \in Calls /\ call.state = "over"
  BY <1>1 DEF Calls
<1>3. y = [z EXCEPT !.calls = calls]
  BY <1>1 DEF Refused, Z2m, Calls
<1> HIDE DEF call
<1>4. /\ calls \in [Handlers -> Calls] /\ calls[h] = call
      /\ \A g \in Handlers \ {h} : calls[g] = z.calls[g]
  BY <1>1, <1>2
<1> HIDE DEF calls
<1> QED BY <1>2, <1>3, <1>4 DEF Z2m

LEMMA RefusalStep ==
    ASSUME NEW z, NEW tab, NEW exec, NEW ans, Sound(z, tab, exec, ans),
           NEW h \in Handlers, NEW op \in Installs, z.calls[h].state = "idle",
           NEW y, y = Shown(Refused(z, h), op, FALSE)
    PROVE  Sound(y, tab, exec, ans) /\ Claims(z.setup, y.setup, tab)
<1> DEFINE x == Refused(z, h)
<1>1. z \in Z2m
  BY DEF Sound
<1>2. /\ x \in Z2m /\ x.tsn = z.tsn /\ x.pending = z.pending /\ x.timeout = z.timeout
      /\ x.setup = z.setup /\ x.calls[h].state = "over"
      /\ \A g \in Handlers \ {h} : x.calls[g] = z.calls[g]
  BY <1>1, RefusedFacts
<1>3. y = Shown(x, op, FALSE)
  OBVIOUS
<1> HIDE DEF x
<1>4. /\ y \in Z2m /\ y.setup = Settled(op, FALSE, x.setup) /\ y.tsn = x.tsn
      /\ y.pending = x.pending /\ y.timeout = x.timeout /\ y.calls = x.calls
  BY <1>2, <1>3, ShownFacts, ZenonT(60)
<1>5. Aside(z, h, y)
  BY <1>1, <1>2, <1>4 DEF Aside
<1>6. Claims(z.setup, y.setup, tab)
  BY <1>2, <1>4, SettledQuiet
<1> QED BY <1>5, <1>6, AsideSound

\* A call begins its operation.
Asked(op) ==
    [op |-> op, clear_confirmed |-> FALSE, records_confirmed |-> 0,
     records_expected |-> Expected(op), seen_responses |-> {}]
Begun(z, h, op) ==
    [z EXCEPT !.setup = IF op \in Setups THEN Opening(op) ELSE @,
              !.timeout = WAKE_QUEUE,
              !.pending = IF op \in Installs THEN Asked(op) ELSE @,
              !.calls[h] = [Idle EXCEPT !.op = op, !.saved = z.timeout]]

LEMMA BegunFacts ==
    ASSUME NEW z \in Z2m, NEW h \in Handlers, NEW op \in Installs, NEW y, y = Begun(z, h, op)
    PROVE  /\ y \in Z2m /\ y.tsn = z.tsn /\ y.timeout = WAKE_QUEUE /\ y.pending = Asked(op)
           /\ y.setup \in {z.setup} \cup {Opening(o) : o \in Setups}
           /\ y.calls[h].op = op /\ y.calls[h].saved = z.timeout
           /\ y.calls[h].written = 0
           /\ \A g \in Handlers \ {h} : y.calls[g] = z.calls[g]
<1> DEFINE call == [Idle EXCEPT !.op = op, !.saved = z.timeout]
           calls == [z.calls EXCEPT ![h] = call]
           setup == IF op \in Setups THEN Opening(op) ELSE z.setup
           pending == Asked(op)
<1>1. z.calls \in [Handlers -> Calls] /\ z.timeout \in Nat
  BY DEF Z2m
<1>2. /\ call \in Calls /\ call.op = op /\ call.saved = z.timeout /\ call.written = 0
  BY <1>1 DEF Calls, Idle
<1>3. setup \in SetupStates /\ setup \in {z.setup} \cup {Opening(o) : o \in Setups}
  BY DEF Opening, Setups, SetupStates, Z2m
<1>4. pending \in Pendings
  BY ExpectedNat DEF Asked, Pendings, Operation
<1>5. y = [z EXCEPT !.setup = setup, !.timeout = WAKE_QUEUE, !.pending = pending, !.calls = calls]
  BY DEF Begun, Z2m
<1> HIDE DEF call, setup, pending
<1>6. /\ calls \in [Handlers -> Calls] /\ calls[h] = call
      /\ \A g \in Handlers \ {h} : calls[g] = z.calls[g]
  BY <1>1, <1>2
<1> HIDE DEF calls
<1>7. /\ y \in Z2m /\ y.tsn = z.tsn /\ y.timeout = WAKE_QUEUE /\ y.pending = pending
      /\ y.setup = setup /\ y.calls = calls
  <2>1. WAKE_QUEUE \in Nat
    BY DEF WAKE_QUEUE
  <2>2. y.tsn = z.tsn /\ y.timeout = WAKE_QUEUE /\ y.pending = pending /\ y.setup = setup /\ y.calls = calls
    BY <1>5 DEF Z2m
  <2>3. y \in Z2m
    BY <1>3, <1>4, <1>5, <1>6, <2>1 DEF Z2m
  <2> QED BY <2>2, <2>3
<1> QED BY <1>2, <1>3, <1>6, <1>7 DEF pending

LEMMA AskedKnows ==
    ASSUME NEW op \in Installs
    PROVE  Knows(Asked(op), op, 0, {})
<1>1. Asked(op) \in Operation
  BY ExpectedNat DEF Asked, Operation
<1> QED BY <1>1 DEF Asked, Knows

\* No operation is pending, and no other call is under way.
LEMMA RestingWhenNone ==
    ASSUME NEW z, NEW tab, NEW exec, NEW ans, Sound(z, tab, exec, ans), z.pending = NoPending
    PROVE  Resting(z)
BY NotNone DEF Sound, Busy, Knows

LEMMA BeginStep ==
    ASSUME NEW z, NEW tab, NEW exec, Sound(z, tab, exec, {}), z.pending = NoPending,
           NEW h \in Handlers, NEW op \in Operations, op \in Installs,
           NEW y, y = SendCommand(Begun(z, h, op), h)
    PROVE  Sound(y, tab, exec, {}) /\ Claims(z.setup, y.setup, tab)
<1> DEFINE x == Begun(z, h, op)
<1>1. /\ z \in Z2m /\ Resting(z) /\ z.tsn \in Nat /\ \A t \in exec : t \in Nat /\ t <= z.tsn
  <2>1. Resting(z)
    BY RestingWhenNone
  <2>2. z \in Z2m /\ \A t \in exec : t \in Nat /\ t <= z.tsn
    BY DEF Sound, Sent
  <2> QED BY <2>1, <2>2 DEF Z2m
<1>2. /\ x \in Z2m /\ x.tsn = z.tsn /\ x.timeout = WAKE_QUEUE /\ x.pending = Asked(op)
      /\ x.setup \in {z.setup} \cup {Opening(o) : o \in Setups}
      /\ x.calls[h].op = op /\ x.calls[h].saved = z.timeout /\ x.calls[h].written = 0
      /\ \A g \in Handlers \ {h} : x.calls[g] = z.calls[g]
  BY <1>1, BegunFacts
<1>3. y = SendCommand(x, h)
  OBVIOUS
<1> HIDE DEF x
<1>4. /\ y \in Z2m /\ y.tsn = x.tsn + 1 /\ y.pending = x.pending
      /\ y.setup = x.setup /\ y.timeout = x.timeout
      /\ y.calls[h].op = x.calls[h].op /\ y.calls[h].saved = x.calls[h].saved
      /\ y.calls[h].written = x.calls[h].written /\ y.calls[h].tsn = x.tsn + 1
      /\ y.calls[h].state = "awaiting"
      /\ \A g \in Handlers \ {h} : y.calls[g] = x.calls[g]
  BY <1>2, <1>3, SendFacts
<1>5. Knows(y.pending, op, 0, {})
  BY <1>2, <1>4, AskedKnows
<1>6. 0 \in 0 .. Expected(op) /\ z.tsn + 1 > 0
  BY <1>1, ExpectedNat
<1>7. z.timeout = 0 /\ \A g \in Handlers \ {h} : y.calls[g].state \in {"idle", "over"}
  BY <1>1, <1>2, <1>4 DEF Resting
<1>8. Busy(y, h, {})
  BY <1>2, <1>4, <1>5, <1>6, <1>7 DEF Busy
<1>9. Told(y.calls[h], {}, tab, exec, {})
  BY <1>2, <1>4 DEF Told, Before
<1>10. Sent(y, exec, {})
  BY <1>1, <1>2, <1>4 DEF Sent
<1>11. Sound(y, tab, exec, {})
  <2>1. {} \in SUBSET Keys
    OBVIOUS
  <2> QED BY <1>4, <1>8, <1>9, <1>10, <2>1 DEF Sound
<1>12. Claims(z.setup, y.setup, tab)
  BY <1>2, <1>4, Quiet
<1> QED BY <1>11, <1>12

\* A call that waits is the one that is under way.
LEMMA WaitingIsBusy ==
    ASSUME NEW z, NEW tab, NEW exec, NEW ans, Sound(z, tab, exec, ans),
           NEW h \in Handlers, z.calls[h].state \in {"awaiting", "waiting"}
    PROVE  \E seen \in SUBSET Keys : Busy(z, h, seen) /\ Told(z.calls[h], seen, tab, exec, ans)
<1>1. ~Resting(z)
  BY DEF Resting
<1>2. ASSUME NEW g \in Handlers, NEW seen \in SUBSET Keys, Busy(z, g, seen),
             Told(z.calls[g], seen, tab, exec, ans)
      PROVE  Busy(z, h, seen) /\ Told(z.calls[h], seen, tab, exec, ans)
  <2>1. g = h
    BY <1>2 DEF Busy
  <2> QED BY <1>2, <2>1
<1> QED BY <1>1, <1>2 DEF Sound

\* What a command makes of the table.
Effect(tab, c, ok) ==
    CASE ~ok -> tab
      [] ok /\ Command(c) = "clearBig" -> {}
      [] ok /\ c.op = "add_big" -> tab \cup {RawRecord}
      [] OTHER -> tab \cup {c.written}

LEMMA EffectFacts ==
    ASSUME NEW tab, NEW c \in Calls, c.op \in Installs, NEW ok \in BOOLEAN,
           Before(tab, c.written), ok
    PROVE  Effect(tab, c, ok) = 1 .. c.written
<1>1. c.op # "add_big" /\ c.written \in Nat
  BY DEF Installs, Setups, Calls
<1>2. CASE c.written > 0
  <2>1. Command(c) # "clearBig"
    BY <1>1, <1>2 DEF Command
  <2>2. Effect(tab, c, ok) = tab \cup {c.written}
    BY <1>1, <2>1 DEF Effect
  <2>3. tab = 1 .. c.written - 1
    BY <1>2 DEF Before
  <2>4. (1 .. c.written - 1) \cup {c.written} = 1 .. c.written
    BY <1>1, <1>2
  <2> QED BY <2>2, <2>3, <2>4
<1>3. CASE ~(c.written > 0)
  <2>1. Command(c) = "clearBig" /\ c.written = 0
    BY <1>1, <1>3 DEF Command
  <2>2. Effect(tab, c, ok) = {}
    BY <1>1, <2>1 DEF Effect
  <2>3. 1 .. c.written = {}
    BY <2>1
  <2> QED BY <2>2, <2>3
<1> QED BY <1>2, <1>3

LEMMA ExecuteStep ==
    ASSUME NEW z, NEW tab, NEW exec, NEW ans, Sound(z, tab, exec, ans),
           Operations \subseteq Installs,
           NEW h \in Handlers, z.calls[h].state = "awaiting", z.calls[h].tsn \notin exec,
           NEW ok \in BOOLEAN
    PROVE  Sound(z, Effect(tab, z.calls[h], ok), exec \cup {z.calls[h].tsn},
                 ans \cup {[key |-> <<Command(z.calls[h]), z.calls[h].tsn>>, ok |-> ok, copies |-> 0]})
<1> DEFINE c == z.calls[h]
           tab2 == Effect(tab, c, ok)
           exec2 == exec \cup {c.tsn}
           a == [key |-> <<Command(c), c.tsn>>, ok |-> ok, copies |-> 0]
           ans2 == ans \cup {a}
<1>1. PICK seen \in SUBSET Keys : Busy(z, h, seen) /\ Told(c, seen, tab, exec, ans)
  BY WaitingIsBusy
<1>2. /\ z \in Z2m /\ c \in Calls /\ c.tsn \in Nat /\ z.tsn \in Nat /\ Sent(z, exec, ans)
      /\ c.op \in Installs /\ c.tsn = z.tsn
  BY <1>1 DEF Sound, Z2m, Calls, Busy
<1>3. ok => tab2 = 1 .. c.written
  BY <1>1, <1>2, EffectFacts DEF Told
<1>4. a \in Answers /\ a.key = <<Command(c), c.tsn>> /\ a.ok = ok /\ a.key[2] = c.tsn
  BY <1>2 DEF Answers, Keys, Command
<1>c. c.state = "awaiting" /\ c.tsn \notin exec /\ c = z.calls[h]
  OBVIOUS
<1> HIDE DEF c, tab2, a
<1>5. \A b \in ans : b.key \in seen
  <2>1. \A b \in ans : b.key[2] # c.tsn
    BY <1>2, <1>c DEF Sent
  <2>2. \A b \in ans : Due(c, seen, tab, b)
    BY <1>1 DEF Told
  <2> QED BY <2>1, <2>2 DEF Due
<1>6. \A b \in ans2 : Due(c, seen, tab2, b)
  <2>1. Due(c, seen, tab2, a)
    BY <1>3, <1>4, <1>c DEF Due
  <2>2. \A b \in ans : Due(c, seen, tab2, b)
    BY <1>5 DEF Due
  <2> QED BY <2>1, <2>2
<1>7. Told(c, seen, tab2, exec2, ans2)
  <2>1. c.tsn \in exec2 /\ c.state # "waiting"
    BY <1>c
  <2> HIDE DEF exec2, ans2
  <2> QED BY <1>6, <2>1 DEF Told
<1>8. Sent(z, exec2, ans2)
  <2>1. \A t \in exec2 : t \in Nat /\ t <= z.tsn
    BY <1>2 DEF Sent
  <2>2. \A b \in ans2 : b \in Answers /\ b.key[2] \in exec2
    BY <1>2, <1>4 DEF Sent
  <2> QED BY <2>1, <2>2 DEF Sent
<1> HIDE DEF exec2, ans2
<1>9. Sound(z, tab2, exec2, ans2)
  BY <1>1, <1>2, <1>7, <1>8, <1>c DEF Sound
<1> QED BY <1>9 DEF tab2, exec2, ans2, a, c

\* The call that waits fails.
LEMMA FailStep ==
    ASSUME NEW z, NEW tab, NEW exec, NEW ans, Sound(z, tab, exec, ans),
           Operations \subseteq Installs,
           NEW h \in Handlers, z.calls[h].state = "awaiting",
           NEW y, y = End(z, h, FALSE)
    PROVE  Sound(y, tab, exec, ans) /\ Claims(z.setup, y.setup, tab)
<1>1. PICK seen \in SUBSET Keys : Busy(z, h, seen)
  BY WaitingIsBusy
<1>2. z \in Z2m /\ Sent(z, exec, ans) /\ FALSE \in BOOLEAN
  BY DEF Sound
<1>3. /\ y \in Z2m /\ Resting(y) /\ y.tsn = z.tsn
      /\ y.setup = Settled(z.calls[h].op, FALSE, z.setup)
  BY <1>1, <1>2, EndRests
<1>4. Sent(y, exec, ans)
  BY <1>2, <1>3 DEF Sent
<1>5. Sound(y, tab, exec, ans)
  BY <1>3, <1>4 DEF Sound
<1>6. Claims(z.setup, y.setup, tab)
  BY <1>3, SettledQuiet
<1> QED BY <1>5, <1>6

\* It found no route, and waits to send its command again.
Postponed(z, h) == [z EXCEPT !.calls[h].attempt = @ + 1, !.calls[h].state = "waiting"]

LEMMA PostponedFacts ==
    ASSUME NEW z \in Z2m, NEW h \in Handlers, NEW y, y = Postponed(z, h)
    PROVE  /\ y \in Z2m /\ y.tsn = z.tsn /\ y.pending = z.pending
           /\ y.setup = z.setup /\ y.timeout = z.timeout
           /\ y.calls[h].op = z.calls[h].op /\ y.calls[h].saved = z.calls[h].saved
           /\ y.calls[h].written = z.calls[h].written /\ y.calls[h].tsn = z.calls[h].tsn
           /\ y.calls[h].state = "waiting"
           /\ \A g \in Handlers \ {h} : y.calls[g] = z.calls[g]
<1>1. z.calls \in [Handlers -> Calls] /\ z.calls[h] \in Calls
  BY DEF Z2m
<1> DEFINE attempt == z.calls[h].attempt + 1
           call == [z.calls[h] EXCEPT !.attempt = attempt, !.state = "waiting"]
           calls == [z.calls EXCEPT ![h] = call]
<1>2. attempt \in Nat
  BY <1>1 DEF Calls
<1>3. y = [z EXCEPT !.calls = calls]
  BY <1>1 DEF Postponed, Z2m, Calls
<1> HIDE DEF attempt
<1>4. /\ call \in Calls /\ call.op = z.calls[h].op /\ call.saved = z.calls[h].saved
      /\ call.written = z.calls[h].written /\ call.tsn = z.calls[h].tsn
      /\ call.state = "waiting"
  BY <1>1, <1>2 DEF Calls
<1> HIDE DEF call
<1>5. /\ calls \in [Handlers -> Calls] /\ calls[h] = call
      /\ \A g \in Handlers \ {h} : calls[g] = z.calls[g]
  BY <1>1, <1>4
<1> HIDE DEF calls
<1>6. /\ y \in Z2m /\ y.calls = calls /\ y.tsn = z.tsn /\ y.pending = z.pending
      /\ y.setup = z.setup /\ y.timeout = z.timeout
  BY <1>3, <1>5 DEF Z2m
<1> QED BY <1>4, <1>5, <1>6

LEMMA PostponeStep ==
    ASSUME NEW z, NEW tab, NEW exec, NEW ans, Sound(z, tab, exec, ans),
           NEW h \in Handlers, z.calls[h].state = "awaiting", z.calls[h].tsn \notin exec,
           NEW y, y = Postponed(z, h)
    PROVE  Sound(y, tab, exec, ans) /\ Claims(z.setup, y.setup, tab)
<1>1. PICK seen \in SUBSET Keys : Busy(z, h, seen) /\ Told(z.calls[h], seen, tab, exec, ans)
  BY WaitingIsBusy
<1>2. z \in Z2m /\ Sent(z, exec, ans)
  BY DEF Sound
<1>3. /\ y \in Z2m /\ y.tsn = z.tsn /\ y.pending = z.pending
      /\ y.setup = z.setup /\ y.timeout = z.timeout
      /\ y.calls[h].op = z.calls[h].op /\ y.calls[h].saved = z.calls[h].saved
      /\ y.calls[h].written = z.calls[h].written /\ y.calls[h].tsn = z.calls[h].tsn
      /\ y.calls[h].state = "waiting"
      /\ \A g \in Handlers \ {h} : y.calls[g] = z.calls[g]
  BY <1>2, PostponedFacts
<1>4. Busy(y, h, seen)
  BY <1>1, <1>3 DEF Busy
<1>5. \A a \in ans : a.key \in seen
  <2>1. \A a \in ans : a.key[2] # z.calls[h].tsn
    BY <1>2 DEF Sent
  <2>2. \A a \in ans : Due(z.calls[h], seen, tab, a)
    BY <1>1 DEF Told
  <2> QED BY <2>1, <2>2 DEF Due
<1>6. Told(y.calls[h], seen, tab, exec, ans)
  <2>1. \A a \in ans : Due(y.calls[h], seen, tab, a)
    BY <1>5 DEF Due
  <2>2. Before(tab, y.calls[h].written)
    BY <1>1, <1>3 DEF Told
  <2> QED BY <1>3, <2>1, <2>2 DEF Told
<1>7. Sent(y, exec, ans)
  BY <1>2, <1>3 DEF Sent
<1>8. Sound(y, tab, exec, ans)
  BY <1>3, <1>4, <1>6, <1>7 DEF Sound
<1> QED BY <1>3, <1>8, Quiet

\* It sends its command again.
LEMMA RetryStep ==
    ASSUME NEW z, NEW tab, NEW exec, NEW ans, Sound(z, tab, exec, ans),
           NEW h \in Handlers, z.calls[h].state = "waiting",
           NEW y, y = SendCommand(z, h)
    PROVE  Sound(y, tab, exec, ans) /\ Claims(z.setup, y.setup, tab)
<1>1. PICK seen \in SUBSET Keys : Busy(z, h, seen) /\ Told(z.calls[h], seen, tab, exec, ans)
  BY WaitingIsBusy
<1>2. z \in Z2m /\ Sent(z, exec, ans) /\ z.tsn \in Nat
  BY DEF Sound, Z2m
<1>3. /\ y \in Z2m /\ y.tsn = z.tsn + 1 /\ y.pending = z.pending
      /\ y.setup = z.setup /\ y.timeout = z.timeout
      /\ y.calls[h].op = z.calls[h].op /\ y.calls[h].saved = z.calls[h].saved
      /\ y.calls[h].written = z.calls[h].written /\ y.calls[h].tsn = z.tsn + 1
      /\ y.calls[h].state = "awaiting"
      /\ \A g \in Handlers \ {h} : y.calls[g] = z.calls[g]
  BY <1>2, SendFacts
<1>4. \A key \in seen : key[2] < z.tsn + 1
  <2>1. \A key \in seen : key[2] \in Nat /\ key[2] < z.tsn
    BY <1>1 DEF Busy, Keys
  <2> QED BY <1>2, <2>1
<1>5. Busy(y, h, seen)
  <2>1. z.tsn + 1 > 0
    BY <1>2
  <2>2. /\ \A g \in Handlers \ {h} : z.calls[g].state \in {"idle", "over"}
        /\ z.timeout = WAKE_QUEUE /\ z.calls[h].saved = 0
        /\ z.calls[h].op \in Operations /\ z.calls[h].written \in 0 .. Expected(z.calls[h].op)
        /\ Knows(z.pending, z.calls[h].op, z.calls[h].written, seen)
        /\ seen \in SUBSET Keys
    BY <1>1 DEF Busy
  <2> QED BY <1>3, <1>4, <2>1, <2>2 DEF Busy
<1>6. Told(y.calls[h], seen, tab, exec, ans)
  <2>1. \A a \in ans : Due(y.calls[h], seen, tab, a)
    BY <1>1 DEF Told, Due
  <2>2. Before(tab, y.calls[h].written)
    BY <1>1, <1>3 DEF Told
  <2> QED BY <1>3, <2>1, <2>2 DEF Told
<1>7. Sent(y, exec, ans)
  BY <1>2, <1>3 DEF Sent
<1>8. Sound(y, tab, exec, ans)
  BY <1>3, <1>5, <1>6, <1>7 DEF Sound
<1> QED BY <1>3, <1>8, Quiet

\* A report of the assignment mode.
LEMMA ReportStep ==
    ASSUME NEW z, NEW tab, NEW exec, NEW ans, Sound(z, tab, exec, ans),
           NEW active \in BOOLEAN, NEW y, y = Report(z, active)
    PROVE  Sound(y, tab, exec, ans) /\ Claims(z.setup, y.setup, tab)
<1>1. z \in Z2m
  BY DEF Sound
<1>2. /\ y \in Z2m /\ y.pending = z.pending /\ y.calls = z.calls /\ y.tsn = z.tsn
      /\ y.timeout = z.timeout /\ y.setup \in {z.setup, "ready", "idle"}
  BY <1>1 DEF Report, Z2m, SetupStates
<1>3. Sound(y, tab, exec, ans)
  <2>1. Sent(y, exec, ans)
    BY <1>2 DEF Sound, Sent
  <2>2. CASE Resting(z)
    BY <1>2, <2>1, <2>2 DEF Resting, Sound
  <2>3. ASSUME NEW g \in Handlers, NEW seen \in SUBSET Keys, Busy(z, g, seen),
               Told(z.calls[g], seen, tab, exec, ans)
        PROVE  Sound(y, tab, exec, ans)
    <3>1. Busy(y, g, seen)
      BY <1>2, <2>3 DEF Busy
    <3> QED BY <1>2, <2>1, <2>3, <3>1 DEF Sound
  <2> QED BY <2>2, <2>3 DEF Sound
<1> QED BY <1>2, <1>3, Quiet

-----------------------------------------------------------------------------
(* An answer arrives, or is lost.                                           *)

LEMMA AnswersShrink ==
    ASSUME NEW z, NEW tab, NEW exec, NEW ans, Sound(z, tab, exec, ans), NEW ans2,
           \A b \in ans2 : b \in Answers /\ \E a \in ans : b.key = a.key /\ b.ok = a.ok
    PROVE  Sound(z, tab, exec, ans2)
<1>1. Sent(z, exec, ans2)
  BY DEF Sound, Sent
<1>2. ASSUME NEW c, NEW seen, Told(c, seen, tab, exec, ans)
      PROVE  Told(c, seen, tab, exec, ans2)
  <2>1. \A b \in ans2 : Due(c, seen, tab, b)
    BY <1>2 DEF Told, Due
  <2> QED BY <1>2, <2>1 DEF Told
<1> QED BY <1>1, <1>2 DEF Sound

\* The awaited answer reaches the call and the converter, in either order.
LEMMA AwaitedStep ==
    ASSUME NEW z, NEW tab, NEW exec, NEW ans, Sound(z, tab, exec, ans),
           Operations \subseteq Installs,
           NEW h \in Handlers, NEW seen \in SUBSET Keys, Busy(z, h, seen),
           Told(z.calls[h], seen, tab, exec, ans),
           NEW a \in ans, a.key = <<Command(z.calls[h]), z.calls[h].tsn>>, a.key \notin seen,
           NEW y, \/ y = Resolve(Progress(z, a), h, a.ok)
                  \/ y = Progress(Resolve(z, h, a.ok), a)
    PROVE  Sound(y, tab, exec, ans) /\ Claims(z.setup, y.setup, tab)
<1> DEFINE c == z.calls[h]
           p == Progress(z, a)
<1>1. /\ z \in Z2m /\ a \in Answers /\ a.ok \in BOOLEAN
      /\ \A t \in exec : t \in Nat /\ t <= z.tsn
      /\ \A b \in ans : b \in Answers /\ b.key[2] \in exec
  BY DEF Sound, Sent, Answers
<1>2. a.ok => tab = 1 .. c.written
  BY DEF Told, Due
<1>3. p.calls = z.calls
  BY <1>1, BusyAwaits, ProgressCounts
<1>4. CASE a.ok /\ c.written < Expected(c.op)
  <2>1. y = NextCommand(p, h) \/ y = Progress(NextCommand(z, h), a)
    BY <1>3, <1>4 DEF Resolve, NextCommand
  <2>2. GoesOn(z, y, h, seen \cup {a.key})
    BY <1>1, <1>4, <2>1, DeliverGoesOn
  <2> DEFINE more == seen \cup {a.key}
  <2>3. /\ y \in Z2m /\ Busy(y, h, more) /\ y.tsn = z.tsn + 1
        /\ y.calls[h].written = c.written + 1
        /\ y.calls[h].tsn = z.tsn + 1 /\ y.calls[h].state = "awaiting"
        /\ y.setup \in {z.setup} \cup {Opening(op) : op \in Setups}
    BY <2>2 DEF GoesOn
  <2>4. z.tsn \in Nat /\ c.written \in Nat
    BY <1>1 DEF Z2m, Calls
  <2>5. Sent(y, exec, ans)
    BY <1>1, <2>3, <2>4 DEF Sent
  <2>6. Before(tab, y.calls[h].written)
    BY <1>2, <1>4, <2>3, <2>4 DEF Before
  <2>7. more \in SUBSET Keys
    BY <1>1 DEF Answers
  <2>8. \A b \in ans : b.key \in more
    BY DEF Told, Due
  <2> HIDE DEF more
  <2>9. Told(y.calls[h], more, tab, exec, ans)
    <3>1. \A b \in ans : Due(y.calls[h], more, tab, b)
      BY <2>8 DEF Due
    <3> QED BY <2>3, <2>6, <3>1 DEF Told
  <2>10. Sound(y, tab, exec, ans)
    BY <2>3, <2>5, <2>7, <2>9 DEF Sound
  <2> QED BY <2>3, <2>10, Quiet
<1>5. CASE ~(a.ok /\ c.written < Expected(c.op))
  <2>1. y = End(p, h, a.ok) \/ y = Progress(End(z, h, a.ok), a)
    BY <1>3, <1>5 DEF Resolve
  <2>2. Ends(z, y, h, a.ok)
    BY <1>1, <1>5, <2>1, DeliverEnds
  <2>3. /\ y \in Z2m /\ Resting(y) /\ y.tsn = z.tsn
        /\ y.setup = Settled(c.op, a.ok, z.setup)
    BY <2>2 DEF Ends
  <2>4. Sent(y, exec, ans)
    BY <1>1, <2>3 DEF Sent
  <2>5. Sound(y, tab, exec, ans)
    BY <2>3, <2>4 DEF Sound
  <2>6. Claims(z.setup, y.setup, tab)
    <3>1. CASE ~a.ok
      <4>1. y.setup = Settled(c.op, FALSE, z.setup)
        BY <2>3, <3>1 DEF Settled
      <4> QED BY <4>1, SettledQuiet
    <3>2. CASE a.ok
      <4>1. tab = 1 .. c.written /\ c.op \in Installs /\ c.written = Expected(c.op)
        <5>1. /\ c.op \in Operations /\ c.written \in 0 .. Expected(c.op)
              /\ Expected(c.op) \in Nat
          BY ExpectedNat DEF Busy
        <5> QED BY <1>2, <1>5, <3>2, <5>1
      <4>2. CASE c.op = "gateway"
        <5>1. y.setup = "gateway_ready" /\ tab = Plan
          BY <2>3, <3>2, <4>1, <4>2 DEF Settled, Closing, Setups, Expected, Plan
        <5> QED BY <5>1 DEF Claims
      <4>3. CASE c.op = "direct"
        <5>1. y.setup = "direct_ready" /\ c.written = 0
          BY <2>3, <3>2, <4>1, <4>3 DEF Settled, Closing, Setups, Expected
        <5>2. tab = {}
          BY <4>1, <5>1
        <5> QED BY <5>1, <5>2 DEF Claims
      <4>4. CASE c.op \notin Setups
        <5>1. y.setup = z.setup
          BY <2>3, <4>4 DEF Settled
        <5> QED BY <5>1, Quiet
      <4> QED BY <4>2, <4>3, <4>4 DEF Setups
    <3> QED BY <3>1, <3>2
  <2> QED BY <2>5, <2>6
<1> QED BY <1>4, <1>5

LEMMA DeliverStep ==
    ASSUME TableInv, Operations \subseteq Installs,
           NEW a \in answers, Deliver(a)
    PROVE  TableInv' /\ Claims(z2m.setup, z2m'.setup, table)
<1>1. /\ z2m \in Z2m /\ \A b \in answers : b \in Answers
      /\ table' = table /\ executed' = executed
  BY DEF TableInv, Sound, Sent, Deliver, remote
<1>2. Sound(z2m', table, executed, answers) /\ Claims(z2m.setup, z2m'.setup, table)
  <2>1. ASSUME Waiters(a) = {}, z2m' = z2m
        PROVE  Sound(z2m', table, executed, answers) /\ Claims(z2m.setup, z2m'.setup, table)
    BY <2>1, Quiet DEF TableInv
  <2>2. CASE Resting(z2m)
    <3>1. Waiters(a) = {}
      BY <2>2 DEF Resting, Waiters, Awaiting
    <3>2. z2m' = Progress(z2m, a)
      BY <3>1 DEF Deliver
    <3>3. z2m' = z2m
      BY <2>2, <3>2, ProgressNothing DEF Resting
    <3> QED BY <2>1, <3>1, <3>3
  <2>3. ASSUME NEW h \in Handlers, NEW seen \in SUBSET Keys, Busy(z2m, h, seen),
               Told(z2m.calls[h], seen, table, executed, answers)
        PROVE  Sound(z2m', table, executed, answers) /\ Claims(z2m.setup, z2m'.setup, table)
    <3>1. \A g \in Waiters(a) : g = h /\ z2m.tsn = a.key[2]
      BY <2>3 DEF Busy, Waiters, Awaiting
    <3>2. CASE a.key \in seen
      <4>1. a.key[2] < z2m.tsn /\ a.key[2] \in Nat /\ z2m.tsn \in Nat
        BY <1>1, <2>3, <3>2 DEF Busy, Keys, Z2m
      <4>2. Waiters(a) = {}
        BY <3>1, <4>1
      <4>3. z2m' = Progress(z2m, a)
        BY <4>2 DEF Deliver
      <4>4. z2m.pending.seen_responses = seen
        BY <2>3 DEF Busy, Knows
      <4>5. z2m' = z2m
        BY <3>2, <4>3, <4>4, ProgressNothing
      <4> QED BY <2>1, <4>2, <4>5
    <3>3. CASE a.key \notin seen
      <4>1. /\ z2m.calls[h].state = "awaiting"
            /\ a.key = <<Command(z2m.calls[h]), z2m.calls[h].tsn>>
        BY <2>3, <3>3 DEF Told, Due
      <4>2. h \in Waiters(a)
        BY <4>1 DEF Waiters, Awaiting
      <4>3. \/ z2m' = Resolve(Progress(z2m, a), h, a.ok)
            \/ z2m' = Progress(Resolve(z2m, h, a.ok), a)
        BY <3>1, <4>2 DEF Deliver
      <4> QED BY <2>3, <3>3, <4>1, <4>3, AwaitedStep DEF TableInv
    <3> QED BY <3>2, <3>3
  <2> QED BY <2>2, <2>3 DEF TableInv, Sound
<1>3. \A b \in answers' : b \in Answers /\ \E c \in answers : b.key = c.key /\ b.ok = c.ok
  <2>1. a \in Answers
    BY <1>1
  <2> DEFINE again == [a EXCEPT !.copies = @ + 1]
  <2>2. again \in Answers /\ again.key = a.key /\ again.ok = a.ok
    BY <2>1 DEF Answers
  <2>3. answers' \subseteq answers \cup {again}
    BY DEF Deliver
  <2> HIDE DEF again
  <2> QED BY <1>1, <2>2, <2>3
<1>4. Sound(z2m', table, executed, answers')
  BY <1>2, <1>3, AnswersShrink
<1> QED BY <1>1, <1>2, <1>4 DEF TableInv

-----------------------------------------------------------------------------

LEMMA RequestStep ==
    ASSUME TableInv, Operations \subseteq Installs,
           NEW h \in Handlers, NEW op \in Operations, NEW found \in BOOLEAN,
           answers = {} \/ ~Allowed(z2m, op), Request(h, op, found)
    PROVE  TableInv' /\ Claims(z2m.setup, z2m'.setup, table)
<1>1. /\ z2m.calls[h].state = "idle" /\ op \in Installs
      /\ answers = {} \/ ~Allowed(z2m, op)
      /\ table' = table /\ executed' = executed /\ answers' = answers
  BY DEF Request, remote
<1>2. CASE Allowed(z2m, op) /\ (op = "gateway" => found)
  <2>1. answers = {} /\ z2m.pending = NoPending
    BY <1>1, <1>2 DEF Allowed
  <2>2. z2m' = SendCommand(Begun(z2m, h, op), h)
    BY <1>2 DEF Request, Begun, Asked
  <2> QED BY <1>1, <2>1, <2>2, BeginStep DEF TableInv
<1>3. CASE ~(Allowed(z2m, op) /\ (op = "gateway" => found))
  <2>1. z2m' = Shown(Refused(z2m, h), op, FALSE)
    BY <1>3 DEF Request, Refused
  <2> QED BY <1>1, <2>1, RefusalStep DEF TableInv
<1> QED BY <1>2, <1>3

\* What is so of every step.
LEMMA TableStep ==
    ASSUME TableInv, Operations \subseteq Installs, [TimelyNext]_vars
    PROVE  TableInv' /\ Claims(z2m.setup, z2m'.setup, table)
<1>1. ASSUME NEW h \in Handlers, NEW op \in Operations, NEW found \in BOOLEAN,
             answers = {} \/ ~Allowed(z2m, op), Request(h, op, found)
      PROVE  TableInv' /\ Claims(z2m.setup, z2m'.setup, table)
  BY <1>1, RequestStep
<1>2. ASSUME NEW h \in Handlers, NEW ok \in BOOLEAN, Execute(h, ok)
      PROVE  TableInv' /\ Claims(z2m.setup, z2m'.setup, table)
  <2>1. /\ z2m.calls[h].state = "awaiting" /\ z2m.calls[h].tsn \notin executed
        /\ executed' = executed \cup {z2m.calls[h].tsn}
        /\ answers' = answers \cup {[key |-> <<Command(z2m.calls[h]), z2m.calls[h].tsn>>,
                                     ok |-> ok, copies |-> 0]}
        /\ z2m' = z2m
    BY <1>2 DEF Execute, Awaiting
  <2>2. table' = Effect(table, z2m.calls[h], ok)
    BY <1>2 DEF Execute, Effect
  <2>3. Sound(z2m', table', executed', answers')
    BY <2>1, <2>2, ExecuteStep DEF TableInv
  <2> QED BY <2>1, <2>3, Quiet DEF TableInv
<1>3. ASSUME NEW h \in Handlers, NoRoute(h)
      PROVE  TableInv' /\ Claims(z2m.setup, z2m'.setup, table)
  <2>1. /\ z2m.calls[h].state = "awaiting" /\ z2m.calls[h].tsn \notin executed
        /\ z2m' = Postponed(z2m, h) \/ z2m' = End(z2m, h, FALSE)
        /\ table' = table /\ executed' = executed /\ answers' = answers
    BY <1>3 DEF NoRoute, Awaiting, Postponed, remote
  <2>2. CASE z2m' = Postponed(z2m, h)
    BY <2>1, <2>2, PostponeStep DEF TableInv
  <2>3. CASE z2m' = End(z2m, h, FALSE)
    BY <2>1, <2>3, FailStep DEF TableInv
  <2> QED BY <2>1, <2>2, <2>3
<1>4. ASSUME NEW h \in Handlers, Retry(h)
      PROVE  TableInv' /\ Claims(z2m.setup, z2m'.setup, table)
  <2>1. /\ z2m.calls[h].state = "waiting" /\ z2m' = SendCommand(z2m, h)
        /\ table' = table /\ executed' = executed /\ answers' = answers
    BY <1>4 DEF Retry, remote
  <2> QED BY <2>1, RetryStep DEF TableInv
<1>5. ASSUME NEW h \in Handlers, InTime(h)
      PROVE  TableInv' /\ Claims(z2m.setup, z2m'.setup, table)
  <2>1. /\ z2m.calls[h].state = "awaiting" /\ z2m' = End(z2m, h, FALSE)
        /\ table' = table /\ executed' = executed /\ answers' = answers
    BY <1>5 DEF InTime, TimesOut, Awaiting, remote
  <2> QED BY <2>1, FailStep DEF TableInv
<1>6. ASSUME NEW reported \in BOOLEAN, AssignmentMode(reported)
      PROVE  TableInv' /\ Claims(z2m.setup, z2m'.setup, table)
  <2>1. /\ z2m' = Report(z2m, ~listening) \/ z2m' = z2m
        /\ table' = table /\ executed' = executed /\ answers' = answers
    BY <1>6 DEF AssignmentMode
  <2>2. CASE z2m' = Report(z2m, ~listening)
    <3>1. (~listening) \in BOOLEAN
      OBVIOUS
    <3> QED BY <2>1, <2>2, <3>1, ReportStep DEF TableInv
  <2>3. CASE z2m' = z2m
    BY <2>1, <2>3, Quiet DEF TableInv
  <2> QED BY <2>1, <2>2, <2>3
<1>7. ASSUME NEW a \in answers, Deliver(a)
      PROVE  TableInv' /\ Claims(z2m.setup, z2m'.setup, table)
  BY <1>7, DeliverStep
<1>8. ASSUME NEW a \in answers, Lose(a)
      PROVE  TableInv' /\ Claims(z2m.setup, z2m'.setup, table)
  <2>1. /\ z2m' = z2m /\ table' = table /\ executed' = executed
        /\ answers' \subseteq answers
    BY <1>8 DEF Lose, remote
  <2>2. \A b \in answers : b \in Answers
    BY DEF TableInv, Sound, Sent
  <2>3. Sound(z2m, table, executed, answers')
    BY <2>1, <2>2, AnswersShrink DEF TableInv
  <2> QED BY <2>1, <2>3, Quiet DEF TableInv
<1>9. CASE UNCHANGED vars
  BY <1>9, Quiet DEF TableInv, vars, remote
<1> QED BY <1>1, <1>2, <1>3, <1>4, <1>5, <1>6, <1>7, <1>8, <1>9 DEF TimelyNext, Proceeds, Surroundings

-----------------------------------------------------------------------------

\* At most one setup or installation is under way, the converter knows of it what the
\* call itself knows, the table holds what has been confirmed, and no answer under way
\* is to anything but a command already counted or the one that is awaited
\* (withOperationLock, installProgress).
THEOREM TableTheorem ==
    ASSUME Operations \subseteq Installs
    PROVE  TimelySpec => []TableInv
<1>1. TableInv /\ [TimelyNext]_vars => TableInv'
  BY TableStep
<1> QED BY <1>1, InitSound, PTL DEF TimelySpec

\* The time that requests for a sleeping remote are kept is put back when the last
\* setup or installation ends, also for those turned down while it is under way
\* (withWakeQueue).
THEOREM TimeoutTheorem ==
    ASSUME Operations \subseteq Installs
    PROVE  TimelySpec => []TimeoutRestored
<1>1. TableInv => TimeoutRestored
  BY DEF TableInv, Sound, Resting, Busy, TimeoutRestored
<1> QED BY <1>1, TableTheorem, PTL

\* A setup that is shown to have succeeded has written what it says, however often the
\* radio repeats the answers and in whichever order the call and the converter see
\* them (installProgress).
THEOREM ShownTheorem ==
    ASSUME Operations \subseteq Installs
    PROVE  TimelySpec => ShownIsWritten
<1>1. TableInv /\ [TimelyNext]_vars =>
        [/\ z2m.setup # "gateway_ready" /\ z2m'.setup = "gateway_ready" => table = Plan
         /\ z2m.setup # "direct_ready" /\ z2m'.setup = "direct_ready" => table = {}]_vars
  BY TableStep DEF Claims
<1> QED BY <1>1, TableTheorem, PTL DEF TimelySpec, ShownIsWritten
================================================================================
