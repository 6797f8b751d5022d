--------------------------- MODULE EventPathProofs ---------------------------
(***************************************************************************)
(* Proofs about EventPath, for any number of slots, links and frames.        *)
(***************************************************************************)
EXTENDS EventPath, FiniteSetTheorems, WellFoundedInduction, TLAPS

-----------------------------------------------------------------------------
(* The slots.                                                               *)

Entries == {Unused} \cup [link : Links, direction : {"none", "up", "down"}]

\* The button of the link's rocker that moves in a direction, 0 for none.
Towards(link, direction) ==
    IF direction = "up" THEN Rocker(link[2])[1]
    ELSE IF direction = "down" THEN Rocker(link[2])[2] ELSE 0

SlotsTypeOK == slots \in [Slots -> Entries] /\ nextSlot \in Slots /\ held \in [Links -> Nat]

\* A link has at most one slot, ...
OneSlot == \A i, j \in Slots : slots[i].link = slots[j].link /\ slots[i].link \in Links => i = j

\* ... which tells what is held.
Told == \A i \in Slots : slots[i].link \in Links =>
            held[slots[i].link] = Towards(slots[i].link, slots[i].direction)

SlotsInv == SlotsTypeOK /\ OneSlot /\ Told

LEMMA SlotsNat == Slots \subseteq Nat /\ 0 \in Slots /\ SLOTS \in Nat \ {0}
<1>1. SLOTS \in Nat \ {0}
  BY EventPathAssumption
<1> QED BY <1>1 DEF Slots

LEMMA LinkFacts ==
    ASSUME NEW link \in Links
    PROVE  link # <<>> /\ link = <<link[1], link[2]>> /\ link[2] \in Cr11Endpoints
<1>1. link = <<link[1], link[2]>> /\ link[2] \in Cr11Endpoints
  BY EventPathAssumption
<1>2. <<link[1], link[2]>> # <<>>
  OBVIOUS
<1> QED BY <1>1, <1>2

LEMMA EntryFacts ==
    ASSUME NEW e \in Entries
    PROVE  /\ e.link \in Links <=> e # Unused
           /\ e = Unused => e.link = <<>>
           /\ e.direction \in {"none", "up", "down"}
<1>1. Unused.link = <<>> /\ Unused.direction = "none" /\ <<>> \notin Links
  BY LinkFacts DEF Unused
<1>2. CASE e = Unused
  BY <1>1, <1>2
<1>3. CASE e \in [link : Links, direction : {"none", "up", "down"}]
  <2>1. e.link \in Links
    BY <1>3
  <2> QED BY <1>1, <1>3, <2>1
<1> QED BY <1>2, <1>3 DEF Entries

\* The least of a set of numbers.
LEMMA LessThan == OpToRel(<, Nat) = {pair \in Nat \X Nat : pair[1] < pair[2]}
BY DEF OpToRel

LEMMA FirstFacts ==
    ASSUME NEW S \in SUBSET Nat, S # {}
    PROVE  First(S) \in S /\ \A j \in S : First(S) <= j
<1> DEFINE Below == OpToRel(<, Nat)
<1>1. \A j, i \in S : j < i => <<j, i>> \in Below
  BY LessThan
<1>2. IsWellFoundedOn(Below, Nat)
  BY NatLessThanWellFounded
<1> HIDE DEF Below
<1>3. PICK i \in S : \A j \in S : ~(<<j, i>> \in Below)
  BY <1>2, WFMin
<1>4. ASSUME NEW j \in S
      PROVE  i <= j
  <2>1. ~(j < i)
    BY <1>1, <1>3, Zenon
  <2> QED BY <2>1
<1> QED BY <1>4 DEF First

LEMMA PlaceFacts ==
    ASSUME SlotsTypeOK, OneSlot, NEW link \in Links
    PROVE  /\ Place(link) \in Slots
           /\ \A i \in Slots : slots[i].link = link => i = Place(link)
           /\ Matching(link) # {} => Place(link) = First(Matching(link))
           /\ Matching(link) # {} => slots[Place(link)].link = link
<1>1. Matching(link) \in SUBSET Nat /\ Free \in SUBSET Nat
  BY SlotsNat DEF Matching, Free
<1>2. CASE Matching(link) # {}
  <2>1. Place(link) = First(Matching(link))
    BY <1>2 DEF Place
  <2>2. Place(link) \in Matching(link)
    BY <1>1, <1>2, <2>1, FirstFacts
  <2>3. Place(link) \in Slots /\ slots[Place(link)].link = link
    BY <2>2 DEF Matching
  <2> QED BY <2>1, <2>3 DEF OneSlot
<1>3. CASE Matching(link) = {}
  <2>1. \A i \in Slots : slots[i].link # link
    BY <1>3 DEF Matching
  <2>2. CASE Free = {}
    <3>1. Place(link) = nextSlot
      BY <1>3, <2>2 DEF Place, Evicts
    <3> QED BY <1>3, <2>1, <3>1 DEF SlotsTypeOK
  <2>3. CASE Free # {}
    <3>1. Place(link) = First(Free)
      BY <1>3, <2>3 DEF Place, Evicts
    <3>2. First(Free) \in Free
      BY <1>1, <2>3, FirstFacts
    <3> QED BY <1>3, <2>1, <3>1, <3>2 DEF Free
  <2> QED BY <2>2, <2>3
<1> QED BY <1>2, <1>3

LEMMA RockerFacts ==
    ASSUME NEW endpoint
    PROVE  /\ Rocker(endpoint)[1] \in {5, 7} /\ Rocker(endpoint)[2] \in {6, 8}
           /\ \A mode \in {0, 1} : Rocker(endpoint)[mode + 1] \in 5 .. 8
<1>1. Rocker(endpoint) = <<7, 8>> \/ Rocker(endpoint) = <<5, 6>>
  BY DEF Rocker
<1> QED BY <1>1

LEMMA TowardsNat ==
    ASSUME NEW link, NEW direction
    PROVE  Towards(link, direction) \in Nat
BY RockerFacts DEF Towards

\* A link is put into its place.
LEMMA RememberSound ==
    ASSUME SlotsInv, NEW link \in Links, NEW direction \in {"up", "down"},
           RememberMotion(link, direction),
           held' = [held EXCEPT ![link] = Towards(link, direction)]
    PROVE  SlotsInv'
<1> DEFINE p == Place(link)
           e == [link |-> link, direction |-> direction]
<1>1. SlotsTypeOK /\ OneSlot /\ Told
  BY DEF SlotsInv
<1>2. p \in Slots /\ \A i \in Slots : slots[i].link = link => i = p
  BY <1>1, PlaceFacts
<1>3. e \in Entries /\ e.link = link /\ e.direction = direction
  BY DEF Entries
<1>4. slots' = [slots EXCEPT ![p] = e]
  BY DEF RememberMotion
<1> HIDE DEF p, e
<1>5. slots'[p] = e /\ \A i \in Slots \ {p} : slots'[i] = slots[i] /\ slots'[i].link # link
  BY <1>1, <1>2, <1>4 DEF SlotsTypeOK
<1>6. SlotsTypeOK'
  <2>1. slots' \in [Slots -> Entries]
    BY <1>1, <1>3, <1>4 DEF SlotsTypeOK
  <2>2. held' \in [Links -> Nat]
    BY <1>1, TowardsNat DEF SlotsTypeOK
  <2>3. nextSlot' \in Slots
    <3>1. nextSlot' = nextSlot \/ nextSlot' = (nextSlot + 1) % SLOTS
      BY DEF RememberMotion
    <3>2. nextSlot \in Slots
      BY <1>1 DEF SlotsTypeOK
    <3> QED BY <3>1, <3>2, SlotsNat DEF Slots
  <2> QED BY <2>1, <2>2, <2>3 DEF SlotsTypeOK
<1>7. OneSlot'
  <2> SUFFICES ASSUME NEW i \in Slots, NEW j \in Slots, slots'[i].link = slots'[j].link,
                      slots'[i].link \in Links
               PROVE  i = j
    BY DEF OneSlot
  <2>1. CASE i = p \/ j = p
    BY <1>3, <1>5, <2>1
  <2>2. CASE i # p /\ j # p
    BY <1>1, <1>5, <2>2 DEF OneSlot
  <2> QED BY <2>1, <2>2
<1>8. Told'
  <2> SUFFICES ASSUME NEW i \in Slots, slots'[i].link \in Links
               PROVE  held'[slots'[i].link] = Towards(slots'[i].link, slots'[i].direction)
    BY DEF Told
  <2>1. CASE i = p
    BY <1>1, <1>3, <1>5, <2>1 DEF SlotsTypeOK
  <2>2. CASE i # p
    <3>1. slots'[i] = slots[i] /\ slots[i].link # link
      BY <1>5, <2>2
    <3>2. held[slots[i].link] = Towards(slots[i].link, slots[i].direction)
      BY <1>1, <3>1 DEF Told
    <3> QED BY <1>1, <3>1, <3>2 DEF SlotsTypeOK
  <2> QED BY <2>1, <2>2
<1> QED BY <1>6, <1>7, <1>8 DEF SlotsInv

\* The place of a link is kept without a direction.
LEMMA ForgetSound ==
    ASSUME SlotsInv, NEW link \in Links, ForgetMotion(link), held' = [held EXCEPT ![link] = 0]
    PROVE  SlotsInv'
<1>1. SlotsTypeOK /\ OneSlot /\ Told /\ nextSlot' = nextSlot
  BY DEF SlotsInv, ForgetMotion
<1>2. held' \in [Links -> Nat] /\ held'[link] = 0
  BY <1>1 DEF SlotsTypeOK
<1>3. CASE Matching(link) = {}
  <2>1. slots' = slots /\ \A i \in Slots : slots[i].link # link
    BY <1>3 DEF ForgetMotion, Matching
  <2>2. Told'
    BY <1>1, <2>1 DEF Told, SlotsTypeOK
  <2> QED BY <1>1, <1>2, <2>1, <2>2 DEF SlotsInv, SlotsTypeOK, OneSlot
<1>4. CASE Matching(link) # {}
  <2> DEFINE p == First(Matching(link))
             e == [slots[p] EXCEPT !.direction = "none"]
  <2>1. p \in Slots /\ slots[p].link = link /\ \A i \in Slots : slots[i].link = link => i = p
    <3>1. p = Place(link)
      BY <1>1, <1>4, PlaceFacts
    <3> HIDE DEF p
    <3> QED BY <1>1, <1>4, <3>1, PlaceFacts
  <2>2. slots' = [slots EXCEPT ![p] = e]
    BY <1>1, <1>4, <2>1 DEF ForgetMotion, SlotsTypeOK
  <2>3. slots[p] \in [link : Links, direction : {"none", "up", "down"}]
    BY <1>1, <2>1, EntryFacts DEF SlotsTypeOK, Entries
  <2>4. e \in Entries /\ e.link = link /\ e.direction = "none"
    BY <2>1, <2>3 DEF Entries
  <2> HIDE DEF p, e
  <2>5. slots'[p] = e /\ \A i \in Slots \ {p} : slots'[i] = slots[i]
    BY <1>1, <2>1, <2>2 DEF SlotsTypeOK
  <2>6. slots' \in [Slots -> Entries]
    BY <1>1, <2>2, <2>4 DEF SlotsTypeOK
  <2>7. OneSlot'
    <3>1. \A i \in Slots : slots'[i].link = slots[i].link
      BY <2>1, <2>4, <2>5
    <3> QED BY <1>1, <3>1 DEF OneSlot
  <2>8. Told'
    <3> SUFFICES ASSUME NEW i \in Slots, slots'[i].link \in Links
                 PROVE  held'[slots'[i].link] = Towards(slots'[i].link, slots'[i].direction)
      BY DEF Told
    <3>1. CASE i = p
      BY <1>2, <2>4, <2>5, <3>1 DEF Towards
    <3>2. CASE i # p
      <4>1. slots'[i] = slots[i] /\ slots[i].link # link
        BY <2>1, <2>5, <3>2
      <4>2. held[slots[i].link] = Towards(slots[i].link, slots[i].direction)
        BY <1>1, <4>1 DEF Told
      <4> QED BY <1>1, <4>1, <4>2 DEF SlotsTypeOK
    <3> QED BY <3>1, <3>2
  <2> QED BY <1>1, <1>2, <2>6, <2>7, <2>8 DEF SlotsInv, SlotsTypeOK
<1> QED BY <1>3, <1>4

LEMMA QuietSound ==
    ASSUME SlotsInv, UNCHANGED <<slots, nextSlot, held>>
    PROVE  SlotsInv'
BY DEF SlotsInv, SlotsTypeOK, OneSlot, Told

\* What the property says of the slots.
LEMMA SlotsTell == SlotsInv => SlotsTellHolds
<1> SUFFICES ASSUME SlotsInv PROVE SlotsTellHolds
  OBVIOUS
<1>1. \A i \in Slots : /\ slots[i].link \in Links <=> slots[i] # Unused
                       /\ slots[i].direction \in {"none", "up", "down"}
  BY EntryFacts DEF SlotsInv, SlotsTypeOK
<1>2. \A i, j \in Slots : slots[i].link = slots[j].link /\ slots[i] # Unused => i = j
  BY <1>1 DEF SlotsInv, OneSlot
<1>3. \A i \in Slots : slots[i] # Unused =>
         /\ slots[i].direction = "up" => held[slots[i].link] = Rocker(slots[i].link[2])[1]
         /\ slots[i].direction = "down" => held[slots[i].link] = Rocker(slots[i].link[2])[2]
         /\ slots[i].direction = "none" => held[slots[i].link] = 0
  BY <1>1 DEF SlotsInv, Told, Towards
<1> QED BY <1>1, <1>2, <1>3 DEF SlotsTellHolds

-----------------------------------------------------------------------------
(* What the remote's commands are taken for.                                *)

LEMMA EventFacts ==
    ASSUME NEW kind
    PROVE  /\ Event(kind).kind = kind
           /\ \A value : Valued(kind, value).kind = kind /\ Valued(kind, value).value = value
BY DEF Event, Valued

\* The kinds of the events that the slots follow.
Tracked == {"level.move", "level.stop", "window.open", "window.close", "window.stop"}

LEMMA MalformedFacts == Unknown.kind = "unknown" /\ Malformed.kind = "malformed"
BY EventFacts DEF Unknown, Malformed

LEMMA BareFacts ==
    ASSUME NEW kind
    PROVE  /\ Bare(kind, <<>>) = Event(kind)
           /\ \A payload : Bare(kind, payload).kind \in {kind, "malformed"}
BY EventFacts, MalformedFacts DEF Bare

\* A command of the level cluster is that of its number modulo 4.
LEMMA DecodeLevelKind ==
    ASSUME NEW command \in 0 .. 7, NEW payload, NEW event,
           event = CASE command % 4 = 0 -> MovedTo(payload)
                     [] command % 4 = 1 -> Moved("level.move", 2, payload)
                     [] command % 4 = 2 -> Moved("level.step", 4, payload)
                     [] command % 4 = 3 -> Bare("level.stop", payload),
           event = Malformed \/ event.kind # "malformed"
    PROVE  Decode(LEVEL_CONTROL, command, payload) =
               IF event = Malformed THEN Malformed ELSE [event EXCEPT !.with_on_off = command > 3]
<1>1. Decode(LEVEL_CONTROL, command, payload) = DecodeLevel(command, payload)
  BY DEF Decode, ON_OFF, LEVEL_CONTROL, WINDOW_COVERING
<1>2. command <= 7 /\ ~(command > 7)
  OBVIOUS
<1> QED BY <1>1, <1>2 DEF DecodeLevel

LEMMA DecodeOnOffKind ==
    ASSUME NEW payload
    PROVE  Decode(ON_OFF, 2, payload).kind \in {"on_off.toggle", "malformed"}
BY BareFacts DEF Decode, DecodeOnOff, ON_OFF, LEVEL_CONTROL, WINDOW_COVERING

LEMMA DecodeMoveToKind ==
    ASSUME NEW command \in {0, 4}, NEW payload
    PROVE  Decode(LEVEL_CONTROL, command, payload).kind \in {"level.move_to", "malformed"}
<1>1. command \in 0 .. 7 /\ command % 4 = 0
  OBVIOUS
<1>2. MovedTo(payload) = Malformed
        \/ MovedTo(payload) = [Valued("level.move_to", payload[1]) EXCEPT
                                 !.transition_time = U16(payload[2], payload[3])]
  BY DEF MovedTo
<1>3. MovedTo(payload) = Malformed \/ MovedTo(payload).kind = "level.move_to"
  BY <1>2 DEF Valued, Event
<1> DEFINE event == MovedTo(payload)
<1>4. Decode(LEVEL_CONTROL, command, payload) =
        IF event = Malformed THEN Malformed ELSE [event EXCEPT !.with_on_off = command > 3]
  BY <1>1, <1>3, DecodeLevelKind
<1>5. event = Malformed \/ [event EXCEPT !.with_on_off = command > 3].kind = "level.move_to"
  BY <1>2 DEF Valued, Event
<1> HIDE DEF event
<1> QED BY <1>4, <1>5, MalformedFacts

LEMMA DecodeStepKind ==
    ASSUME NEW payload
    PROVE  Decode(LEVEL_CONTROL, 2, payload).kind \in {"level.step", "malformed"}
<1>1. Moved("level.step", 4, payload) = Malformed
        \/ Moved("level.step", 4, payload) =
             [Valued("level.step", payload[2]) EXCEPT
                !.direction = IF payload[1] = 0 THEN "up" ELSE "down"]
  BY DEF Moved
<1> DEFINE event == Moved("level.step", 4, payload)
<1>2. event = Malformed \/ event.kind = "level.step"
  BY <1>1 DEF Valued, Event
<1>3. Decode(LEVEL_CONTROL, 2, payload) =
        IF event = Malformed THEN Malformed ELSE [event EXCEPT !.with_on_off = 2 > 3]
  BY <1>2, DecodeLevelKind
<1>4. event = Malformed \/ [event EXCEPT !.with_on_off = 2 > 3].kind = "level.step"
  BY <1>1 DEF Valued, Event
<1> HIDE DEF event
<1> QED BY <1>3, <1>4, MalformedFacts

\* A move tells its direction.
LEMMA DecodeMove ==
    ASSUME NEW mode \in {0, 1}
    PROVE  /\ Decode(LEVEL_CONTROL, 1, <<mode, 1>>).kind = "level.move"
           /\ Decode(LEVEL_CONTROL, 1, <<mode, 1>>).direction = IF mode = 0 THEN "up" ELSE "down"
<1> DEFINE event == Moved("level.move", 2, <<mode, 1>>)
           direction == IF mode = 0 THEN "up" ELSE "down"
<1>1. event = [Valued("level.move", 1) EXCEPT !.direction = direction]
  BY DEF Moved
<1> HIDE DEF direction
<1>2. event.kind = "level.move"
  BY <1>1 DEF Valued, Event
<1>3. event # Malformed
  BY <1>2, MalformedFacts
<1>4. Decode(LEVEL_CONTROL, 1, <<mode, 1>>) =
        IF event = Malformed THEN Malformed ELSE [event EXCEPT !.with_on_off = 1 > 3]
  BY <1>2, DecodeLevelKind
<1>5. /\ [event EXCEPT !.with_on_off = 1 > 3].kind = "level.move"
      /\ [event EXCEPT !.with_on_off = 1 > 3].direction = direction
  BY <1>1 DEF Valued, Event
<1> HIDE DEF event
<1>6. /\ Decode(LEVEL_CONTROL, 1, <<mode, 1>>).kind = "level.move"
      /\ Decode(LEVEL_CONTROL, 1, <<mode, 1>>).direction = direction
  BY <1>3, <1>4, <1>5
<1> QED BY <1>6 DEF direction

LEMMA DecodeBadMove == Decode(LEVEL_CONTROL, 1, <<2, 1>>).kind = "malformed"
<1>1. Moved("level.move", 2, <<2, 1>>) = Malformed
  BY DEF Moved
<1>2. Decode(LEVEL_CONTROL, 1, <<2, 1>>) = Malformed
  BY <1>1, DecodeLevelKind
<1> QED BY <1>2, MalformedFacts

LEMMA DecodeLevelStop == Decode(LEVEL_CONTROL, 3, <<>>).kind = "level.stop"
<1> DEFINE event == Bare("level.stop", <<>>)
<1>1. event = Event("level.stop") /\ event.kind = "level.stop"
  BY BareFacts, EventFacts
<1>2. event # Malformed
  BY <1>1, MalformedFacts
<1>3. Decode(LEVEL_CONTROL, 3, <<>>) =
        IF event = Malformed THEN Malformed ELSE [event EXCEPT !.with_on_off = 3 > 3]
  BY <1>1, DecodeLevelKind
<1>4. [event EXCEPT !.with_on_off = 3 > 3].kind = "level.stop"
  BY <1>1 DEF Event
<1> HIDE DEF event
<1> QED BY <1>2, <1>3, <1>4

LEMMA DecodeWindowKind ==
    /\ Decode(WINDOW_COVERING, 0, <<>>).kind = "window.open"
    /\ Decode(WINDOW_COVERING, 1, <<>>).kind = "window.close"
    /\ Decode(WINDOW_COVERING, 2, <<>>).kind = "window.stop"
    /\ \A payload : Decode(WINDOW_COVERING, 4, payload).kind
                       \in {"window.goto_lift_value", "malformed"}
    /\ \A payload : Decode(WINDOW_COVERING, 5, payload).kind
                       \in {"window.goto_lift_percentage", "malformed"}
<1>1. \A command, payload :
        Decode(WINDOW_COVERING, command, payload) = DecodeWindow(command, payload)
  BY DEF Decode, ON_OFF, LEVEL_CONTROL, WINDOW_COVERING
<1>2. /\ Decode(WINDOW_COVERING, 0, <<>>) = Bare("window.open", <<>>)
      /\ Decode(WINDOW_COVERING, 1, <<>>) = Bare("window.close", <<>>)
      /\ Decode(WINDOW_COVERING, 2, <<>>) = Bare("window.stop", <<>>)
  BY <1>1 DEF DecodeWindow
<1>3. ASSUME NEW payload
      PROVE  /\ Decode(WINDOW_COVERING, 4, payload) = Malformed
                 \/ Decode(WINDOW_COVERING, 4, payload)
                      = Valued("window.goto_lift_value", U16(payload[1], payload[2]))
             /\ Decode(WINDOW_COVERING, 5, payload) = Malformed
                 \/ Decode(WINDOW_COVERING, 5, payload)
                      = Valued("window.goto_lift_percentage", payload[1])
  BY <1>1 DEF DecodeWindow
<1>4. ASSUME NEW payload
      PROVE  /\ Decode(WINDOW_COVERING, 4, payload).kind \in {"window.goto_lift_value", "malformed"}
             /\ Decode(WINDOW_COVERING, 5, payload).kind
                  \in {"window.goto_lift_percentage", "malformed"}
  <2>1. \A value : /\ Valued("window.goto_lift_value", value).kind = "window.goto_lift_value"
                   /\ Valued("window.goto_lift_percentage", value).kind
                        = "window.goto_lift_percentage"
    BY EventFacts
  <2> QED BY <1>3, <2>1, MalformedFacts
<1> QED BY <1>2, <1>4, BareFacts, EventFacts

-----------------------------------------------------------------------------
(* The gateway's handler.                                                   *)

\* A frame that is handled is tracked; the slots are left alone by any other.
LEMMA HandlerFacts ==
    ASSUME NEW link \in Links, NEW cluster, NEW command, NEW payload,
           RawZclHandler(Frame(link, cluster, command, payload))
    PROVE  LET event == Decode(cluster, command, payload)
           IN  /\ event.kind \in {"unknown", "malformed"} => UNCHANGED <<slots, nextSlot>>
               /\ event.kind \notin {"unknown", "malformed"} => TrackMotion(event, link)
<1> DEFINE frame == Frame(link, cluster, command, payload)
           event == Decode(cluster, command, payload)
<1>1. /\ frame.endpoint \in Cr11Endpoints /\ frame.request = TRUE
      /\ <<frame.source, frame.endpoint>> = link
      /\ frame.cluster = cluster /\ frame.command = command /\ frame.payload = payload
  BY LinkFacts DEF Frame
<1> HIDE DEF frame
<1>2. RawZclHandler(frame)
  BY DEF frame
<1> QED BY <1>1, <1>2 DEF RawZclHandler

LEMMA QuietFrame ==
    ASSUME NEW link \in Links, NEW cluster, NEW command, NEW payload,
           RawZclHandler(Frame(link, cluster, command, payload)),
           Decode(cluster, command, payload).kind \notin Tracked
    PROVE  UNCHANGED <<slots, nextSlot>>
<1> DEFINE event == Decode(cluster, command, payload)
<1>1. event.kind \notin {"unknown", "malformed"} => TrackMotion(event, link)
  BY HandlerFacts
<1>2. event.kind \in {"unknown", "malformed"} => UNCHANGED <<slots, nextSlot>>
  BY HandlerFacts
<1>3. event.kind \notin {"level.move", "level.stop", "window.open", "window.close", "window.stop"}
  BY DEF Tracked
<1> HIDE DEF event
<1>4. TrackMotion(event, link) => UNCHANGED <<slots, nextSlot>>
  BY <1>3 DEF TrackMotion
<1> QED BY <1>1, <1>2, <1>4

LEMMA RefusedFrame ==
    ASSUME NEW frame, RawZclHandler(frame),
           frame.endpoint \notin Cr11Endpoints \/ frame.request = FALSE
    PROVE  UNCHANGED <<slots, nextSlot>>
BY DEF RawZclHandler

\* The records of the plan are no moves and no stops.
LEMMA UpperQuiet ==
    ASSUME NEW link \in Links, Upper(link)
    PROVE  UNCHANGED <<slots, nextSlot, held>>
<1>1. PICK r \in RouterPlan :
        RawZclHandler(Frame(link, r.cluster_id, r.command_id, r.data))
  BY DEF Upper
<1>2. \/ r.cluster_id = ON_OFF /\ r.command_id = 2
      \/ r.cluster_id = LEVEL_CONTROL /\ r.command_id \in {0, 4}
  BY DEF RouterPlan
<1>3. Decode(r.cluster_id, r.command_id, r.data).kind
        \in {"on_off.toggle", "level.move_to", "malformed"}
  BY <1>2, DecodeOnOffKind, DecodeMoveToKind
<1>4. Decode(r.cluster_id, r.command_id, r.data).kind \notin Tracked
  BY <1>3 DEF Tracked
<1>5. UNCHANGED <<slots, nextSlot>>
  BY <1>1, <1>4, QuietFrame
<1> QED BY <1>5 DEF Upper

LEMMA StepQuiet ==
    ASSUME NEW link \in Links, Step(link)
    PROVE  UNCHANGED <<slots, nextSlot, held>>
<1>1. PICK mode \in {0, 1} : RawZclHandler(Frame(link, LEVEL_CONTROL, 2, <<mode, 1, 0, 0>>))
  BY DEF Step
<1>2. Decode(LEVEL_CONTROL, 2, <<mode, 1, 0, 0>>).kind \notin Tracked
  BY DecodeStepKind DEF Tracked
<1>3. UNCHANGED <<slots, nextSlot>>
  BY <1>1, <1>2, QuietFrame
<1> QED BY <1>3 DEF Step

LEMMA LiftQuiet ==
    ASSUME NEW link \in Links, Lift(link)
    PROVE  UNCHANGED <<slots, nextSlot, held>>
<1>1. PICK value \in {0, 50, 100} : RawZclHandler(Frame(link, WINDOW_COVERING, 5, <<value>>))
  BY DEF Lift
<1>2. Decode(WINDOW_COVERING, 5, <<value>>).kind \notin Tracked
  BY DecodeWindowKind DEF Tracked
<1>3. UNCHANGED <<slots, nextSlot>>
  BY <1>1, <1>2, QuietFrame
<1> QED BY <1>3 DEF Lift

LEMMA NoiseQuiet ==
    ASSUME NEW link \in Links, Noise(link)
    PROVE  UNCHANGED <<slots, nextSlot, held>>
<1>1. PICK frame :
        /\ RawZclHandler(frame) /\ held' = held
        /\ \/ \E payload : frame = Frame(link, ON_OFF, 2, payload)
           \/ frame = Frame(link, LEVEL_CONTROL, 1, <<2, 1>>)
           \/ \E command \in {0, 4} : \E payload : frame = Frame(link, LEVEL_CONTROL, command, payload)
           \/ \E command \in {4, 5} : \E payload : frame = Frame(link, WINDOW_COVERING, command, payload)
           \/ frame = Frame(<<link[1], 21>>, ON_OFF, 2, <<>>)
           \/ frame.request = FALSE
  BY DEF Noise, Frame
<1>2. ASSUME NEW cluster, NEW command, NEW payload, frame = Frame(link, cluster, command, payload),
             Decode(cluster, command, payload).kind \notin Tracked
      PROVE  UNCHANGED <<slots, nextSlot, held>>
  BY <1>1, <1>2, QuietFrame
<1>3. CASE \E payload : frame = Frame(link, ON_OFF, 2, payload)
  BY <1>2, <1>3, DecodeOnOffKind DEF Tracked
<1>4. CASE frame = Frame(link, LEVEL_CONTROL, 1, <<2, 1>>)
  BY <1>2, <1>4, DecodeBadMove DEF Tracked
<1>5. CASE \E command \in {0, 4} : \E payload : frame = Frame(link, LEVEL_CONTROL, command, payload)
  BY <1>2, <1>5, DecodeMoveToKind DEF Tracked
<1>6. CASE \E command \in {4, 5} : \E payload : frame = Frame(link, WINDOW_COVERING, command, payload)
  BY <1>2, <1>6, DecodeWindowKind DEF Tracked
<1>7. CASE frame = Frame(<<link[1], 21>>, ON_OFF, 2, <<>>)
  <2>1. frame.endpoint = 21
    BY <1>7 DEF Frame
  <2>2. 21 \notin Cr11Endpoints
    BY DEF Cr11Endpoints, LeftEndpoints, RightEndpoints, WINDOW_ENDPOINT
  <2> QED BY <1>1, <2>1, <2>2, RefusedFrame
<1>8. CASE frame.request = FALSE
  BY <1>1, <1>8, RefusedFrame
<1> QED BY <1>1, <1>3, <1>4, <1>5, <1>6, <1>7, <1>8

\* A hold is remembered in its direction.
LEMMA HoldRemembers ==
    ASSUME NEW link \in Links, Hold(link)
    PROVE  \E direction \in {"up", "down"} :
             /\ RememberMotion(link, direction)
             /\ held' = [held EXCEPT ![link] = Towards(link, direction)]
<1>1. PICK mode \in {0, 1} :
        /\ RawZclHandler(IF link[2] = WINDOW_ENDPOINT THEN Frame(link, WINDOW_COVERING, mode, <<>>)
                         ELSE Frame(link, LEVEL_CONTROL, 1, <<mode, 1>>))
        /\ held' = [held EXCEPT ![link] = Rocker(link[2])[mode + 1]]
  BY DEF Hold
<1> DEFINE direction == IF mode = 0 THEN "up" ELSE "down"
<1>2. direction \in {"up", "down"} /\ Towards(link, direction) = Rocker(link[2])[mode + 1]
  BY DEF Towards
<1>3. RememberMotion(link, direction)
  <2>1. CASE link[2] = WINDOW_ENDPOINT
    <3> DEFINE event == Decode(WINDOW_COVERING, mode, <<>>)
    <3>1. event.kind = IF mode = 0 THEN "window.open" ELSE "window.close"
      BY DecodeWindowKind
    <3>2. TrackMotion(event, link)
      BY <1>1, <2>1, <3>1, HandlerFacts
    <3> HIDE DEF event
    <3> QED BY <3>1, <3>2 DEF TrackMotion
  <2>2. CASE link[2] # WINDOW_ENDPOINT
    <3> DEFINE event == Decode(LEVEL_CONTROL, 1, <<mode, 1>>)
    <3>1. event.kind = "level.move" /\ event.direction = direction
      BY DecodeMove
    <3>2. TrackMotion(event, link)
      BY <1>1, <2>2, <3>1, HandlerFacts
    <3> HIDE DEF event, direction
    <3> QED BY <3>1, <3>2 DEF TrackMotion
  <2> QED BY <2>1, <2>2
<1> HIDE DEF direction
<1> QED BY <1>1, <1>2, <1>3

LEMMA StopForgets ==
    ASSUME NEW link \in Links, Stop(link)
    PROVE  ForgetMotion(link) /\ held' = [held EXCEPT ![link] = 0]
<1>1. CASE link[2] = WINDOW_ENDPOINT
  <2> DEFINE event == Decode(WINDOW_COVERING, 2, <<>>)
  <2>1. event.kind = "window.stop"
    BY DecodeWindowKind
  <2>2. TrackMotion(event, link)
    BY <1>1, <2>1, HandlerFacts DEF Stop
  <2> HIDE DEF event
  <2>3. ForgetMotion(link)
    BY <2>1, <2>2 DEF TrackMotion
  <2> QED BY <2>3 DEF Stop
<1>2. CASE link[2] # WINDOW_ENDPOINT
  <2> DEFINE event == Decode(LEVEL_CONTROL, 3, <<>>)
  <2>1. event.kind = "level.stop"
    BY DecodeLevelStop
  <2>2. TrackMotion(event, link)
    BY <1>2, <2>1, HandlerFacts DEF Stop
  <2> HIDE DEF event
  <2>3. ForgetMotion(link)
    BY <2>1, <2>2 DEF TrackMotion
  <2> QED BY <2>3 DEF Stop
<1> QED BY <1>1, <1>2

LEMMA SlotsInit == Init => SlotsInv
<1> SUFFICES ASSUME Init PROVE SlotsInv
  OBVIOUS
<1>1. \A i \in Slots : slots[i] = Unused /\ slots[i].link \notin Links
  BY EntryFacts DEF Init, Entries
<1>2. SlotsTypeOK
  BY SlotsNat DEF Init, SlotsTypeOK, Entries
<1> QED BY <1>1, <1>2 DEF SlotsInv, OneSlot, Told

LEMMA SlotsStep == SlotsInv /\ [Next]_vars => SlotsInv'
<1> SUFFICES ASSUME SlotsInv, [Next]_vars PROVE SlotsInv'
  OBVIOUS
<1>1. CASE UNCHANGED vars
  BY <1>1, QuietSound DEF vars
<1>2. ASSUME NEW link \in Links, Upper(link) PROVE SlotsInv'
  BY <1>2, UpperQuiet, QuietSound
<1>3. ASSUME NEW link \in Links, Step(link) PROVE SlotsInv'
  BY <1>3, StepQuiet, QuietSound
<1>4. ASSUME NEW link \in Links, Hold(link) PROVE SlotsInv'
  BY <1>4, HoldRemembers, RememberSound
<1>5. ASSUME NEW link \in Links, Stop(link) PROVE SlotsInv'
  BY <1>5, StopForgets, ForgetSound
<1>6. ASSUME NEW link \in Links, Lift(link) PROVE SlotsInv'
  BY <1>6, LiftQuiet, QuietSound
<1>7. ASSUME NEW link \in Links, Noise(link) PROVE SlotsInv'
  BY <1>7, NoiseQuiet, QuietSound
<1> QED BY <1>1, <1>2, <1>3, <1>4, <1>5, <1>6, <1>7 DEF Next

\* However the gestures of the remotes are interleaved, and however many links
\* there are for the slots, the slots and the rockers agree: no link has two, and
\* what a slot tells of its link is what the link's rocker holds (find_motion_slot,
\* remember_motion, forget_motion).
THEOREM SlotsTheorem == Spec => []SlotsTellHolds
<1>1. Spec => []SlotsInv
  BY SlotsInit, SlotsStep, PTL DEF Spec
<1> QED BY <1>1, SlotsTell, PTL
-----------------------------------------------------------------------------
(* The links that have held a button, and the slots that they have taken.   *)

Crowded == Cardinality(holders) > SLOTS

HoldersOK ==
    /\ holders \in SUBSET Links /\ IsFiniteSet(holders)
    /\ \A i \in Slots : slots[i].link \in Links => slots[i].link \in holders
    /\ \A link \in Links : held[link] # 0 => link \in holders

\* A link loses its slot to others only when there are more of them than slots.
KeepsSlot(link) == \E i \in Slots : slots[i].link = link
SlotsSuffice == Crowded \/ \A link \in holders : KeepsSlot(link)

HoldersInv == SlotsInv /\ HoldersOK /\ SlotsSuffice

\* A slot is taken from another link when every slot has one.
LEMMA EvictionCrowds ==
    ASSUME SlotsInv, HoldersOK, NEW link \in Links, Evicts(link)
    PROVE  Cardinality(holders \cup {link}) > SLOTS
<1> DEFINE others == holders \ {link}
           f == [i \in Slots |-> slots[i].link]
<1>1. ASSUME NEW i \in Slots
      PROVE  slots[i].link \in others
  <2>1. slots[i] # Unused /\ slots[i].link # link
    BY DEF Evicts, Free, Matching
  <2>2. slots[i] \in Entries
    BY DEF SlotsInv, SlotsTypeOK
  <2>3. slots[i].link \in Links
    BY <2>1, <2>2, EntryFacts
  <2> QED BY <2>1, <2>3 DEF HoldersOK
<1>2. f \in [Slots -> others] /\ \A i \in Slots : f[i] = slots[i].link
  BY <1>1
<1>3. IsFiniteSet(Slots) /\ Cardinality(Slots) = SLOTS
  <2>1. 0 \in Int /\ SLOTS - 1 \in Int /\ ~(0 > SLOTS - 1) /\ SLOTS - 1 - 0 + 1 = SLOTS
    BY SlotsNat
  <2> QED BY <2>1, FS_Interval DEF Slots
<1>4. IsFiniteSet(others) /\ Cardinality(others) \in Nat
  BY FS_RemoveElement, FS_CardinalityType DEF HoldersOK
<1> HIDE DEF f
<1>5. ~(Cardinality(others) < Cardinality(Slots))
  <2> SUFFICES ASSUME Cardinality(others) < Cardinality(Slots) PROVE FALSE
    OBVIOUS
  <2>1. PICK i, j \in Slots : i # j /\ f[i] = f[j]
    BY <1>2, <1>3, <1>4, FS_PigeonHole
  <2>2. slots[i].link = slots[j].link /\ slots[i].link \in Links
    BY <1>1, <1>2, <2>1 DEF HoldersOK
  <2> QED BY <2>1, <2>2 DEF SlotsInv, OneSlot
<1> HIDE DEF others
<1>6. Cardinality(others \cup {link}) = Cardinality(others) + 1
  <2>1. link \notin others
    BY DEF others
  <2> QED BY <1>4, <2>1, FS_AddElement
<1>7. others \cup {link} = holders \cup {link}
  BY DEF others
<1> QED BY <1>3, <1>4, <1>5, <1>6, <1>7, SlotsNat

\* The others keep theirs when one is free.
LEMMA RememberKeeps ==
    ASSUME SlotsInv, NEW link \in Links, NEW direction, RememberMotion(link, direction)
    PROVE  /\ KeepsSlot(link)'
           /\ \A i \in Slots : slots'[i] = slots[i] \/ slots'[i].link = link
           /\ ~Evicts(link) => \A other \in Links : KeepsSlot(other) => KeepsSlot(other)'
<1> DEFINE p == Place(link)
           e == [link |-> link, direction |-> direction]
<1>1. SlotsTypeOK /\ OneSlot
  BY DEF SlotsInv
<1>2. p \in Slots
  BY <1>1, PlaceFacts
<1>3. ASSUME ~Evicts(link)
      PROVE  slots[p].link = link \/ slots[p].link = <<>>
  <2>1. CASE Matching(link) # {}
    BY <1>1, <2>1, PlaceFacts
  <2>2. CASE Matching(link) = {} /\ Free # {}
    <3>1. Free \in SUBSET Nat /\ p = First(Free)
      BY <1>3, <2>2, SlotsNat DEF Free, Place
    <3>2. p \in Free
      BY <2>2, <3>1, FirstFacts
    <3> QED BY <3>2 DEF Free, Unused
  <2> QED BY <1>3, <2>1, <2>2 DEF Evicts
<1>4. slots' = [slots EXCEPT ![p] = e] /\ e.link = link
  BY DEF RememberMotion
<1> HIDE DEF p, e
<1>5. slots'[p] = e /\ \A i \in Slots \ {p} : slots'[i] = slots[i]
  BY <1>1, <1>2, <1>4 DEF SlotsTypeOK
<1>6. KeepsSlot(link)'
  BY <1>2, <1>4, <1>5 DEF KeepsSlot
<1>7. ASSUME ~Evicts(link), NEW other \in Links, KeepsSlot(other)
      PROVE  KeepsSlot(other)'
  <2>1. PICK i \in Slots : slots[i].link = other
    BY <1>7 DEF KeepsSlot
  <2>2. CASE other = link
    BY <1>6, <2>2
  <2>3. CASE other # link
    <3>1. i # p
      BY <1>3, <1>7, <2>1, <2>3, LinkFacts
    <3> QED BY <1>5, <2>1, <3>1 DEF KeepsSlot
  <2> QED BY <2>2, <2>3
<1> QED BY <1>2, <1>4, <1>5, <1>6, <1>7

LEMMA HoldersGrow ==
    ASSUME NEW S, IsFiniteSet(S), NEW x
    PROVE  /\ IsFiniteSet(S \cup {x}) /\ Cardinality(S) \in Nat /\ Cardinality(S \cup {x}) \in Nat
           /\ Cardinality(S) <= Cardinality(S \cup {x})
<1>1. Cardinality(S) \in Nat
  BY FS_CardinalityType
<1>2. /\ IsFiniteSet(S \cup {x})
      /\ Cardinality(S \cup {x}) = IF x \in S THEN Cardinality(S) ELSE Cardinality(S) + 1
  BY FS_AddElement
<1> QED BY <1>1, <1>2

LEMMA RememberHolders ==
    ASSUME HoldersInv, NEW link \in Links, NEW direction \in {"up", "down"},
           RememberMotion(link, direction), holders' = holders \cup {link},
           held' = [held EXCEPT ![link] = Towards(link, direction)]
    PROVE  HoldersInv'
<1>1. SlotsInv /\ HoldersOK /\ SlotsSuffice
  BY DEF HoldersInv
<1>2. SlotsInv'
  BY <1>1, RememberSound
<1>3. /\ KeepsSlot(link)'
      /\ \A i \in Slots : slots'[i] = slots[i] \/ slots'[i].link = link
      /\ ~Evicts(link) => \A other \in Links : KeepsSlot(other) => KeepsSlot(other)'
  BY <1>1, RememberKeeps
<1>4. HoldersOK'
  <2>1. holders' \in SUBSET Links /\ IsFiniteSet(holders')
    BY <1>1, HoldersGrow DEF HoldersOK
  <2>2. \A i \in Slots : slots'[i].link \in Links => slots'[i].link \in holders'
    BY <1>1, <1>3 DEF HoldersOK
  <2>3. \A other \in Links : held'[other] # 0 => other \in holders'
    BY <1>1 DEF HoldersOK, SlotsInv, SlotsTypeOK
  <2> QED BY <2>1, <2>2, <2>3 DEF HoldersOK
<1>5. SlotsSuffice'
  <2>1. CASE Evicts(link)
    BY <1>1, <2>1, EvictionCrowds DEF SlotsSuffice, Crowded
  <2>2. CASE ~Evicts(link) /\ Crowded
    <3>1. /\ Cardinality(holders) \in Nat /\ Cardinality(holders') \in Nat
          /\ Cardinality(holders) <= Cardinality(holders')
      BY <1>1, HoldersGrow DEF HoldersOK
    <3> QED BY <2>2, <3>1, SlotsNat DEF SlotsSuffice, Crowded
  <2>3. CASE ~Evicts(link) /\ ~Crowded
    <3>1. \A other \in holders : KeepsSlot(other) /\ other \in Links
      BY <1>1, <2>3 DEF SlotsSuffice, HoldersOK
    <3>2. \A other \in holders' : KeepsSlot(other)'
      BY <1>3, <2>3, <3>1
    <3> QED BY <3>2 DEF SlotsSuffice
  <2> QED BY <2>1, <2>2, <2>3
<1> QED BY <1>2, <1>4, <1>5 DEF HoldersInv

LEMMA ForgetHolders ==
    ASSUME HoldersInv, NEW link \in Links, ForgetMotion(link), holders' = holders,
           held' = [held EXCEPT ![link] = 0]
    PROVE  HoldersInv'
<1>1. SlotsInv /\ HoldersOK /\ SlotsSuffice
  BY DEF HoldersInv
<1>2. SlotsInv'
  BY <1>1, ForgetSound
<1>3. \A i \in Slots : slots'[i].link = slots[i].link
  <2>1. CASE Matching(link) = {}
    BY <2>1 DEF ForgetMotion
  <2>2. CASE Matching(link) # {}
    <3> DEFINE p == First(Matching(link))
               e == [slots[p] EXCEPT !.direction = "none"]
    <3>1. p \in Slots
      <4>1. SlotsTypeOK /\ OneSlot
        BY <1>1 DEF SlotsInv
      <4>2. p = Place(link)
        BY <2>2, <4>1, PlaceFacts
      <4> HIDE DEF p
      <4> QED BY <4>1, <4>2, PlaceFacts
    <3>2. slots \in [Slots -> Entries]
      BY <1>1 DEF SlotsInv, SlotsTypeOK
    <3>3. slots' = [slots EXCEPT ![p] = e]
      BY <2>2, <3>1, <3>2 DEF ForgetMotion
    <3>4. e.link = slots[p].link
      <4>1. slots[p] \in Entries
        BY <3>1, <3>2
      <4>2. slots[p] = Unused \/ slots[p] \in [link : Links, direction : {"none", "up", "down"}]
        BY <4>1 DEF Entries
      <4> HIDE DEF p
      <4> QED BY <4>2 DEF Unused
    <3> HIDE DEF p, e
    <3> QED BY <3>1, <3>2, <3>3, <3>4
  <2> QED BY <2>1, <2>2
<1>4. HoldersOK'
  <2>1. \A other \in Links : held'[other] # 0 => held[other] # 0
    BY <1>1 DEF SlotsInv, SlotsTypeOK
  <2> QED BY <1>1, <1>3, <2>1 DEF HoldersOK
<1>5. \A other : KeepsSlot(other) => KeepsSlot(other)'
  BY <1>3 DEF KeepsSlot
<1>6. SlotsSuffice'
  BY <1>1, <1>5 DEF SlotsSuffice, Crowded
<1> QED BY <1>2, <1>4, <1>6 DEF HoldersInv

LEMMA QuietHolders ==
    ASSUME HoldersInv, UNCHANGED <<slots, nextSlot, held, holders>>
    PROVE  HoldersInv'
<1>1. SlotsInv'
  BY QuietSound DEF HoldersInv
<1> QED BY <1>1 DEF HoldersInv, HoldersOK, SlotsSuffice, Crowded, KeepsSlot

LEMMA HoldersInit == Init => HoldersInv
<1> SUFFICES ASSUME Init PROVE HoldersInv
  OBVIOUS
<1>1. SlotsInv
  BY SlotsInit
<1>2. \A i \in Slots : slots[i].link \notin Links
  BY EntryFacts DEF Init, Entries
<1>3. HoldersOK
  BY <1>2, FS_EmptySet DEF Init, HoldersOK
<1>4. SlotsSuffice
  BY DEF Init, SlotsSuffice
<1> QED BY <1>1, <1>3, <1>4 DEF HoldersInv

-----------------------------------------------------------------------------
(* What is sent for a gesture.                                              *)

LEMMA DecodeMoved ==
    ASSUME NEW command \in {0, 4}, NEW level, NEW event,
           event = Decode(LEVEL_CONTROL, command, <<level, 0, 0>>)
    PROVE  /\ command = 0 => IsMarker(event, FALSE, level)
           /\ command = 4 => IsMarker(event, TRUE, level)
<1> DEFINE moved == MovedTo(<<level, 0, 0>>)
           with == command > 3
<1>1. moved = [Valued("level.move_to", level) EXCEPT !.transition_time = 0]
  BY DEF MovedTo, U16
<1>2. moved.kind = "level.move_to"
  BY <1>1 DEF Valued, Event
<1>3. moved # Malformed
  BY <1>2, MalformedFacts
<1>4. event = [moved EXCEPT !.with_on_off = with]
  <2>1. command \in 0 .. 7 /\ command % 4 = 0
    OBVIOUS
  <2> QED BY <1>2, <1>3, <2>1, DecodeLevelKind
<1> HIDE DEF moved, with
<1>5. event = [[Valued("level.move_to", level) EXCEPT !.transition_time = 0]
                EXCEPT !.with_on_off = with]
  BY <1>1, <1>4
<1>6. event = [kind |-> "level.move_to", direction |-> "none", value |-> level,
               transition_time |-> 0, has_value |-> TRUE, with_on_off |-> with]
  BY <1>5 DEF Valued, Event
<1>7. (command = 0 => with = FALSE) /\ (command = 4 => with = TRUE)
  <2>1. with \in BOOLEAN /\ (command = 0 => ~with) /\ (command = 4 => with)
    BY DEF with
  <2> QED BY <2>1
<1> QED BY <1>6, <1>7 DEF IsMarker

LEMMA DecodeMarkers ==
    /\ IsHoldMarker(Decode(LEVEL_CONTROL, 0, <<HOLD_MARKER, 0, 0>>))
    /\ IsReleaseMarker(Decode(LEVEL_CONTROL, 4, <<RELEASE_MARKER, 0, 0>>))
<1>1. IsMarker(Decode(LEVEL_CONTROL, 0, <<HOLD_MARKER, 0, 0>>), FALSE, HOLD_MARKER)
  BY DecodeMoved
<1>2. IsMarker(Decode(LEVEL_CONTROL, 4, <<RELEASE_MARKER, 0, 0>>), TRUE, RELEASE_MARKER)
  BY DecodeMoved
<1> QED BY <1>1, <1>2 DEF IsHoldMarker, IsReleaseMarker

\* A step tells its direction.
LEMMA DecodeStep ==
    ASSUME NEW mode \in {0, 1}
    PROVE  /\ Decode(LEVEL_CONTROL, 2, <<mode, 1, 0, 0>>).kind = "level.step"
           /\ Decode(LEVEL_CONTROL, 2, <<mode, 1, 0, 0>>).direction \in {"up", "down"}
<1> DEFINE event == Moved("level.step", 4, <<mode, 1, 0, 0>>)
           direction == IF mode = 0 THEN "up" ELSE "down"
<1>1. event = [Valued("level.step", 1) EXCEPT !.direction = direction]
  BY DEF Moved
<1>2. direction \in {"up", "down"}
  OBVIOUS
<1> HIDE DEF direction
<1>3. event.kind = "level.step"
  BY <1>1 DEF Valued, Event
<1>4. event # Malformed
  BY <1>3, MalformedFacts
<1>5. Decode(LEVEL_CONTROL, 2, <<mode, 1, 0, 0>>) =
        IF event = Malformed THEN Malformed ELSE [event EXCEPT !.with_on_off = 2 > 3]
  BY <1>3, DecodeLevelKind
<1>6. /\ [event EXCEPT !.with_on_off = 2 > 3].kind = "level.step"
      /\ [event EXCEPT !.with_on_off = 2 > 3].direction = direction
  BY <1>1 DEF Valued, Event
<1> HIDE DEF event
<1> QED BY <1>2, <1>4, <1>5, <1>6

LEMMA DecodeLift ==
    ASSUME NEW value \in {0, 100}
    PROVE  /\ Decode(WINDOW_COVERING, 5, <<value>>).kind = "window.goto_lift_percentage"
           /\ Decode(WINDOW_COVERING, 5, <<value>>).value = value
<1>1. Decode(WINDOW_COVERING, 5, <<value>>) = DecodeWindow(5, <<value>>)
  BY DEF Decode, ON_OFF, LEVEL_CONTROL, WINDOW_COVERING
<1>2. DecodeWindow(5, <<value>>) = Valued("window.goto_lift_percentage", value)
  BY DEF DecodeWindow
<1> QED BY <1>1, <1>2, EventFacts

\* Four of the endpoints have a selector, and all of them a rocker.
LEMMA SelectorFacts ==
    ASSUME NEW endpoint \in 10 .. 13
    PROVE  Selector(endpoint) \in 1 .. 4
BY DEF Selector

LEMMA LowerButtonFacts ==
    ASSUME NEW endpoint \in Cr11Endpoints, NEW direction \in {"up", "down"}
    PROVE  LowerButton(endpoint, direction) \in 5 .. 8
<1>1. endpoint \in LeftEndpoints \/ endpoint \in RightEndpoints \cup {WINDOW_ENDPOINT}
  BY DEF Cr11Endpoints
<1>2. CASE endpoint \in LeftEndpoints
  BY <1>2 DEF LowerButton
<1>3. CASE endpoint \notin LeftEndpoints
  BY <1>1, <1>3 DEF LowerButton
<1> QED BY <1>2, <1>3

LEMMA MappingFacts ==
    ASSUME NEW button \in 1 .. 8, NEW action \in {"click", "hold", "release"}, NEW direction,
           NEW selector, NEW mapping,
           \/ mapping = Mapping(button, action, direction, selector)
           \/ mapping = Inferred(Mapping(button, action, direction, selector))
    PROVE  mapping.button = button /\ mapping.action = action
<1>1. button # 0
  OBVIOUS
<1> QED BY <1>1 DEF Mapping, Inferred

Sendable(mapping) == mapping.button \in 1 .. 8 /\ mapping.action \in {"click", "hold", "release"}

LEMMA MapUpper ==
    ASSUME NEW event, NEW prior, NEW endpoint \in 10 .. 13,
           event.kind = "on_off.toggle" \/ IsHoldMarker(event) \/ IsReleaseMarker(event)
    PROVE  Sendable(MapEvent(event, prior, endpoint))
<1> DEFINE selector == Selector(endpoint)
           upper(action) == Mapping(selector, action, event.direction, selector)
<1>1. selector \in 1 .. 8
  BY SelectorFacts
<1>2. CASE event.kind = "on_off.toggle"
  <2>1. MapEvent(event, prior, endpoint) = upper("click")
    BY <1>2 DEF MapEvent, IsHoldMarker, IsReleaseMarker, IsMarker
  <2> HIDE DEF selector
  <2> QED BY <1>1, <2>1, MappingFacts DEF Sendable
<1>3. CASE IsHoldMarker(event)
  <2>1. event.kind = "level.move_to" /\ ~IsReleaseMarker(event)
    BY <1>3 DEF IsHoldMarker, IsReleaseMarker, IsMarker, HOLD_MARKER, RELEASE_MARKER
  <2>2. MapEvent(event, prior, endpoint) = upper("hold")
    BY <1>3, <2>1 DEF MapEvent
  <2> HIDE DEF selector
  <2> QED BY <1>1, <2>2, MappingFacts DEF Sendable
<1>4. CASE IsReleaseMarker(event)
  <2>1. event.kind = "level.move_to" /\ ~IsHoldMarker(event)
    BY <1>4 DEF IsHoldMarker, IsReleaseMarker, IsMarker, HOLD_MARKER, RELEASE_MARKER
  <2>2. MapEvent(event, prior, endpoint) = upper("release")
    BY <1>4, <2>1 DEF MapEvent
  <2> HIDE DEF selector
  <2> QED BY <1>1, <2>2, MappingFacts DEF Sendable
<1> QED BY <1>2, <1>3, <1>4

\* What a lower button is mapped to, by the kind of its event.
LEMMA MapKinds ==
    ASSUME NEW event, NEW prior, NEW endpoint, NEW mapping, mapping = MapEvent(event, prior, endpoint)
    PROVE  LET lower(at, action, direction) ==
                   Mapping(LowerButton(at, direction), action, direction, Selector(endpoint))
           IN  /\ event.kind = "level.step" => mapping = lower(endpoint, "click", event.direction)
               /\ event.kind = "level.move" => mapping = lower(endpoint, "hold", event.direction)
               /\ event.kind = "level.stop" =>
                    mapping = Inferred(lower(endpoint, "release", prior))
               /\ event.kind = "window.open" => mapping = lower(WINDOW_ENDPOINT, "hold", "up")
               /\ event.kind = "window.close" => mapping = lower(WINDOW_ENDPOINT, "hold", "down")
               /\ event.kind = "window.stop" =>
                    mapping = Inferred(lower(WINDOW_ENDPOINT, "release", prior))
               /\ event.kind = "window.goto_lift_percentage" /\ event.value = 0 =>
                    mapping = Mapping(2, "click", event.direction, 2)
               /\ event.kind = "window.goto_lift_percentage" /\ event.value = 100 =>
                    mapping = Mapping(4, "click", event.direction, 4)
<1>1. event.kind # "level.move_to" => ~IsHoldMarker(event) /\ ~IsReleaseMarker(event)
  BY DEF IsHoldMarker, IsReleaseMarker, IsMarker
<1> QED BY <1>1 DEF MapEvent

LEMMA MapLower ==
    ASSUME NEW event, NEW prior, NEW endpoint \in Cr11Endpoints,
           \/ event.kind \in {"level.step", "level.move"} /\ event.direction \in {"up", "down"}
           \/ event.kind \in {"level.stop", "window.stop"} /\ prior \in {"up", "down"}
           \/ event.kind \in {"window.open", "window.close"}
           \/ event.kind = "window.goto_lift_percentage" /\ event.value \in {0, 100}
    PROVE  Sendable(MapEvent(event, prior, endpoint))
<1> DEFINE mapping == MapEvent(event, prior, endpoint)
<1>1. \A at \in Cr11Endpoints, direction \in {"up", "down"} :
        LowerButton(at, direction) \in 1 .. 8
  BY LowerButtonFacts
<1>2. WINDOW_ENDPOINT \in Cr11Endpoints
  BY DEF Cr11Endpoints
<1>3. \E button \in 1 .. 8, action \in {"click", "hold", "release"} : \E direction, selector :
        \/ mapping = Mapping(button, action, direction, selector)
        \/ mapping = Inferred(Mapping(button, action, direction, selector))
  <2> HIDE DEF mapping
  <2> DEFINE lower(at, action, direction) ==
               Mapping(LowerButton(at, direction), action, direction, Selector(endpoint))
  <2>1. CASE event.kind = "level.step" /\ event.direction \in {"up", "down"}
    BY <1>1, <2>1, MapKinds DEF mapping
  <2>2. CASE event.kind = "level.move" /\ event.direction \in {"up", "down"}
    BY <1>1, <2>2, MapKinds DEF mapping
  <2>3. CASE event.kind = "level.stop" /\ prior \in {"up", "down"}
    BY <1>1, <2>3, MapKinds DEF mapping
  <2>4. CASE event.kind = "window.stop" /\ prior \in {"up", "down"}
    BY <1>1, <1>2, <2>4, MapKinds DEF mapping
  <2>5. CASE event.kind = "window.open"
    BY <1>1, <1>2, <2>5, MapKinds DEF mapping
  <2>6. CASE event.kind = "window.close"
    BY <1>1, <1>2, <2>6, MapKinds DEF mapping
  <2>7. CASE event.kind = "window.goto_lift_percentage" /\ event.value \in {0, 100}
    BY <2>7, MapKinds DEF mapping
  <2> QED BY <2>1, <2>2, <2>3, <2>4, <2>5, <2>6, <2>7
<1> HIDE DEF mapping
<1>4. Sendable(mapping)
  BY <1>3, MappingFacts DEF Sendable
<1> QED BY <1>4 DEF mapping

\* A packet has its header at least.
Listed(s) == \E S : s \in Seq(S)

Started(s) == Listed(s) /\ Len(s) > 0

LEMMA ConcatStarted ==
    ASSUME NEW s, NEW t, Started(s), Listed(t)
    PROVE  Started(s \o t)
<1>1. PICK S : s \in Seq(S)
  BY DEF Started, Listed
<1>2. PICK T : t \in Seq(T)
  BY DEF Listed
<1>3. s \in Seq(S \cup T) /\ t \in Seq(S \cup T)
  BY <1>1, <1>2
<1>4. s \o t \in Seq(S \cup T) /\ Len(s \o t) = Len(s) + Len(t)
  BY <1>3
<1>5. Len(s \o t) > 0
  <2>1. Len(s) \in Nat /\ Len(t) \in Nat /\ Len(s) > 0
    BY <1>1, <1>2 DEF Started
  <2> QED BY <1>4, <2>1
<1> QED BY <1>4, <1>5 DEF Started, Listed

LEMMA EmptyNotStarted == ~Started(<<>>)
BY DEF Started

LEMMA PairListed ==
    ASSUME NEW a, NEW b
    PROVE  Listed(<<a, b>>)
<1>1. <<a, b>> \in Seq({a, b})
  OBVIOUS
<1> QED BY <1>1 DEF Listed

LEMMA FunctionListed ==
    ASSUME NEW n \in Nat, NEW S, NEW s \in [1 .. n -> S]
    PROVE  Listed(s)
<1>1. s \in Seq(S)
  OBVIOUS
<1> QED BY <1>1 DEF Listed

LEMMA HeaderStarted ==
    ASSUME NEW a, NEW b, NEW c, NEW d, NEW e, NEW f, NEW g,
           NEW h, NEW i, NEW j, NEW k, NEW l, NEW m, NEW n
    PROVE  Started(<<a, b, c, d, e, f, g, h, i, j, k, l, m, n>>)
<1> DEFINE head == <<a, b, c, d, e, f, g, h, i, j, k, l, m, n>>
           S == {head[x] : x \in 1 .. 14}
<1>1. Len(head) = 14
  OBVIOUS
<1>2. head = [x \in 1 .. 14 |-> head[x]]
  OBVIOUS
<1>3. \A x \in 1 .. 14 : head[x] \in S
  OBVIOUS
<1> HIDE DEF head, S
<1>4. head \in [1 .. 14 -> S]
  BY <1>2, <1>3
<1>5. Listed(head)
  <2>1. 14 \in Nat
    OBVIOUS
  <2> QED BY <1>4, <2>1, FunctionListed
<1>6. Started(head)
  <2>1. 14 > 0
    OBVIOUS
  <2> QED BY <1>1, <1>5, <2>1 DEF Started
<1> QED BY <1>6 DEF head

LEMMA LEListed ==
    ASSUME NEW value, NEW size \in Nat
    PROVE  Listed(LE(value, size))
<1> DEFINE s == LE(value, size)
           S == {s[i] : i \in 1 .. size}
<1>1. s = [i \in 1 .. size |-> (value \div (256 ^ (i - 1))) % 256]
  BY DEF LE
<1>2. s \in [1 .. size -> S]
  <2>1. \A i \in 1 .. size : s[i] \in S
    OBVIOUS
  <2>2. DOMAIN s = 1 .. size /\ s = [i \in 1 .. size |-> s[i]]
    BY <1>1
  <2> HIDE DEF s, S
  <2> QED BY <2>1, <2>2
<1> HIDE DEF s, S
<1>3. Listed(s)
  BY <1>2, FunctionListed
<1> QED BY <1>3 DEF s

LEMMA EncodeFacts ==
    ASSUME NEW packet, packet.source.address \in [1 .. 8 -> 0 .. 255]
    PROVE  Encode(packet) # NoPacket
<1> DEFINE head ==
             <<packet.version, PACKET_SIZE, Code(ActionNames, packet.action),
               Code(EventNames, packet.event_kind), Code(DirectionNames, packet.direction),
               packet.flags, packet.selector, packet.button,
               Code(SourceModes, packet.source.mode), 0, packet.target_endpoint, 0, 4, 1>>
           cluster == LE(packet.cluster_id, 2)
           command == <<packet.command_id, 0>>
           value == LE(packet.value, 2)
           address == packet.source.address
           seq == LE(packet.sequence, 4)
<1>1. Encode(packet) = head \o cluster \o command \o value \o address \o seq
  BY DEF Encode
<1>2. Started(head)
  BY HeaderStarted
<1>3. Listed(command)
  BY PairListed
<1>4. Listed(cluster) /\ Listed(value) /\ Listed(seq)
  BY LEListed
<1>5. Listed(address)
  <2>1. address \in [1 .. 8 -> 0 .. 255]
    OBVIOUS
  <2>2. 8 \in Nat
    OBVIOUS
  <2> HIDE DEF address
  <2> QED BY <2>1, <2>2, FunctionListed
<1> HIDE DEF head, cluster, command, value, address, seq
<1>6. Started(head \o cluster)
  BY <1>2, <1>4, ConcatStarted
<1>7. Started(head \o cluster \o command)
  BY <1>3, <1>6, ConcatStarted
<1>8. Started(head \o cluster \o command \o value)
  BY <1>4, <1>7, ConcatStarted
<1>9. Started(head \o cluster \o command \o value \o address)
  BY <1>5, <1>8, ConcatStarted
<1>10. Started(head \o cluster \o command \o value \o address \o seq)
  BY <1>4, <1>9, ConcatStarted
<1>11. Started(Encode(packet))
  BY <1>1, <1>10
<1>12. ~Started(<<>>)
  BY EmptyNotStarted
<1> QED BY <1>11, <1>12 DEF NoPacket

\* The flag of a packet that is sendable can be read from the sum of the flags.
LEMMA FlagFacts ==
    ASSUME NEW a, NEW b, NEW c
    PROVE  Set(Flag(a, HAS_VALUE) + Flag(b, WITH_ON_OFF) + Flag(c, DIRECTION_INFERRED)
                 + Flag(TRUE, FORWARDABLE), FORWARDABLE)
<1>1. /\ Flag(a, HAS_VALUE) \in {0, 1} /\ Flag(b, WITH_ON_OFF) \in {0, 2}
      /\ Flag(c, DIRECTION_INFERRED) \in {0, 4} /\ Flag(TRUE, FORWARDABLE) = 8
  BY DEF Flag, HAS_VALUE, WITH_ON_OFF, DIRECTION_INFERRED, FORWARDABLE
<1>2. \A x \in {0, 1}, y \in {0, 2}, z \in {0, 4} : ((x + y + z + 8) \div 8) % 2 = 1
  OBVIOUS
<1> QED BY <1>1, <1>2 DEF Set, FORWARDABLE

LEMMA BuildFacts ==
    ASSUME NEW event, NEW prior, NEW frame, NEW number,
           Sendable(MapEvent(event, prior, frame.endpoint))
    PROVE  /\ IsForwardable(Build(event, prior, frame, number))
           /\ Build(event, prior, frame, number).source = frame.source
<1> DEFINE mapping == MapEvent(event, prior, frame.endpoint)
           packet == Build(event, prior, frame, number)
<1>1. mapping.button \in 1 .. 8 /\ mapping.action # "unknown"
  BY DEF Sendable
<1>2. /\ packet.action = mapping.action /\ packet.button = mapping.button
      /\ packet.source = frame.source
  BY DEF Build
<1>3. packet.flags = Flag(event.has_value, HAS_VALUE) + Flag(event.with_on_off, WITH_ON_OFF)
                       + Flag(mapping.inferred, DIRECTION_INFERRED)
                       + Flag(mapping.action # "unknown" /\ mapping.button \in 1 .. 8, FORWARDABLE)
  BY DEF Build
<1>4. (mapping.action # "unknown" /\ mapping.button \in 1 .. 8) = TRUE
  BY <1>1
<1> HIDE DEF mapping, packet
<1>5. Set(packet.flags, FORWARDABLE)
  BY <1>3, <1>4, FlagFacts
<1>6. IsForwardable(packet)
  BY <1>1, <1>2, <1>5 DEF IsForwardable
<1> QED BY <1>2, <1>6 DEF packet

LEMMA SentFacts ==
    ASSUME NEW link \in Links, NEW cluster, NEW command, NEW payload, NEW event,
           RawZclHandler(Frame(link, cluster, command, payload)),
           event = Decode(cluster, command, payload),
           event.kind \notin {"unknown", "malformed"},
           Sendable(MapEvent(event, PriorDirection(event, link), link[2]))
    PROVE  wire' # NoPacket
<1> DEFINE frame == Frame(link, cluster, command, payload)
           prior == PriorDirection(event, link)
           packet == Build(event, prior, frame, NextSequence(sequence, LastSequence))
<1>1. /\ frame.endpoint \in Cr11Endpoints /\ frame.request = TRUE
      /\ <<frame.source, frame.endpoint>> = link
      /\ frame.cluster = cluster /\ frame.command = command /\ frame.payload = payload
      /\ frame.endpoint = link[2] /\ frame.source = link[1]
  BY LinkFacts DEF Frame
<1>2. frame.source.address \in [1 .. 8 -> 0 .. 255]
  BY <1>1, EventPathAssumption
<1> HIDE DEF frame
<1>3. EmitGatewayPacket(event, prior, frame)
  <2>1. RawZclHandler(frame)
    BY DEF frame
  <2> HIDE DEF prior
  <2>2. prior = PriorDirection(event, <<frame.source, frame.endpoint>>)
    BY <1>1 DEF prior
  <2> QED BY <1>1, <2>1, <2>2 DEF RawZclHandler
<1>4. IsForwardable(packet) /\ packet.source = frame.source
  BY <1>1, BuildFacts
<1>5. wire' = IF IsForwardable(packet) THEN Encode(packet) ELSE NoPacket
  BY <1>3 DEF EmitGatewayPacket
<1> HIDE DEF packet
<1> QED BY <1>2, <1>4, <1>5, EncodeFacts

-----------------------------------------------------------------------------
(* No gesture is lost but for want of slots.                                *)

\* The last frame has made the gateway send something, if it was a gesture.
Answered == wire = NoPacket /\ gesture # NoGesture => Crowded /\ gesture[2] = "release"

PathInv == HoldersInv /\ Answered

LEMMA PlanFacts ==
    ASSUME NEW r \in RouterPlan
    PROVE  /\ r.target_endpoint \in 10 .. 13
           /\ \/ r.cluster_id = ON_OFF /\ r.command_id = 2 /\ r.data = <<>>
              \/ r.cluster_id = LEVEL_CONTROL /\ r.command_id = 0 /\ r.data = <<HOLD_MARKER, 0, 0>>
              \/ r.cluster_id = LEVEL_CONTROL /\ r.command_id = 4 /\ r.data = <<RELEASE_MARKER, 0, 0>>
BY DEF RouterPlan

LEMMA UpperSent ==
    ASSUME NEW link \in Links, Upper(link)
    PROVE  wire' # NoPacket
<1>1. PICK r \in RouterPlan :
        /\ r.target_endpoint = link[2]
        /\ RawZclHandler(Frame(link, r.cluster_id, r.command_id, r.data))
  BY DEF Upper
<1> DEFINE event == Decode(r.cluster_id, r.command_id, r.data)
<1>2. link[2] \in 10 .. 13
  BY <1>1, PlanFacts
<1>3. \/ event.kind = "on_off.toggle"
      \/ IsHoldMarker(event) \/ IsReleaseMarker(event)
  <2>1. Decode(ON_OFF, 2, <<>>).kind = "on_off.toggle"
    BY BareFacts, EventFacts DEF Decode, DecodeOnOff, ON_OFF, LEVEL_CONTROL, WINDOW_COVERING
  <2> QED BY <2>1, PlanFacts, DecodeMarkers
<1>4. event.kind \in {"on_off.toggle", "level.move_to"}
  BY <1>3 DEF IsHoldMarker, IsReleaseMarker, IsMarker
<1> HIDE DEF event
<1>5. Sendable(MapEvent(event, PriorDirection(event, link), link[2]))
  BY <1>2, <1>3, MapUpper
<1> QED BY <1>1, <1>4, <1>5, SentFacts DEF event

LEMMA StepSent ==
    ASSUME NEW link \in Links, Step(link)
    PROVE  wire' # NoPacket
<1>1. PICK mode \in {0, 1} : RawZclHandler(Frame(link, LEVEL_CONTROL, 2, <<mode, 1, 0, 0>>))
  BY DEF Step
<1> DEFINE event == Decode(LEVEL_CONTROL, 2, <<mode, 1, 0, 0>>)
<1>2. event.kind = "level.step" /\ event.direction \in {"up", "down"}
  BY DecodeStep
<1> HIDE DEF event
<1>3. Sendable(MapEvent(event, PriorDirection(event, link), link[2]))
  BY <1>2, LinkFacts, MapLower
<1> QED BY <1>1, <1>2, <1>3, SentFacts DEF event

LEMMA HoldSent ==
    ASSUME NEW link \in Links, Hold(link)
    PROVE  wire' # NoPacket
<1>1. PICK mode \in {0, 1} :
        RawZclHandler(IF link[2] = WINDOW_ENDPOINT THEN Frame(link, WINDOW_COVERING, mode, <<>>)
                      ELSE Frame(link, LEVEL_CONTROL, 1, <<mode, 1>>))
  BY DEF Hold
<1>2. CASE link[2] = WINDOW_ENDPOINT
  <2> DEFINE event == Decode(WINDOW_COVERING, mode, <<>>)
  <2>1. event.kind \in {"window.open", "window.close"}
    BY DecodeWindowKind
  <2> HIDE DEF event
  <2>2. Sendable(MapEvent(event, PriorDirection(event, link), link[2]))
    BY <2>1, LinkFacts, MapLower
  <2> QED BY <1>1, <1>2, <2>1, <2>2, SentFacts DEF event
<1>3. CASE link[2] # WINDOW_ENDPOINT
  <2> DEFINE event == Decode(LEVEL_CONTROL, 1, <<mode, 1>>)
  <2>1. event.kind = "level.move" /\ event.direction \in {"up", "down"}
    BY DecodeMove
  <2> HIDE DEF event
  <2>2. Sendable(MapEvent(event, PriorDirection(event, link), link[2]))
    BY <2>1, LinkFacts, MapLower
  <2> QED BY <1>1, <1>3, <2>1, <2>2, SentFacts DEF event
<1> QED BY <1>2, <1>3

LEMMA LiftSent ==
    ASSUME NEW link \in Links, Lift(link), gesture' # NoGesture
    PROVE  wire' # NoPacket
<1>1. PICK value \in {0, 50, 100} :
        /\ RawZclHandler(Frame(link, WINDOW_COVERING, 5, <<value>>))
        /\ gesture' = CASE value = 0 -> <<2, "click">> [] value = 100 -> <<4, "click">>
                        [] OTHER -> NoGesture
  BY DEF Lift
<1>2. value \in {0, 100}
  BY <1>1
<1> DEFINE event == Decode(WINDOW_COVERING, 5, <<value>>)
<1>3. event.kind = "window.goto_lift_percentage" /\ event.value = value
  BY <1>2, DecodeLift
<1> HIDE DEF event
<1>4. Sendable(MapEvent(event, PriorDirection(event, link), link[2]))
  BY <1>2, <1>3, LinkFacts, MapLower
<1> QED BY <1>1, <1>3, <1>4, SentFacts DEF event

\* The release of a button that a slot still tells of.
LEMMA StopSent ==
    ASSUME SlotsInv, NEW link \in Links, Stop(link), held[link] # 0, KeepsSlot(link)
    PROVE  wire' # NoPacket
<1>1. PICK i \in Slots : slots[i].link = link
  BY DEF KeepsSlot
<1>2. Matching(link) # {} /\ First(Matching(link)) = i
  <2>1. SlotsTypeOK /\ OneSlot
    BY DEF SlotsInv
  <2>2. Matching(link) # {}
    BY <1>1 DEF Matching
  <2> QED BY <1>1, <2>1, <2>2, PlaceFacts
<1>3. PreviousMotion(link) = slots[i].direction
  BY <1>2 DEF PreviousMotion
<1>4. slots[i].direction \in {"up", "down"}
  <2>1. held[link] = Towards(link, slots[i].direction)
    BY <1>1 DEF SlotsInv, Told
  <2> QED BY <2>1 DEF Towards
<1>5. ASSUME NEW event, event.kind \in {"level.stop", "window.stop"}
      PROVE  Sendable(MapEvent(event, PriorDirection(event, link), link[2]))
  <2>1. PriorDirection(event, link) \in {"up", "down"}
    BY <1>3, <1>4, <1>5 DEF PriorDirection
  <2> QED BY <1>5, <2>1, LinkFacts, MapLower
<1>6. CASE link[2] = WINDOW_ENDPOINT
  <2> DEFINE event == Decode(WINDOW_COVERING, 2, <<>>)
  <2>1. event.kind = "window.stop"
    BY DecodeWindowKind
  <2>2. RawZclHandler(Frame(link, WINDOW_COVERING, 2, <<>>))
    BY <1>6 DEF Stop
  <2> HIDE DEF event
  <2>3. Sendable(MapEvent(event, PriorDirection(event, link), link[2]))
    BY <1>5, <2>1
  <2> QED BY <2>1, <2>2, <2>3, SentFacts DEF event
<1>7. CASE link[2] # WINDOW_ENDPOINT
  <2> DEFINE event == Decode(LEVEL_CONTROL, 3, <<>>)
  <2>1. event.kind = "level.stop"
    BY DecodeLevelStop
  <2>2. RawZclHandler(Frame(link, LEVEL_CONTROL, 3, <<>>))
    BY <1>7 DEF Stop
  <2> HIDE DEF event
  <2>3. Sendable(MapEvent(event, PriorDirection(event, link), link[2]))
    BY <1>5, <2>1
  <2> QED BY <2>1, <2>2, <2>3, SentFacts DEF event
<1> QED BY <1>6, <1>7

LEMMA StopAnswered ==
    ASSUME HoldersInv, NEW link \in Links, Stop(link)
    PROVE  Answered'
<1> SUFFICES ASSUME wire' = NoPacket, gesture' # NoGesture
             PROVE  Crowded' /\ gesture'[2] = "release"
  BY DEF Answered
<1>1. SlotsInv /\ HoldersOK /\ SlotsSuffice
  BY DEF HoldersInv
<1>2. held[link] # 0 /\ gesture' = Lower(link, held[link], "release") /\ holders' = holders
  BY DEF Stop
<1>3. link \in holders
  BY <1>1, <1>2 DEF HoldersOK
<1>4. Crowded
  BY <1>1, <1>2, <1>3, StopSent DEF SlotsSuffice
<1>5. gesture'[2] = "release"
  BY <1>2 DEF Lower
<1> QED BY <1>2, <1>4, <1>5 DEF Crowded

LEMMA PathStep == PathInv /\ [Next]_vars => PathInv'
<1> SUFFICES ASSUME PathInv, [Next]_vars PROVE PathInv'
  OBVIOUS
<1>0. HoldersInv /\ SlotsInv
  BY DEF PathInv, HoldersInv
<1>1. CASE UNCHANGED vars
  <2>1. HoldersInv'
    BY <1>0, <1>1, QuietHolders DEF vars
  <2> QED BY <1>1, <2>1 DEF PathInv, Answered, Crowded, vars
<1>2. ASSUME NEW link \in Links, Upper(link) PROVE PathInv'
  <2>1. HoldersInv'
    BY <1>0, <1>2, UpperQuiet, QuietHolders DEF Upper
  <2> QED BY <1>2, <2>1, UpperSent DEF PathInv, Answered
<1>3. ASSUME NEW link \in Links, Step(link) PROVE PathInv'
  <2>1. HoldersInv'
    BY <1>0, <1>3, StepQuiet, QuietHolders DEF Step
  <2> QED BY <1>3, <2>1, StepSent DEF PathInv, Answered
<1>4. ASSUME NEW link \in Links, Hold(link) PROVE PathInv'
  <2>1. holders' = holders \cup {link}
    BY <1>4 DEF Hold
  <2>2. HoldersInv'
    BY <1>0, <1>4, <2>1, HoldRemembers, RememberHolders
  <2> QED BY <1>4, <2>2, HoldSent DEF PathInv, Answered
<1>5. ASSUME NEW link \in Links, Stop(link) PROVE PathInv'
  <2>1. HoldersInv'
    BY <1>0, <1>5, StopForgets, ForgetHolders DEF Stop
  <2> QED BY <1>0, <1>5, <2>1, StopAnswered DEF PathInv
<1>6. ASSUME NEW link \in Links, Lift(link) PROVE PathInv'
  <2>1. HoldersInv'
    BY <1>0, <1>6, LiftQuiet, QuietHolders DEF Lift
  <2> QED BY <1>6, <2>1, LiftSent DEF PathInv, Answered
<1>7. ASSUME NEW link \in Links, Noise(link) PROVE PathInv'
  <2>1. HoldersInv'
    BY <1>0, <1>7, NoiseQuiet, QuietHolders DEF Noise
  <2> QED BY <1>7, <2>1 DEF PathInv, Answered, Noise
<1> QED BY <1>1, <1>2, <1>3, <1>4, <1>5, <1>6, <1>7 DEF Next

LEMMA PathInit == Init => PathInv
BY HoldersInit DEF PathInv, Answered, Init

\* As long as no more links have held a button than there are slots, every gesture
\* makes the gateway send a packet; and beyond that only a release may fail to
\* (raw_zcl_handler, find_motion_slot, cr11_gateway_packet_is_forwardable).
THEOREM NothingLostTheorem == Spec => []NothingLost
<1>1. Spec => []PathInv
  BY PathInit, PathStep, PTL DEF Spec
<1>2. PathInv => NothingLost
  BY DEF PathInv, Answered, Crowded, NothingLost
<1> QED BY <1>1, <1>2, PTL
=============================================================================
