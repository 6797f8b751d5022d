---------------------------- MODULE UsbStreamProofs ----------------------------
(***************************************************************************)
(* Proofs about UsbStream, for every length of a frame, of the queue, of the *)
(* driver's buffer and of the reader's line: the stream keeps the promise of *)
(* LossyStream, and every event that is lost is accounted for.               *)
(***************************************************************************)
EXTENDS UsbStream, SequenceTheorems, TLAPS

\* A piece: damaged, of a body, or a newline.
Pieces == [event : Nat \ {0}, index : 0 .. BODY + 1]

UsbTypeOK ==
    /\ sent \in Nat /\ ready \in BOOLEAN /\ item \in Nat
    /\ usbQueue \in Seq(Nat \ {0})
    /\ buffered \in Seq(Pieces) /\ buffer \in Seq(Pieces)
    /\ connected \in BOOLEAN /\ reading \in BOOLEAN /\ discarding \in BOOLEAN
    /\ printed \in Seq(Nat \ {0})

\* The reader's line so far holds no newline, and is empty while there is no line.
LineInv ==
    /\ discarding \/ ~reading => buffer = <<>>
    /\ ~reading => ~discarding
    /\ \A i \in 1 .. Len(buffer) : ~EndsLine(buffer[i])

\* All pieces that the reader has not dealt with.
Stream == buffer \o buffered

-----------------------------------------------------------------------------
(* Pieces, frames and sequences of them.                                    *)

LEMMA BodyNat == BODY \in Nat \ {0} /\ MAX_LINE \in Nat /\ BODY <= MAX_LINE
BY StreamAssumption

LEMMA FrameFacts ==
    ASSUME NEW n \in Nat \ {0}
    PROVE  /\ Body(n) \in Seq(Pieces) /\ Len(Body(n)) = BODY
           /\ \A i \in 1 .. BODY : Body(n)[i] = Piece(n, i)
           /\ Frame(n) \in Seq(Pieces) /\ Len(Frame(n)) = BODY + 1
           /\ \A i \in 1 .. BODY + 1 : Frame(n)[i] = Piece(n, i) /\ Piece(n, i) \in Pieces
<1>1. \A i \in 1 .. BODY + 1 : Piece(n, i) \in Pieces
  BY BodyNat DEF Piece, Pieces
<1>2. Body(n) \in Seq(Pieces) /\ Len(Body(n)) = BODY
  <2>1. Body(n) \in [1 .. BODY -> Pieces]
    BY <1>1, BodyNat DEF Body
  <2> QED BY <2>1, BodyNat, SeqDef
<1>3. \A i \in 1 .. BODY : Body(n)[i] = Piece(n, i)
  BY BodyNat DEF Body
<1>4. Piece(n, BODY + 1) \in Pieces
  BY <1>1, BodyNat
<1>5. /\ Frame(n) \in Seq(Pieces) /\ Len(Frame(n)) = BODY + 1
      /\ \A i \in 1 .. BODY + 1 : Frame(n)[i] = Piece(n, i)
  BY <1>2, <1>3, <1>4, BodyNat, AppendProperties DEF Frame
<1> QED BY <1>1, <1>2, <1>3, <1>5

LEMMA JoinFacts ==
    ASSUME NEW s \in Seq(Pieces), NEW t \in Seq(Pieces)
    PROVE  /\ Len(s) \in Nat /\ Len(t) \in Nat
           /\ s \o t \in Seq(Pieces) /\ Len(s \o t) = Len(s) + Len(t)
           /\ \A i \in 1 .. Len(s) : (s \o t)[i] = s[i]
           /\ \A i \in 1 .. Len(t) : (s \o t)[Len(s) + i] = t[i]
           /\ \A i \in 1 .. Len(s \o t) : (s \o t)[i] \in Pieces
           /\ ToSet(s) \cup ToSet(t) = ToSet(s \o t)
<1> DEFINE u == s \o t
<1>1. Len(s) \in Nat /\ Len(t) \in Nat
  OBVIOUS
<1>2. /\ u \in Seq(Pieces) /\ Len(u) = Len(s) + Len(t)
      /\ \A i \in 1 .. Len(s) + Len(t) : u[i] = IF i <= Len(s) THEN s[i] ELSE t[i - Len(s)]
  BY ConcatProperties
<1> HIDE DEF u
<1>3. \A i \in 1 .. Len(s) : u[i] = s[i] /\ i \in 1 .. Len(u)
  BY <1>1, <1>2
<1>4. \A i \in 1 .. Len(t) : u[Len(s) + i] = t[i] /\ Len(s) + i \in 1 .. Len(u)
  BY <1>1, <1>2
<1>5. ToSet(s) \cup ToSet(t) = ToSet(u)
  <2>1. /\ \A x : x \in ToSet(s) <=> \E i \in 1 .. Len(s) : x = s[i]
        /\ \A x : x \in ToSet(t) <=> \E i \in 1 .. Len(t) : x = t[i]
        /\ \A x : x \in ToSet(u) <=> \E i \in 1 .. Len(u) : x = u[i]
    <3>1. DOMAIN s = 1 .. Len(s) /\ DOMAIN t = 1 .. Len(t) /\ DOMAIN u = 1 .. Len(u)
      BY <1>2, LenProperties
    <3> QED BY <3>1 DEF ToSet
  <2>2. \A i \in 1 .. Len(u) : \/ i \in 1 .. Len(s) /\ u[i] = s[i]
                               \/ i - Len(s) \in 1 .. Len(t) /\ u[i] = t[i - Len(s)]
    BY <1>1, <1>2
  <2>3. \A x : x \in ToSet(s) \cup ToSet(t) => x \in ToSet(u)
    BY <1>3, <1>4, <2>1
  <2>4. \A x : x \in ToSet(u) => x \in ToSet(s) \cup ToSet(t)
    BY <2>1, <2>2
  <2> QED BY <2>3, <2>4
<1> QED BY <1>1, <1>2, <1>3, <1>4, <1>5, ElementOfSeq DEF u

\* t is what is left of s without its first d elements.
Rest(s, t, d) ==
    /\ d \in 0 .. Len(s) /\ Len(t) = Len(s) - d
    /\ \A i \in 1 .. Len(t) : t[i] = s[d + i]

LEMMA TailRest ==
    ASSUME NEW S, NEW s \in Seq(S), s # <<>>
    PROVE  /\ Tail(s) \in Seq(S) /\ Head(s) = s[1] /\ s[1] \in S
           /\ Rest(s, Tail(s), 1) /\ Len(s) \in Nat \ {0}
<1>1. Len(s) \in Nat \ {0}
  BY EmptySeq
<1>2. Tail(s) \in Seq(S) /\ Len(Tail(s)) = Len(s) - 1
      /\ \A i \in 1 .. Len(Tail(s)) : Tail(s)[i] = s[i + 1]
  BY HeadTailProperties
<1>3. Head(s) = s[1] /\ s[1] \in S
  BY <1>1
<1> QED BY <1>1, <1>2, <1>3 DEF Rest

-----------------------------------------------------------------------------
(* What the reader does with a piece.                                       *)

\* It keeps the piece in its line, ...
Kept ==
    /\ ~discarding /\ discarding' = FALSE /\ printed' = printed
    /\ ~EndsLine(Head(buffered))
    /\ buffer' = Append(buffer, Head(buffered))

\* ... throws it away with the line, ...
Skipped ==
    /\ discarding \/ Len(buffer) >= MAX_LINE
    /\ discarding' = TRUE /\ printed' = printed
    /\ ~EndsLine(Head(buffered))
    /\ buffer' = <<>>

\* ... or ends the line.
Ended ==
    /\ EndsLine(Head(buffered))
    /\ buffer' = <<>> /\ discarding' = FALSE
    /\ printed' = IF ~discarding /\ IsFrame(buffer)
                  THEN Append(printed, Head(buffer).event) ELSE printed

LEMMA ReadFacts ==
    ASSUME UsbTypeOK, LineInv, Read
    PROVE  /\ UsbTypeOK' /\ LineInv'
           /\ \/ Kept /\ Rest(Stream, Stream', 0)
              \/ (Skipped \/ Ended) /\ Rest(Stream, Stream', Len(buffer) + 1)
           /\ Len(buffer) + 1 <= Len(Stream)
           /\ Stream[Len(buffer) + 1] = Head(buffered)
<1>1. /\ reading /\ buffered # <<>> /\ buffered' = Tail(buffered)
      /\ UNCHANGED <<sent, ready, usbQueue, item, connected, reading>>
  BY DEF Read, device
<1>2. /\ buffer \in Seq(Pieces) /\ buffered \in Seq(Pieces) /\ discarding \in BOOLEAN
      /\ printed \in Seq(Nat \ {0}) /\ Len(buffer) \in Nat
  BY DEF UsbTypeOK
<1>3. /\ buffered' \in Seq(Pieces) /\ Head(buffered) = buffered[1] /\ buffered[1] \in Pieces
      /\ Rest(buffered, buffered', 1) /\ Len(buffered) \in Nat \ {0}
  BY <1>1, <1>2, TailRest
<1>4. Kept \/ Skipped \/ Ended
  <2>1. CASE EndsLine(Head(buffered))
    BY <2>1 DEF Read, EndLine, Ended
  <2>2. CASE ~EndsLine(Head(buffered))
    <3>1. Collect(Head(buffered)) /\ printed' = printed
      BY <2>2 DEF Read
    <3>2. CASE discarding
      BY <2>2, <3>1, <3>2 DEF Collect, line, Skipped, LineInv
    <3>3. CASE ~discarding /\ Len(buffer) >= MAX_LINE
      BY <2>2, <3>1, <3>3 DEF Collect, Skipped
    <3>4. CASE ~discarding /\ ~(Len(buffer) >= MAX_LINE)
      BY <2>2, <3>1, <3>4 DEF Collect, Kept
    <3> QED BY <3>2, <3>3, <3>4
  <2> QED BY <2>1, <2>2
<1>5. printed' \in Seq(Nat \ {0})
  <2>1. CASE ~discarding /\ IsFrame(buffer)
    <3>1. PICK n : n \in EventsOf(buffer) /\ buffer = Body(n)
      BY <2>1 DEF IsFrame
    <3>2. PICK i \in DOMAIN buffer : TRUE
      BY <3>1 DEF EventsOf
    <3>3. Len(buffer) >= 1 /\ buffer[1] \in Pieces
      BY <1>2, <3>2
    <3>4. Head(buffer).event \in Nat \ {0}
      BY <1>2, <3>3 DEF Pieces
    <3>5. printed' = printed \/ printed' = Append(printed, Head(buffer).event)
      BY <1>4 DEF Kept, Skipped, Ended
    <3>6. Append(printed, Head(buffer).event) \in Seq(Nat \ {0})
      BY <1>2, <3>4, AppendProperties
    <3> QED BY <1>2, <3>5, <3>6
  <2>2. CASE ~(~discarding /\ IsFrame(buffer))
    BY <1>2, <1>4, <2>2 DEF Kept, Skipped, Ended
  <2> QED BY <2>1, <2>2
<1>6. /\ Len(Stream) = Len(buffer) + Len(buffered)
      /\ \A i \in 1 .. Len(buffer) : Stream[i] = buffer[i]
      /\ \A i \in 1 .. Len(buffered) : Stream[Len(buffer) + i] = buffered[i]
  BY <1>2, JoinFacts DEF Stream
<1>7. /\ Len(buffered') = Len(buffered) - 1
      /\ \A i \in 1 .. Len(buffered') : buffered'[i] = buffered[i + 1]
  BY <1>3 DEF Rest
<1>8. Len(buffer) + 1 <= Len(Stream) /\ Stream[Len(buffer) + 1] = Head(buffered)
  BY <1>2, <1>3, <1>6
<1>9. ASSUME buffer' \in Seq(Pieces)
      PROVE  /\ Len(Stream') = Len(buffer') + Len(buffered')
             /\ \A i \in 1 .. Len(buffer') : Stream'[i] = buffer'[i]
             /\ \A i \in 1 .. Len(buffered') : Stream'[Len(buffer') + i] = buffered'[i]
  BY <1>3, <1>9, JoinFacts DEF Stream
<1>10. CASE Kept
  <2>1. /\ buffer' = Append(buffer, buffered[1]) /\ ~EndsLine(buffered[1])
        /\ ~discarding /\ discarding' = FALSE
    BY <1>3, <1>10 DEF Kept
  <2>2. /\ buffer' \in Seq(Pieces) /\ Len(buffer') = Len(buffer) + 1
        /\ \A i \in 1 .. Len(buffer) : buffer'[i] = buffer[i]
        /\ buffer'[Len(buffer) + 1] = buffered[1]
    BY <1>2, <1>3, <2>1, AppendProperties
  <2>3. UsbTypeOK'
    BY <1>1, <1>3, <1>5, <2>1, <2>2 DEF UsbTypeOK
  <2>4. LineInv'
    <3>1. \A i \in 1 .. Len(buffer') : i \in 1 .. Len(buffer) \/ i = Len(buffer) + 1
      BY <1>2, <2>2
    <3>2. \A i \in 1 .. Len(buffer') : ~EndsLine(buffer'[i])
      BY <2>1, <2>2, <3>1 DEF LineInv
    <3> QED BY <1>1, <2>1, <3>2 DEF LineInv
  <2>5. Len(Stream') = Len(Stream) /\ Len(Stream) \in Nat
    BY <1>2, <1>3, <1>6, <1>7, <1>9, <2>2
  <2>6. ASSUME NEW i \in 1 .. Len(Stream') PROVE Stream'[i] = Stream[0 + i]
    <3>1. CASE i \in 1 .. Len(buffer)
      BY <1>2, <1>6, <1>9, <2>2, <3>1
    <3>2. CASE i = Len(buffer) + 1
      BY <1>2, <1>3, <1>6, <1>9, <2>2, <3>2
    <3>3. CASE i > Len(buffer) + 1
      <4> DEFINE j == i - Len(buffer) - 1
      <4>1. j \in 1 .. Len(buffered') /\ j + 1 \in 1 .. Len(buffered)
        BY <1>2, <1>3, <1>7, <1>9, <2>2, <3>3
      <4>2. i = Len(buffer') + j /\ i = Len(buffer) + (j + 1)
        BY <1>2, <2>2, <3>3
      <4> HIDE DEF j
      <4>3. Stream'[i] = buffered[j + 1]
        BY <1>7, <1>9, <2>2, <4>1, <4>2
      <4> QED BY <1>6, <4>1, <4>2, <4>3
    <3> QED BY <1>2, <3>1, <3>2, <3>3
  <2>7. Rest(Stream, Stream', 0)
    BY <2>5, <2>6 DEF Rest
  <2> QED BY <1>8, <1>10, <2>3, <2>4, <2>7
<1>11. CASE Skipped \/ Ended
  <2>1. buffer' = <<>> /\ discarding' \in BOOLEAN
    BY <1>11 DEF Skipped, Ended
  <2>2. buffer' \in Seq(Pieces) /\ Len(buffer') = 0
    BY <2>1
  <2>3. UsbTypeOK'
    BY <1>1, <1>3, <1>5, <2>1, <2>2 DEF UsbTypeOK
  <2>4. LineInv'
    BY <1>1, <2>1, <2>2 DEF LineInv
  <2>5. Len(Stream') = Len(Stream) - (Len(buffer) + 1) /\ Len(Stream') = Len(buffered')
    BY <1>2, <1>3, <1>6, <1>7, <1>9, <2>2
  <2>6. ASSUME NEW i \in 1 .. Len(Stream')
        PROVE  Stream'[i] = Stream[Len(buffer) + 1 + i]
    <3>1. i \in 1 .. Len(buffered') /\ i + 1 \in 1 .. Len(buffered)
      BY <1>2, <1>3, <1>7, <2>5
    <3>2. Stream'[i] = buffered[i + 1]
      BY <1>7, <1>9, <2>2, <3>1
    <3>3. Stream[Len(buffer) + (i + 1)] = buffered[i + 1]
      BY <1>6, <3>1
    <3>4. Len(buffer) + (i + 1) = Len(buffer) + 1 + i
      BY <1>2
    <3> QED BY <3>2, <3>3, <3>4
  <2>7. Rest(Stream, Stream', Len(buffer) + 1)
    BY <1>2, <1>3, <1>6, <2>5, <2>6 DEF Rest
  <2> QED BY <1>8, <1>11, <2>3, <2>4, <2>7
<1> QED BY <1>4, <1>10, <1>11

-----------------------------------------------------------------------------
(* What the other steps do with the stream.                                 *)

\* t is what is left of s when some pieces have been taken away or damaged.
Thins(s, t) ==
    \E f \in [1 .. Len(t) -> 1 .. Len(s)] :
        /\ \A i, j \in 1 .. Len(t) : i < j => f[i] < f[j]
        /\ \A i \in 1 .. Len(t) : t[i] = s[f[i]] \/ t[i] = Damaged(s[f[i]])

LEMMA RestThins ==
    ASSUME NEW s \in Seq(Pieces), NEW t \in Seq(Pieces), NEW d, Rest(s, t, d)
    PROVE  Thins(s, t)
<1> DEFINE f == [i \in 1 .. Len(t) |-> d + i]
<1>1. /\ d \in Nat /\ d <= Len(s) /\ Len(t) = Len(s) - d /\ Len(s) \in Nat /\ Len(t) \in Nat
      /\ \A i \in 1 .. Len(t) : t[i] = s[d + i]
  BY DEF Rest
<1>2. f \in [1 .. Len(t) -> 1 .. Len(s)]
  BY <1>1
<1>3. \A i, j \in 1 .. Len(t) : i < j => f[i] < f[j]
  BY <1>1
<1>4. \A i \in 1 .. Len(t) : t[i] = s[f[i]]
  BY <1>1
<1> HIDE DEF f
<1> QED BY <1>2, <1>3, <1>4 DEF Thins

LEMMA PrefixThins ==
    ASSUME NEW s \in Seq(Pieces), NEW t \in Seq(Pieces), Len(t) <= Len(s),
           \A i \in 1 .. Len(t) : t[i] = s[i] \/ t[i] = Damaged(s[i])
    PROVE  Thins(s, t)
<1> DEFINE f == [i \in 1 .. Len(t) |-> i]
<1>1. Len(s) \in Nat /\ Len(t) \in Nat
  OBVIOUS
<1>2. f \in [1 .. Len(t) -> 1 .. Len(s)]
  BY <1>1
<1>3. \A i, j \in 1 .. Len(t) : i < j => f[i] < f[j]
  BY <1>1
<1>4. \A i \in 1 .. Len(t) : f[i] = i
  OBVIOUS
<1> HIDE DEF f
<1> QED BY <1>2, <1>3, <1>4 DEF Thins

\* The reader leaves: the line is gone, and what the host has read ahead.
LEMMA LeaveFacts ==
    ASSUME UsbTypeOK, Leave
    PROVE  /\ buffer' = <<>> /\ discarding' = FALSE /\ reading' = FALSE
           /\ buffered' \in Seq(Pieces) /\ Stream' = buffered'
           /\ \E ahead \in 0 .. Len(buffered) :
                /\ Rest(Stream, Stream', Len(buffer) + ahead)
                /\ blamed' = blamed \cup EventsOf(buffer)
                                    \cup EventsOf(SubSeq(buffered, 1, ahead))
<1>1. buffer' = <<>> /\ discarding' = FALSE /\ reading' = FALSE
  BY DEF Leave
<1>2. PICK ahead \in 0 .. Len(buffered) :
        /\ buffered' = SubSeq(buffered, ahead + 1, Len(buffered))
        /\ blamed' = blamed \cup EventsOf(buffer) \cup EventsOf(SubSeq(buffered, 1, ahead))
  BY DEF Leave
<1>3. /\ buffer \in Seq(Pieces) /\ buffered \in Seq(Pieces)
      /\ Len(buffer) \in Nat /\ Len(buffered) \in Nat
  BY DEF UsbTypeOK
<1>4. \A i \in ahead + 1 .. Len(buffered) : buffered[i] \in Pieces
  BY <1>3
<1>5. ahead + 1 \in Int /\ Len(buffered) \in Int /\ ahead \in Nat /\ ahead <= Len(buffered)
  BY <1>3
<1>6. /\ buffered' \in Seq(Pieces)
      /\ Len(buffered') = IF ahead + 1 <= Len(buffered)
                          THEN Len(buffered) - (ahead + 1) + 1 ELSE 0
      /\ \A i \in 1 .. Len(buffered) - (ahead + 1) + 1 :
            buffered'[i] = buffered[ahead + 1 + i - 1]
  BY <1>2, <1>4, <1>5, SubSeqProperties
<1>7. Len(buffered') = Len(buffered) - ahead
  BY <1>3, <1>5, <1>6
<1>8. \A i \in 1 .. Len(buffered') : buffered'[i] = buffered[ahead + i]
  BY <1>3, <1>5, <1>6, <1>7
<1>9. Stream' = buffered'
  BY <1>1, <1>6, ConcatEmptySeq DEF Stream
<1>10. /\ Len(Stream) = Len(buffer) + Len(buffered)
       /\ \A i \in 1 .. Len(buffered) : Stream[Len(buffer) + i] = buffered[i]
  BY <1>3, JoinFacts DEF Stream
<1>11. Rest(Stream, Stream', Len(buffer) + ahead)
  <2>1. /\ Len(buffer) + ahead \in 0 .. Len(Stream)
        /\ Len(Stream') = Len(Stream) - (Len(buffer) + ahead)
    BY <1>3, <1>5, <1>7, <1>9, <1>10
  <2>2. ASSUME NEW i \in 1 .. Len(Stream')
        PROVE  Stream'[i] = Stream[Len(buffer) + ahead + i]
    <3>1. ahead + i \in 1 .. Len(buffered) /\ Len(buffer) + (ahead + i) = Len(buffer) + ahead + i
      BY <1>3, <1>5, <1>7, <1>9
    <3>2. Stream'[i] = buffered[ahead + i]
      BY <1>8, <1>9
    <3> QED BY <1>10, <3>1, <3>2
  <2> QED BY <2>1, <2>2 DEF Rest
<1> QED BY <1>1, <1>2, <1>6, <1>9, <1>11

\* A piece is damaged.
LEMMA DamageFacts ==
    ASSUME UsbTypeOK, NEW i \in DOMAIN buffered, UNCHANGED buffer,
           buffered' = [buffered EXCEPT ![i] = Damaged(@)]
    PROVE  /\ buffered' \in Seq(Pieces) /\ i \in 1 .. Len(buffered)
           /\ Len(Stream') = Len(Stream) /\ Len(buffer) + i \in 1 .. Len(Stream)
           /\ Stream'[Len(buffer) + i] = Damaged(buffered[i])
           /\ \A j \in 1 .. Len(Stream) : j # Len(buffer) + i => Stream'[j] = Stream[j]
<1>1. /\ buffer \in Seq(Pieces) /\ buffered \in Seq(Pieces)
      /\ Len(buffer) \in Nat /\ Len(buffered) \in Nat /\ i \in 1 .. Len(buffered)
  BY DEF UsbTypeOK
<1>2. buffered[i] \in Pieces
  BY <1>1
<1> DEFINE piece == Damaged(buffered[i])
<1>3. piece \in Pieces
  BY <1>2, BodyNat DEF Damaged, Pieces
<1>4. buffered' = [buffered EXCEPT ![i] = piece]
  BY <1>1
<1> HIDE DEF piece
<1>5. /\ buffered' \in Seq(Pieces) /\ Len(buffered') = Len(buffered)
      /\ \A j \in 1 .. Len(buffered) : buffered'[j] = IF j = i THEN piece ELSE buffered[j]
  BY <1>1, <1>3, <1>4, ExceptSeq
<1>6. /\ Len(Stream) = Len(buffer) + Len(buffered)
      /\ \A j \in 1 .. Len(buffer) : Stream[j] = buffer[j]
      /\ \A j \in 1 .. Len(buffered) : Stream[Len(buffer) + j] = buffered[j]
  BY <1>1, JoinFacts DEF Stream
<1>7. /\ Len(Stream') = Len(buffer) + Len(buffered)
      /\ \A j \in 1 .. Len(buffer) : Stream'[j] = buffer[j]
      /\ \A j \in 1 .. Len(buffered) : Stream'[Len(buffer) + j] = buffered'[j]
  BY <1>1, <1>5, JoinFacts DEF Stream
<1>8. \A j \in 1 .. Len(Stream) : j # Len(buffer) + i => Stream'[j] = Stream[j]
  <2>1. ASSUME NEW j \in 1 .. Len(Stream), j # Len(buffer) + i PROVE Stream'[j] = Stream[j]
    <3>1. CASE j \in 1 .. Len(buffer)
      BY <1>6, <1>7, <3>1
    <3>2. CASE j > Len(buffer)
      <4> DEFINE k == j - Len(buffer)
      <4>1. k \in 1 .. Len(buffered) /\ j = Len(buffer) + k /\ k # i
        BY <1>1, <1>6, <2>1, <3>2
      <4> HIDE DEF k
      <4> QED BY <1>5, <1>6, <1>7, <4>1
    <3> QED BY <1>1, <3>1, <3>2
  <2> QED BY <2>1
<1>9. Len(buffer) + i \in 1 .. Len(Stream) /\ Stream'[Len(buffer) + i] = piece
  BY <1>1, <1>5, <1>6, <1>7
<1> QED BY <1>1, <1>5, <1>6, <1>7, <1>8, <1>9 DEF piece

\* The steps that pass no event on.
LEMMA LosingFacts ==
    ASSUME UsbTypeOK, LineInv, Open \/ Plug \/ Close \/ Unplug \/ Damage \/ Reboot
    PROVE  /\ UsbTypeOK' /\ LineInv' /\ UNCHANGED <<sent, printed>>
           /\ UNCHANGED <<usbQueue, item>> \/ (usbQueue' = <<>> /\ item' = 0)
           /\ Stream' \in Seq(Pieces) /\ Thins(Stream, Stream')
<1>0. /\ buffer \in Seq(Pieces) /\ buffered \in Seq(Pieces) /\ Stream \in Seq(Pieces)
      /\ Len(buffer) \in Nat /\ Len(buffered) \in Nat
  BY JoinFacts DEF UsbTypeOK, Stream
<1> USE DEF device, line
<1>1. CASE UNCHANGED <<buffer, buffered, discarding, usbQueue, item, sent, printed, ready>>
           /\ (reading => reading') /\ reading' \in BOOLEAN /\ connected' \in BOOLEAN
  <2>1. UsbTypeOK'
    BY <1>1 DEF UsbTypeOK
  <2>2. LineInv'
    BY <1>1 DEF LineInv
  <2>3. Stream' = Stream
    BY <1>1 DEF Stream
  <2>4. Thins(Stream, Stream')
    BY <1>0, <2>3, PrefixThins
  <2> QED BY <1>0, <1>1, <2>1, <2>2, <2>3, <2>4
<1>2. CASE Leave /\ UNCHANGED <<sent, ready, usbQueue, item, printed>> /\ connected' \in BOOLEAN
  <2>0. buffer' = <<>> /\ discarding' = FALSE /\ reading' = FALSE
    BY <1>2, LeaveFacts
  <2>1. /\ buffered' \in Seq(Pieces) /\ Stream' = buffered'
        /\ \E d : Rest(Stream, Stream', d)
    BY <1>2, LeaveFacts
  <2>2. UsbTypeOK'
    <3>1. /\ sent' \in Nat /\ ready' \in BOOLEAN /\ item' \in Nat
          /\ usbQueue' \in Seq(Nat \ {0}) /\ printed' \in Seq(Nat \ {0})
      BY <1>2 DEF UsbTypeOK
    <3>2. <<>> \in Seq(Pieces)
      OBVIOUS
    <3>3. buffer' \in Seq(Pieces)
      BY <2>0, <3>2
    <3>4. reading' \in BOOLEAN /\ discarding' \in BOOLEAN
      BY <2>0
    <3> QED BY <1>2, <2>1, <3>1, <3>3, <3>4 DEF UsbTypeOK
  <2>3. LineInv'
    BY <2>0 DEF LineInv
  <2>4. Thins(Stream, Stream')
    BY <1>0, <2>1, RestThins
  <2> QED BY <1>2, <2>0, <2>1, <2>2, <2>3, <2>4
<1>3. CASE Damage
  <2>1. PICK i \in DOMAIN buffered : buffered' = [buffered EXCEPT ![i] = Damaged(@)]
    BY <1>3 DEF Damage
  <2>2. /\ UNCHANGED <<sent, ready, usbQueue, item, connected, reading, buffer, discarding,
                       printed>>
    BY <1>3 DEF Damage
  <2>3. /\ buffered' \in Seq(Pieces) /\ i \in 1 .. Len(buffered)
        /\ Len(Stream') = Len(Stream) /\ Len(buffer) + i \in 1 .. Len(Stream)
        /\ Stream'[Len(buffer) + i] = Damaged(buffered[i])
        /\ \A j \in 1 .. Len(Stream) : j # Len(buffer) + i => Stream'[j] = Stream[j]
    BY <2>1, <2>2, DamageFacts
  <2>4. UsbTypeOK'
    BY <2>2, <2>3 DEF UsbTypeOK
  <2>5. LineInv'
    BY <2>2 DEF LineInv
  <2>6. Stream' \in Seq(Pieces)
    BY <1>0, <2>2, <2>3, JoinFacts DEF Stream
  <2>7. Stream[Len(buffer) + i] = buffered[i]
    BY <1>0, <2>3, JoinFacts DEF Stream
  <2>8. \A j \in 1 .. Len(Stream') : Stream'[j] = Stream[j] \/ Stream'[j] = Damaged(Stream[j])
    BY <2>3, <2>7
  <2>9. Thins(Stream, Stream')
    <3>1. Len(Stream') <= Len(Stream)
      BY <1>0, <2>3
    <3> QED BY <1>0, <2>6, <2>8, <3>1, PrefixThins
  <2> QED BY <2>2, <2>4, <2>5, <2>6, <2>9
<1>4. CASE Reboot
  <2>1. /\ UNCHANGED <<sent, connected, reading, buffer, discarding, printed>>
        /\ usbQueue' = <<>> /\ item' = 0 /\ buffered' = <<>> /\ ready' \in BOOLEAN
    BY <1>4 DEF Reboot
  <2>2. UsbTypeOK'
    <3>1. usbQueue' \in Seq(Nat \ {0})
      BY <2>1
    <3>2. buffered' \in Seq(Pieces)
      BY <2>1
    <3> QED BY <2>1, <3>1, <3>2 DEF UsbTypeOK
  <2>3. LineInv'
    BY <2>1 DEF LineInv
  <2>4. Stream' = buffer
    BY <1>0, <2>1, ConcatEmptySeq DEF Stream
  <2>5. /\ Len(Stream) = Len(buffer) + Len(buffered)
        /\ \A i \in 1 .. Len(buffer) : Stream[i] = buffer[i]
    BY <1>0, JoinFacts DEF Stream
  <2>6. Len(buffer) <= Len(Stream)
    BY <1>0, <2>5
  <2>7. Thins(Stream, Stream')
    BY <1>0, <2>4, <2>5, <2>6, PrefixThins
  <2> QED BY <1>0, <2>1, <2>2, <2>3, <2>4, <2>7
<1>5. CASE Open \/ Plug
  <2>1. /\ UNCHANGED <<buffer, buffered, discarding, usbQueue, item, sent, printed, ready>>
        /\ (reading => reading') /\ reading' \in BOOLEAN /\ connected' \in BOOLEAN
    BY <1>5 DEF Open, Plug, UsbTypeOK
  <2> QED BY <1>1, <2>1
<1>6. CASE Close \/ Unplug
  <2>1. /\ UNCHANGED <<sent, ready, usbQueue, item, printed>> /\ connected' \in BOOLEAN
        /\ Leave \/ UNCHANGED <<buffered, reading, buffer, discarding>>
    BY <1>6 DEF Close, Unplug, UsbTypeOK
  <2>2. reading \in BOOLEAN
    BY DEF UsbTypeOK
  <2> QED BY <1>1, <1>2, <2>1, <2>2
<1> QED BY <1>3, <1>4, <1>5, <1>6

\* A frame is written, or the beginning of it.
LEMMA WriteFacts ==
    ASSUME UsbTypeOK, LineInv, Write
    PROVE  /\ UsbTypeOK' /\ LineInv' /\ Stream' \in Seq(Pieces)
           /\ item # 0 /\ item' = 0 /\ UNCHANGED <<sent, usbQueue, printed, buffer, discarding>>
           /\ \E taken \in 0 .. BODY + 1 :
                /\ Len(Stream') = Len(Stream) + taken
                /\ \A i \in 1 .. Len(Stream) : Stream'[i] = Stream[i]
                /\ \A i \in 1 .. taken : Stream'[Len(Stream) + i] = Piece(item, i)
                /\ blamed' = IF taken <= BODY \/ MidLine THEN blamed \cup {item} ELSE blamed
<1>0. /\ buffer \in Seq(Pieces) /\ buffered \in Seq(Pieces) /\ Stream \in Seq(Pieces)
      /\ item \in Nat \ {0}
  BY JoinFacts DEF UsbTypeOK, Stream, Write
<1>1. PICK taken \in IF Room > BODY THEN {BODY + 1} ELSE 0 .. Room :
        /\ buffered' = buffered \o SubSeq(Frame(item), 1, taken)
        /\ blamed' = IF taken <= BODY \/ MidLine THEN blamed \cup {item} ELSE blamed
  BY DEF Write
<1>2. taken \in 0 .. BODY + 1
  <2>1. Room \in Int
    BY <1>0, StreamAssumption DEF Room
  <2> QED BY <1>1, <2>1, BodyNat
<1> DEFINE chunk == SubSeq(Frame(item), 1, taken)
<1>4. buffered' = buffered \o chunk
  BY <1>1
<1>3. /\ chunk \in Seq(Pieces) /\ Len(chunk) = taken
      /\ \A i \in 1 .. taken : chunk[i] = Piece(item, i)
  <2>1. /\ Len(Frame(item)) = BODY + 1
        /\ \A i \in 1 .. BODY + 1 : Frame(item)[i] = Piece(item, i) /\ Piece(item, i) \in Pieces
    BY <1>0, FrameFacts
  <2>2. taken \in Int /\ \A i \in 1 .. taken : Frame(item)[i] \in Pieces
    BY <1>2, <2>1, BodyNat
  <2>3. /\ chunk \in Seq(Pieces)
        /\ Len(chunk) = IF 1 <= taken THEN taken - 1 + 1 ELSE 0
        /\ \A i \in 1 .. taken - 1 + 1 : chunk[i] = Frame(item)[1 + i - 1]
    BY <2>2, SubSeqProperties
  <2> QED BY <1>2, <2>1, <2>3, BodyNat
<1> HIDE DEF chunk
<1>5. buffered' \in Seq(Pieces)
  BY <1>0, <1>3, <1>4
<1>6. item' = 0 /\ UNCHANGED <<sent, ready, usbQueue, connected, reading, buffer, discarding,
                               printed>>
  BY DEF Write, line
<1>7. Stream' = Stream \o chunk
  <2>1. Stream' = buffer \o (buffered \o chunk)
    BY <1>4, <1>6 DEF Stream
  <2>2. (buffer \o buffered) \o chunk = buffer \o (buffered \o chunk)
    <3>1. buffer \in Seq(Pieces) /\ buffered \in Seq(Pieces) /\ chunk \in Seq(Pieces)
      BY <1>0, <1>3
    <3> HIDE DEF Pieces
    <3> QED BY <3>1, ConcatAssociative, SMTT(60)
  <2> QED BY <2>1, <2>2 DEF Stream
<1>8. UsbTypeOK'
  BY <1>5, <1>6 DEF UsbTypeOK
<1>9. LineInv'
  BY <1>6 DEF LineInv
<1>10. /\ Stream' \in Seq(Pieces) /\ Len(Stream') = Len(Stream) + taken
       /\ \A i \in 1 .. Len(Stream) : Stream'[i] = Stream[i]
       /\ \A i \in 1 .. taken : Stream'[Len(Stream) + i] = Piece(item, i)
  BY <1>0, <1>3, <1>7, JoinFacts
<1> QED BY <1>0, <1>1, <1>2, <1>6, <1>8, <1>9, <1>10

\* An event is submitted, or taken from the queue.
LEMMA QueueFacts ==
    ASSUME UsbTypeOK, LineInv, Submit \/ Receive
    PROVE  /\ UsbTypeOK' /\ LineInv' /\ Stream' = Stream
           /\ UNCHANGED <<printed, buffer, buffered, discarding>>
           /\ \/ /\ Submit /\ sent' = sent + 1 /\ item' = item
                 /\ \/ usbQueue' = Append(usbQueue, sent') /\ blamed' = blamed
                    \/ usbQueue' = usbQueue /\ blamed' = blamed \cup {sent'}
              \/ /\ Receive /\ sent' = sent /\ item = 0 /\ usbQueue # <<>>
                 /\ usbQueue' = Tail(usbQueue)
                 /\ \/ item' = Head(usbQueue) /\ blamed' = blamed
                    \/ item' = item /\ blamed' = blamed \cup {Head(usbQueue)}
<1> USE DEF line
<1>1. CASE Submit
  <2>1. /\ sent' = sent + 1 /\ item' = item
        /\ \/ usbQueue' = Append(usbQueue, sent') /\ blamed' = blamed
           \/ usbQueue' = usbQueue /\ blamed' = blamed \cup {sent'}
        /\ UNCHANGED <<ready, buffered, connected, reading, buffer, discarding, printed>>
    BY <1>1 DEF Submit
  <2>2. sent' \in Nat \ {0} /\ usbQueue' \in Seq(Nat \ {0})
    <3>1. sent' \in Nat \ {0} /\ usbQueue \in Seq(Nat \ {0})
      BY <2>1 DEF UsbTypeOK
    <3>2. Append(usbQueue, sent') \in Seq(Nat \ {0})
      BY <3>1, AppendProperties
    <3> QED BY <2>1, <3>1, <3>2
  <2>3. UsbTypeOK'
    BY <2>1, <2>2 DEF UsbTypeOK
  <2> QED BY <1>1, <2>1, <2>3 DEF LineInv, Stream
<1>2. CASE Receive
  <2>1. /\ sent' = sent /\ item = 0 /\ usbQueue # <<>> /\ usbQueue' = Tail(usbQueue)
        /\ \/ item' = Head(usbQueue) /\ blamed' = blamed
           \/ item' = item /\ blamed' = blamed \cup {Head(usbQueue)}
        /\ UNCHANGED <<ready, buffered, connected, reading, buffer, discarding, printed>>
    BY <1>2 DEF Receive
  <2>2. usbQueue' \in Seq(Nat \ {0}) /\ Head(usbQueue) \in Nat \ {0}
    BY <2>1, HeadTailProperties DEF UsbTypeOK
  <2>3. UsbTypeOK'
    BY <2>1, <2>2 DEF UsbTypeOK
  <2> QED BY <1>2, <2>1, <2>3 DEF LineInv, Stream
<1> QED BY <1>1, <1>2

-----------------------------------------------------------------------------
(* The events are in order.                                                 *)

\* q comes after p: of a later event, or further on in the same frame; of a
\* damaged piece nobody can tell.
Ascending(p, q) ==
    /\ p.event <= q.event
    /\ p.event = q.event /\ q.index # 0 => p.index < q.index

Sorted(s) == \A i, j \in 1 .. Len(s) : i < j => Ascending(s[i], s[j])

QueueInv ==
    /\ item <= sent
    /\ \A i \in 1 .. Len(usbQueue) : usbQueue[i] <= sent /\ item < usbQueue[i]
    /\ \A i, j \in 1 .. Len(usbQueue) : i < j => usbQueue[i] < usbQueue[j]

\* What is to come is later than what is under way.
StreamInv ==
    /\ Sorted(Stream)
    /\ \A i \in 1 .. Len(Stream) :
         /\ Stream[i].event <= sent
         /\ item # 0 => Stream[i].event < item
         /\ \A j \in 1 .. Len(usbQueue) : Stream[i].event < usbQueue[j]

OrderInv == UsbTypeOK /\ LineInv /\ QueueInv /\ StreamInv

LEMMA PieceFacts ==
    ASSUME NEW p \in Pieces
    PROVE  /\ p.event \in Nat \ {0} /\ p.index \in Nat /\ p.index <= BODY + 1
           /\ Damaged(p).event = p.event /\ Damaged(p).index = 0
BY BodyNat DEF Pieces, Damaged

LEMMA ThinsFacts ==
    ASSUME NEW s \in Seq(Pieces), NEW t \in Seq(Pieces), Thins(s, t)
    PROVE  /\ Sorted(s) => Sorted(t)
           /\ \A i \in 1 .. Len(t) : \E j \in 1 .. Len(s) :
                /\ t[i].event = s[j].event
                /\ t[i] = s[j] \/ t[i].index = 0
<1>1. PICK f \in [1 .. Len(t) -> 1 .. Len(s)] :
        /\ \A i, j \in 1 .. Len(t) : i < j => f[i] < f[j]
        /\ \A i \in 1 .. Len(t) : t[i] = s[f[i]] \/ t[i] = Damaged(s[f[i]])
  BY DEF Thins
<1>2. ASSUME NEW i \in 1 .. Len(t)
      PROVE  /\ f[i] \in 1 .. Len(s) /\ s[f[i]] \in Pieces /\ t[i] \in Pieces
             /\ t[i].event = s[f[i]].event
             /\ t[i] = s[f[i]] \/ t[i].index = 0
  BY <1>1, PieceFacts
<1>3. ASSUME Sorted(s), NEW i \in 1 .. Len(t), NEW j \in 1 .. Len(t), i < j
      PROVE  Ascending(t[i], t[j])
  <2>1. f[i] < f[j]
    BY <1>1, <1>3
  <2>2. Ascending(s[f[i]], s[f[j]])
    BY <1>2, <1>3, <2>1 DEF Sorted
  <2>4. t[j].index # 0 => t[j].index = s[f[j]].index
    BY <1>2
  <2>5. /\ s[f[i]].index \in Nat /\ s[f[j]].index \in Nat /\ t[i].index \in Nat
        /\ t[j].index \in Nat
    BY <1>2, PieceFacts
  <2>3. t[i].index <= s[f[i]].index
    <3>1. CASE t[i] = s[f[i]]
      BY <2>5, <3>1
    <3>2. CASE t[i].index = 0
      BY <2>5, <3>2
    <3> QED BY <1>2, <3>1, <3>2
  <2> QED BY <1>2, <2>2, <2>3, <2>4, <2>5 DEF Ascending
<1>4. Sorted(s) => Sorted(t)
  BY <1>3 DEF Sorted
<1> QED BY <1>2, <1>4
LEMMA PrefixOrder ==
    ASSUME QueueInv, StreamInv, UsbTypeOK,
           NEW s \in Seq(Pieces), Thins(Stream, s)
    PROVE  /\ Sorted(s)
           /\ \A i \in 1 .. Len(s) :
                /\ s[i].event <= sent
                /\ item # 0 => s[i].event < item
                /\ \A j \in 1 .. Len(usbQueue) : s[i].event < usbQueue[j]
<1>1. Stream \in Seq(Pieces)
  BY JoinFacts DEF UsbTypeOK, Stream
<1>2. /\ Sorted(Stream) => Sorted(s)
      /\ \A i \in 1 .. Len(s) : \E j \in 1 .. Len(Stream) : s[i].event = Stream[j].event
  BY <1>1, ThinsFacts
<1> QED BY <1>2 DEF StreamInv

\* A step that only loses events keeps the order.
LEMMA OrderLosing ==
    ASSUME OrderInv, UsbTypeOK', LineInv', sent' = sent,
           Stream' \in Seq(Pieces), Thins(Stream, Stream'),
           UNCHANGED <<usbQueue, item>> \/ (usbQueue' = <<>> /\ item' = 0)
    PROVE  OrderInv'
<1>1. /\ Sorted(Stream')
      /\ \A i \in 1 .. Len(Stream') :
            /\ Stream'[i].event <= sent
            /\ item # 0 => Stream'[i].event < item
            /\ \A j \in 1 .. Len(usbQueue) : Stream'[i].event < usbQueue[j]
  BY PrefixOrder DEF OrderInv
<1>2. CASE UNCHANGED <<usbQueue, item>>
  <2>1. QueueInv'
    BY <1>2 DEF OrderInv, QueueInv
  <2>2. StreamInv'
    BY <1>1, <1>2 DEF StreamInv
  <2> QED BY <2>1, <2>2 DEF OrderInv
<1>3. CASE usbQueue' = <<>> /\ item' = 0
  <2>1. Len(usbQueue') = 0 /\ sent \in Nat
    BY <1>3 DEF OrderInv, UsbTypeOK
  <2>2. QueueInv'
    BY <1>3, <2>1 DEF QueueInv
  <2>3. StreamInv'
    BY <1>1, <1>3, <2>1 DEF StreamInv
  <2> QED BY <2>2, <2>3 DEF OrderInv
<1> QED BY <1>2, <1>3

LEMMA OrderWrite ==
    ASSUME OrderInv, Write
    PROVE  OrderInv'
<1>1. UsbTypeOK /\ LineInv /\ QueueInv /\ StreamInv
  BY DEF OrderInv
<1>2. /\ UsbTypeOK' /\ LineInv' /\ Stream' \in Seq(Pieces)
      /\ item # 0 /\ item' = 0 /\ sent' = sent /\ usbQueue' = usbQueue
  BY <1>1, WriteFacts
<1>3. PICK taken \in 0 .. BODY + 1 :
        /\ Len(Stream') = Len(Stream) + taken
        /\ \A i \in 1 .. Len(Stream) : Stream'[i] = Stream[i]
        /\ \A i \in 1 .. taken : Stream'[Len(Stream) + i] = Piece(item, i)
  BY <1>1, WriteFacts
<1>4. /\ Len(Stream) \in Nat /\ Stream \in Seq(Pieces) /\ item \in Nat /\ sent \in Nat
      /\ usbQueue \in Seq(Nat \ {0})
  BY <1>1, JoinFacts DEF UsbTypeOK, Stream
<1>5. \A i \in 1 .. Len(Stream) : Stream[i].event \in Nat /\ Stream[i].index \in Nat
  BY <1>4, PieceFacts
<1>6. ASSUME NEW i \in 1 .. Len(Stream')
      PROVE  \/ i \in 1 .. Len(Stream) /\ Stream'[i] = Stream[i] /\ Stream[i].event < item
             \/ /\ i > Len(Stream) /\ Stream'[i].event = item
                /\ Stream'[i].index = i - Len(Stream)
  <2>1. CASE i <= Len(Stream)
    BY <1>1, <1>2, <1>3, <1>4, <2>1 DEF StreamInv
  <2>2. CASE i > Len(Stream)
    <3>1. i - Len(Stream) \in 1 .. taken /\ i = Len(Stream) + (i - Len(Stream))
      BY <1>3, <1>4, <2>2
    <3>2. Stream'[i] = Piece(item, i - Len(Stream))
      BY <1>3, <3>1
    <3> QED BY <2>2, <3>2 DEF Piece
  <2> QED BY <1>4, <2>1, <2>2
<1>7. QueueInv'
  BY <1>1, <1>2, <1>4 DEF QueueInv
<1>8. ASSUME NEW i \in 1 .. Len(Stream'), NEW j \in 1 .. Len(Stream'), i < j
      PROVE  Ascending(Stream'[i], Stream'[j])
  <2>1. CASE j \in 1 .. Len(Stream)
    BY <1>1, <1>4, <1>6, <1>8, <2>1 DEF StreamInv, Sorted
  <2>2. CASE i \in 1 .. Len(Stream) /\ j > Len(Stream)
    <3>0. ~(i > Len(Stream)) /\ ~(j \in 1 .. Len(Stream))
      BY <1>4, <2>2
    <3>1. Stream'[i].event < item /\ Stream'[i].event \in Nat
      BY <1>5, <1>6, <3>0
    <3>2. Stream'[j].event = item
      BY <1>6, <3>0
    <3> QED BY <1>4, <3>1, <3>2 DEF Ascending
  <2>3. CASE i > Len(Stream) /\ j > Len(Stream)
    <3>1. /\ Stream'[i].event = item /\ Stream'[j].event = item
          /\ Stream'[i].index = i - Len(Stream) /\ Stream'[j].index = j - Len(Stream)
      BY <1>4, <1>6, <2>3
    <3> QED BY <1>4, <1>8, <3>1 DEF Ascending
  <2> QED BY <1>4, <1>8, <2>1, <2>2, <2>3
<1>9. ASSUME NEW i \in 1 .. Len(Stream')
      PROVE  /\ Stream'[i].event <= sent
             /\ \A j \in 1 .. Len(usbQueue) : Stream'[i].event < usbQueue[j]
  <2>1. CASE i \in 1 .. Len(Stream)
    <3>1. Stream'[i] = Stream[i]
      BY <1>3, <2>1
    <3> QED BY <1>1, <2>1, <3>1 DEF StreamInv
  <2>2. CASE ~(i \in 1 .. Len(Stream))
    <3>1. Stream'[i].event = item
      BY <1>6, <2>2
    <3> QED BY <1>1, <3>1 DEF QueueInv
  <2> QED BY <2>1, <2>2
<1>10. StreamInv'
  BY <1>2, <1>8, <1>9 DEF StreamInv, Sorted
<1> QED BY <1>2, <1>7, <1>10 DEF OrderInv

LEMMA OrderQueue ==
    ASSUME OrderInv, Submit \/ Receive
    PROVE  OrderInv'
<1>1. UsbTypeOK /\ LineInv /\ QueueInv /\ StreamInv
  BY DEF OrderInv
<1>2. UsbTypeOK' /\ LineInv' /\ Stream' = Stream
  BY <1>1, QueueFacts
<1>3. /\ item \in Nat /\ sent \in Nat /\ usbQueue \in Seq(Nat \ {0}) /\ Len(usbQueue) \in Nat
      /\ \A i \in 1 .. Len(usbQueue) : usbQueue[i] \in Nat \ {0}
      /\ Stream \in Seq(Pieces)
  BY <1>1, JoinFacts DEF UsbTypeOK, Stream
<1>4. \A i \in 1 .. Len(Stream) : Stream[i].event \in Nat /\ Stream[i].index \in Nat
  BY <1>3, PieceFacts
<1>5. /\ item <= sent
      /\ \A i \in 1 .. Len(usbQueue) : usbQueue[i] <= sent /\ item < usbQueue[i]
      /\ \A i, j \in 1 .. Len(usbQueue) : i < j => usbQueue[i] < usbQueue[j]
  BY <1>1 DEF QueueInv
<1>6. /\ Sorted(Stream)
      /\ \A i \in 1 .. Len(Stream) :
            /\ Stream[i].event <= sent
            /\ item # 0 => Stream[i].event < item
            /\ \A j \in 1 .. Len(usbQueue) : Stream[i].event < usbQueue[j]
  BY <1>1 DEF StreamInv
<1>7. CASE Submit
  <2>1. /\ sent' = sent + 1 /\ item' = item
        /\ usbQueue' = Append(usbQueue, sent') \/ usbQueue' = usbQueue
    BY <1>7 DEF Submit
  <2>2. CASE usbQueue' = usbQueue
    <3>1. QueueInv'
      BY <1>3, <1>5, <2>1, <2>2 DEF QueueInv
    <3>2. StreamInv'
      BY <1>2, <1>3, <1>4, <1>6, <2>1, <2>2 DEF StreamInv
    <3> QED BY <1>2, <3>1, <3>2 DEF OrderInv
  <2>3. CASE usbQueue' = Append(usbQueue, sent')
    <3>1. sent' \in Nat \ {0}
      BY <1>3, <2>1
    <3>2. /\ Len(usbQueue') = Len(usbQueue) + 1
          /\ \A i \in 1 .. Len(usbQueue) : usbQueue'[i] = usbQueue[i]
          /\ usbQueue'[Len(usbQueue) + 1] = sent'
      BY <1>3, <2>3, <3>1, AppendProperties
    <3>3. \A i \in 1 .. Len(usbQueue') :
            \/ i \in 1 .. Len(usbQueue) /\ usbQueue'[i] = usbQueue[i]
            \/ i = Len(usbQueue) + 1 /\ usbQueue'[i] = sent + 1
      BY <1>3, <2>1, <3>2
    <3>4. \A i \in 1 .. Len(usbQueue') : usbQueue'[i] <= sent' /\ item < usbQueue'[i]
      BY <1>3, <1>5, <2>1, <3>3
    <3>5. ASSUME NEW i \in 1 .. Len(usbQueue'), NEW j \in 1 .. Len(usbQueue'), i < j
          PROVE  usbQueue'[i] < usbQueue'[j]
      BY <1>3, <1>5, <3>2, <3>3, <3>5
    <3>6. QueueInv'
      BY <1>3, <1>5, <2>1, <3>4, <3>5 DEF QueueInv
    <3>7. ASSUME NEW i \in 1 .. Len(Stream), NEW j \in 1 .. Len(usbQueue')
          PROVE  Stream[i].event < usbQueue'[j]
      <4>1. /\ Stream[i].event \in Nat /\ Stream[i].event <= sent
            /\ \A k \in 1 .. Len(usbQueue) : Stream[i].event < usbQueue[k]
        BY <1>4, <1>6
      <4>2. sent \in Nat
        BY <1>3
      <4>3. CASE j \in 1 .. Len(usbQueue) /\ usbQueue'[j] = usbQueue[j]
        BY <4>1, <4>3
      <4>4. CASE usbQueue'[j] = sent + 1
        BY <4>1, <4>2, <4>4
      <4> QED BY <3>3, <4>3, <4>4
    <3>8. \A i \in 1 .. Len(Stream) : Stream[i].event <= sent'
      BY <1>3, <1>4, <1>6, <2>1
    <3>9. StreamInv'
      BY <1>2, <1>6, <2>1, <3>7, <3>8 DEF StreamInv
    <3> QED BY <1>2, <3>6, <3>9 DEF OrderInv
  <2> QED BY <2>1, <2>2, <2>3
<1>8. CASE Receive
  <2>1. /\ sent' = sent /\ item = 0 /\ usbQueue # <<>> /\ usbQueue' = Tail(usbQueue)
        /\ item' = Head(usbQueue) \/ item' = 0
    BY <1>8 DEF Receive
  <2>2. /\ Head(usbQueue) = usbQueue[1] /\ usbQueue[1] \in Nat \ {0} /\ Len(usbQueue) \in Nat \ {0}
        /\ Len(usbQueue') = Len(usbQueue) - 1
        /\ \A i \in 1 .. Len(usbQueue') : usbQueue'[i] = usbQueue[1 + i]
    BY <1>3, <2>1, TailRest DEF Rest
  <2>3. \A i \in 1 .. Len(usbQueue') :
          1 + i \in 1 .. Len(usbQueue) /\ usbQueue'[i] = usbQueue[1 + i]
    BY <2>2
  <2>4. item' = usbQueue[1] \/ item' = 0
    BY <2>1, <2>2
  <2>5. 1 \in 1 .. Len(usbQueue)
    BY <2>2
  <2>6. /\ \A i \in 1 .. Len(usbQueue') : usbQueue'[i] <= sent /\ usbQueue[1] < usbQueue'[i]
                                           /\ 0 < usbQueue'[i]
        /\ \A i, j \in 1 .. Len(usbQueue') : i < j => usbQueue'[i] < usbQueue'[j]
    <3>1. \A i \in 1 .. Len(usbQueue') : usbQueue'[i] <= sent /\ 0 < usbQueue'[i]
      BY <1>3, <1>5, <2>3
    <3>2. ASSUME NEW i \in 1 .. Len(usbQueue') PROVE usbQueue[1] < usbQueue'[i]
      BY <1>5, <2>3, <2>5
    <3>3. ASSUME NEW i \in 1 .. Len(usbQueue'), NEW j \in 1 .. Len(usbQueue'), i < j
          PROVE  usbQueue'[i] < usbQueue'[j]
      BY <1>5, <2>3, <3>3
    <3> QED BY <3>1, <3>2, <3>3
  <2>7. QueueInv'
    <3>1. item' <= sent
      BY <1>3, <1>5, <2>4, <2>5
    <3>2. \A i \in 1 .. Len(usbQueue') : item' < usbQueue'[i]
      BY <2>4, <2>6
    <3> QED BY <2>1, <2>6, <3>1, <3>2 DEF QueueInv
  <2>8. \A i \in 1 .. Len(Stream) :
            /\ Stream[i].event < usbQueue[1]
            /\ \A j \in 1 .. Len(usbQueue') : Stream[i].event < usbQueue'[j]
    BY <1>6, <2>3, <2>5
  <2>9. StreamInv'
    BY <1>2, <1>6, <2>1, <2>4, <2>8 DEF StreamInv
  <2> QED BY <1>2, <2>7, <2>9 DEF OrderInv
<1> QED BY <1>7, <1>8

LEMMA OrderRead ==
    ASSUME OrderInv, Read
    PROVE  OrderInv' /\ Thins(Stream, Stream')
<1>1. UsbTypeOK /\ LineInv
  BY DEF OrderInv
<1>2. UsbTypeOK' /\ LineInv' /\ \E d : Rest(Stream, Stream', d)
  BY <1>1, ReadFacts
<1>3. Stream \in Seq(Pieces)
  BY <1>1, JoinFacts DEF UsbTypeOK, Stream
<1>4. Stream' \in Seq(Pieces)
  BY <1>2, JoinFacts DEF UsbTypeOK, Stream
<1>5. Thins(Stream, Stream')
  BY <1>2, <1>3, <1>4, RestThins
<1>6. sent' = sent /\ UNCHANGED <<usbQueue, item>>
  BY DEF Read, device
<1> QED BY <1>2, <1>4, <1>5, <1>6, OrderLosing

LEMMA OrderInit == Init => OrderInv
<1> SUFFICES ASSUME Init PROVE OrderInv
  OBVIOUS
<1>1. /\ sent = 0 /\ usbQueue = <<>> /\ item = 0 /\ buffered = <<>> /\ buffer = <<>>
      /\ printed = <<>>
  BY DEF Init
<1>2. ready \in BOOLEAN /\ connected \in BOOLEAN /\ reading = FALSE /\ discarding = FALSE
  BY DEF Init
<1>3. <<>> \in Seq(Pieces) /\ <<>> \in Seq(Nat \ {0})
  OBVIOUS
<1>4. UsbTypeOK
  BY <1>1, <1>2, <1>3 DEF UsbTypeOK
<1>5. Len(<<>>) = 0
  OBVIOUS
<1>6. LineInv
  BY <1>1, <1>2, <1>5 DEF LineInv
<1>7. QueueInv
  BY <1>1, <1>5 DEF QueueInv
<1>8. Len(Stream) = 0
  BY <1>1, <1>3, JoinFacts DEF Stream
<1>9. StreamInv
  BY <1>8 DEF StreamInv, Sorted
<1> QED BY <1>4, <1>6, <1>7, <1>9 DEF OrderInv

LEMMA OrderStep == OrderInv /\ [Next]_vars => OrderInv'
<1> SUFFICES ASSUME OrderInv, [Next]_vars PROVE OrderInv'
  OBVIOUS
<1>1. CASE Submit \/ Receive
  BY <1>1, OrderQueue
<1>2. CASE Write
  BY <1>2, OrderWrite
<1>3. CASE Read
  BY <1>3, OrderRead
<1>4. CASE Open \/ Plug \/ Close \/ Unplug \/ Damage \/ Reboot
  BY <1>4, LosingFacts, OrderLosing DEF OrderInv
<1>5. CASE UNCHANGED vars
  BY <1>5 DEF vars, device, line, OrderInv, UsbTypeOK, LineInv, QueueInv, StreamInv, Stream
<1> QED BY <1>1, <1>2, <1>3, <1>4, <1>5 DEF Next

\* The events on their way are in the order of their submission (cr11_usb_transport.c).
THEOREM OrderTheorem == Spec => []OrderInv
<1> QED BY OrderInit, OrderStep, PTL DEF Spec

-----------------------------------------------------------------------------
(* The refinement.                                                          *)

HasBody(n, s) == \A i \in 1 .. BODY : \E j \in 1 .. Len(s) : s[j] = Piece(n, i)

Queued(n, q) == \E i \in 1 .. Len(q) : q[i] = n

LEMMA QueuedFacts ==
    ASSUME NEW S, NEW q \in Seq(S), NEW n
    PROVE  n \in ToSet(q) <=> Queued(n, q)
<1>1. DOMAIN q = 1 .. Len(q)
  BY LenProperties
<1> QED BY <1>1 DEF ToSet, Queued

LEMMA HasBodyFacts ==
    ASSUME NEW b \in Seq(Pieces), NEW c \in Seq(Pieces), NEW n \in Nat \ {0}
    PROVE  ToSet(Body(n)) \subseteq ToSet(b) \cup ToSet(c) <=> HasBody(n, b \o c)
<1> DEFINE s == b \o c
<1>1. s \in Seq(Pieces) /\ ToSet(b) \cup ToSet(c) = ToSet(s)
  BY JoinFacts
<1> HIDE DEF s
<1>2. \A x : x \in ToSet(s) <=> \E j \in 1 .. Len(s) : s[j] = x
  BY <1>1, QueuedFacts DEF Queued
<1>3. \A x : x \in ToSet(Body(n)) <=> \E i \in 1 .. BODY : Piece(n, i) = x
  <2>1. /\ Body(n) \in Seq(Pieces) /\ Len(Body(n)) = BODY
        /\ \A i \in 1 .. BODY : Body(n)[i] = Piece(n, i)
    BY FrameFacts
  <2>2. \A x : x \in ToSet(Body(n)) <=> \E i \in 1 .. Len(Body(n)) : Body(n)[i] = x
    BY <2>1, QueuedFacts DEF Queued
  <2> QED BY <2>1, <2>2
<1>4. ToSet(Body(n)) \subseteq ToSet(s) <=> HasBody(n, s)
  BY <1>2, <1>3 DEF HasBody
<1> QED BY <1>1, <1>4 DEF s

LEMMA ThinsBody ==
    ASSUME NEW s \in Seq(Pieces), NEW t \in Seq(Pieces), Thins(s, t), NEW n, HasBody(n, t)
    PROVE  HasBody(n, s)
<1>1. ASSUME NEW i \in 1 .. BODY PROVE \E j \in 1 .. Len(s) : s[j] = Piece(n, i)
  <2>1. PICK j \in 1 .. Len(t) : t[j] = Piece(n, i)
    BY <1>1 DEF HasBody
  <2>2. t[j].index # 0
    BY <2>1, BodyNat DEF Piece
  <2> QED BY <2>1, <2>2, ThinsFacts
<1> QED BY <1>1 DEF HasBody

Transit == {n \in 1 .. sent : OnTheWay(n)}
Delivered == IF printed = <<>> THEN 0 ELSE Last(printed)

LEMMA TransitFacts ==
    ASSUME UsbTypeOK
    PROVE  \A n : n \in Transit <=>
             /\ n \in 1 .. sent
             /\ Queued(n, usbQueue) \/ n = item \/ HasBody(n, Stream)
<1>1. ASSUME NEW n \in 1 .. sent
      PROVE  OnTheWay(n) <=> Queued(n, usbQueue) \/ n = item \/ HasBody(n, Stream)
  <2>1. n \in Nat \ {0} /\ buffer \in Seq(Pieces) /\ buffered \in Seq(Pieces)
    BY DEF UsbTypeOK
  <2>2. ToSet(Body(n)) \subseteq ToSet(buffer) \cup ToSet(buffered) <=> HasBody(n, Stream)
    BY <2>1, HasBodyFacts DEF Stream
  <2>3. n \in ToSet(usbQueue) <=> Queued(n, usbQueue)
    BY QueuedFacts DEF UsbTypeOK
  <2> QED BY <2>2, <2>3 DEF OnTheWay
<1> QED BY <1>1 DEF Transit

LEMMA TransitFactsNext ==
    ASSUME UsbTypeOK'
    PROVE  \A n : n \in Transit' <=>
             /\ n \in 1 .. sent'
             /\ Queued(n, usbQueue') \/ n = item' \/ HasBody(n, Stream')
<1>1. ASSUME NEW n \in 1 .. sent'
      PROVE  OnTheWay(n)' <=> Queued(n, usbQueue') \/ n = item' \/ HasBody(n, Stream')
  <2>1. n \in Nat \ {0} /\ buffer' \in Seq(Pieces) /\ buffered' \in Seq(Pieces)
    BY DEF UsbTypeOK
  <2>2. ToSet(Body(n)) \subseteq ToSet(buffer') \cup ToSet(buffered') <=> HasBody(n, Stream')
    BY <2>1, HasBodyFacts DEF Stream
  <2>3. n \in ToSet(usbQueue') <=> Queued(n, usbQueue')
    BY QueuedFacts DEF UsbTypeOK
  <2> QED BY <2>2, <2>3 DEF OnTheWay
<1> QED BY <1>1 DEF Transit

LEMMA PromiseLose ==
    ASSUME OrderInv, UsbTypeOK', sent' = sent, printed' = printed,
           \A n \in 1 .. sent : n = item' \/ Queued(n, usbQueue') \/ HasBody(n, Stream') =>
              n = item \/ Queued(n, usbQueue) \/ HasBody(n, Stream)
    PROVE  Promise!Lose
<1>1. Transit' \subseteq Transit
  BY TransitFacts, TransitFactsNext DEF OrderInv
<1> QED BY <1>1 DEF Promise!Lose, Transit

LEMMA PromiseLosing ==
    ASSUME OrderInv, UsbTypeOK', sent' = sent, printed' = printed,
           Stream' \in Seq(Pieces), Thins(Stream, Stream'),
           UNCHANGED <<usbQueue, item>> \/ (usbQueue' = <<>> /\ item' = 0)
    PROVE  Promise!Lose
<1>1. Stream \in Seq(Pieces) /\ sent \in Nat
  BY JoinFacts DEF OrderInv, UsbTypeOK, Stream
<1>2. \A n : HasBody(n, Stream') => HasBody(n, Stream)
  BY <1>1, ThinsBody
<1>3. \A n \in 1 .. sent : n = item' \/ Queued(n, usbQueue') => n = item \/ Queued(n, usbQueue)
  <2>1. CASE UNCHANGED <<usbQueue, item>>
    BY <2>1
  <2>2. CASE usbQueue' = <<>> /\ item' = 0
    BY <1>1, <2>2 DEF Queued
  <2> QED BY <2>1, <2>2
<1> QED BY <1>2, <1>3, PromiseLose

LEMMA PromiseQueue ==
    ASSUME OrderInv, Submit \/ Receive
    PROVE  Promise!Next
<1>0. UsbTypeOK /\ LineInv /\ QueueInv /\ StreamInv
  BY DEF OrderInv
<1>1. UsbTypeOK' /\ LineInv' /\ Stream' = Stream /\ printed' = printed
  BY <1>0, QueueFacts
<1>2. usbQueue \in Seq(Nat \ {0}) /\ Len(usbQueue) \in Nat /\ sent \in Nat
  BY <1>0 DEF UsbTypeOK
<1>3. CASE Submit
  <2>1. /\ sent' = sent + 1 /\ item' = item
        /\ usbQueue' = Append(usbQueue, sent') \/ usbQueue' = usbQueue
    BY <1>3 DEF Submit
  <2>2. \A n : n \in 1 .. sent' <=> n \in 1 .. sent \/ n = sent'
    BY <1>2, <2>1
  <2>3. ~HasBody(sent', Stream) /\ sent' # item /\ ~Queued(sent', usbQueue)
    <3>1. ASSUME HasBody(sent', Stream) PROVE FALSE
      <4>1. PICK j \in 1 .. Len(Stream) : Stream[j] = Piece(sent', 1)
        BY <3>1, BodyNat DEF HasBody
      <4>2. Stream[j].event = sent' /\ Stream[j].event <= sent
        BY <1>0, <4>1 DEF StreamInv, Piece
      <4> QED BY <1>2, <2>1, <4>2
    <3>2. sent' # item
      BY <1>0, <1>2, <2>1 DEF QueueInv
    <3>3. ~Queued(sent', usbQueue)
      BY <1>0, <1>2, <2>1 DEF QueueInv, Queued
    <3> QED BY <3>1, <3>2, <3>3
  <2>4. CASE usbQueue' = usbQueue
    <3>1. Transit' = Transit
      <4>1. \A n : n \in Transit' <=> n \in Transit
        BY <1>0, <1>1, <2>1, <2>2, <2>3, <2>4, TransitFacts, TransitFactsNext
      <4> QED BY <4>1 DEF Transit
    <3> QED BY <1>1, <2>1, <3>1 DEF Promise!Next, Promise!Submit, Transit
  <2>5. CASE usbQueue' = Append(usbQueue, sent')
    <3>1. sent' \in Nat \ {0}
      BY <1>2, <2>1
    <3>2. /\ Len(usbQueue') = Len(usbQueue) + 1
          /\ \A i \in 1 .. Len(usbQueue) : usbQueue'[i] = usbQueue[i]
          /\ usbQueue'[Len(usbQueue) + 1] = sent'
      BY <1>2, <2>5, <3>1, AppendProperties
    <3>3. ASSUME NEW n PROVE Queued(n, usbQueue') <=> Queued(n, usbQueue) \/ n = sent'
      <4>1. \A i : i \in 1 .. Len(usbQueue') <=>
                   i \in 1 .. Len(usbQueue) \/ i = Len(usbQueue) + 1
        BY <1>2, <3>2
      <4> QED BY <3>2, <4>1 DEF Queued
    <3>4. Transit' = Transit \cup {sent'}
      <4>1. \A n : n \in Transit' <=> n \in Transit \/ n = sent'
        BY <1>0, <1>1, <2>1, <2>2, <3>3, TransitFacts, TransitFactsNext
      <4> QED BY <4>1 DEF Transit
    <3> QED BY <1>1, <2>1, <3>4 DEF Promise!Next, Promise!Submit, Transit
  <2> QED BY <2>1, <2>4, <2>5
<1>4. CASE Receive
  <2>1. /\ sent' = sent /\ item = 0 /\ usbQueue # <<>> /\ usbQueue' = Tail(usbQueue)
        /\ item' = Head(usbQueue) \/ item' = 0
    BY <1>4 DEF Receive
  <2>2. /\ Head(usbQueue) = usbQueue[1] /\ Len(usbQueue) \in Nat \ {0}
        /\ Len(usbQueue') = Len(usbQueue) - 1
        /\ \A i \in 1 .. Len(usbQueue') : usbQueue'[i] = usbQueue[1 + i]
    BY <1>2, <2>1, TailRest DEF Rest
  <2>3. \A n : Queued(n, usbQueue') => Queued(n, usbQueue)
    <3>1. \A i \in 1 .. Len(usbQueue') : 1 + i \in 1 .. Len(usbQueue)
      BY <2>2
    <3> QED BY <2>2, <3>1 DEF Queued
  <2>4. \A n \in 1 .. sent : n = item' => n = item \/ Queued(n, usbQueue)
    <3>1. Queued(Head(usbQueue), usbQueue)
      BY <2>2 DEF Queued
    <3> QED BY <1>2, <2>1, <3>1
  <2> QED BY <1>1, <2>1, <2>3, <2>4, PromiseLose DEF Promise!Next
<1> QED BY <1>3, <1>4

LEMMA PromiseWrite ==
    ASSUME OrderInv, Write
    PROVE  Promise!Lose
<1>1. UsbTypeOK /\ LineInv
  BY DEF OrderInv
<1>2. /\ UsbTypeOK' /\ Stream' \in Seq(Pieces) /\ item' = 0
      /\ sent' = sent /\ usbQueue' = usbQueue /\ printed' = printed
  BY <1>1, WriteFacts
<1>3. PICK taken \in 0 .. BODY + 1 :
        /\ Len(Stream') = Len(Stream) + taken
        /\ \A i \in 1 .. Len(Stream) : Stream'[i] = Stream[i]
        /\ \A i \in 1 .. taken : Stream'[Len(Stream) + i] = Piece(item, i)
  BY <1>1, WriteFacts
<1>4. Len(Stream) \in Nat /\ sent \in Nat
  BY <1>1, JoinFacts DEF UsbTypeOK, Stream
<1>5. ASSUME NEW n \in 1 .. sent, HasBody(n, Stream'), n # item
      PROVE  HasBody(n, Stream)
  <2>1. ASSUME NEW i \in 1 .. BODY PROVE \E j \in 1 .. Len(Stream) : Stream[j] = Piece(n, i)
    <3>1. PICK j \in 1 .. Len(Stream') : Stream'[j] = Piece(n, i)
      BY <1>5 DEF HasBody
    <3>2. CASE j <= Len(Stream)
      BY <1>3, <1>4, <3>1, <3>2
    <3>3. CASE j > Len(Stream)
      <4> DEFINE k == j - Len(Stream)
      <4>1. k \in 1 .. taken /\ j = Len(Stream) + k
        BY <1>3, <1>4, <3>3
      <4> HIDE DEF k
      <4>2. Stream'[j] = Piece(item, k)
        BY <1>3, <4>1
      <4> QED BY <1>5, <3>1, <4>2 DEF Piece
    <3> QED BY <1>4, <3>2, <3>3
  <2> QED BY <2>1 DEF HasBody
<1>6. \A n \in 1 .. sent : n # item'
  BY <1>2, <1>4
<1> QED BY <1>2, <1>5, <1>6, PromiseLose

\* The reader prints the body of an event, which is all that its line holds.
LEMMA Printing ==
    ASSUME UsbTypeOK, LineInv, Ended, ~discarding, IsFrame(buffer)
    PROVE  \E n \in Nat \ {0} :
             /\ buffer = Body(n) /\ Len(buffer) = BODY
             /\ printed' = Append(printed, n)
             /\ \A i \in 1 .. BODY : buffer[i] = Piece(n, i)
<1>1. PICK n : n \in EventsOf(buffer) /\ buffer = Body(n)
  BY DEF IsFrame
<1>2. buffer \in Seq(Pieces)
  BY DEF UsbTypeOK
<1>3. n \in Nat \ {0}
  <2>1. PICK i \in DOMAIN buffer : n = buffer[i].event
    BY <1>1 DEF EventsOf
  <2>2. buffer[i] \in Pieces
    BY <1>2
  <2> QED BY <2>1, <2>2, PieceFacts
<1>4. Len(buffer) = BODY /\ \A i \in 1 .. BODY : buffer[i] = Piece(n, i)
  BY <1>1, <1>3, FrameFacts
<1>5. Head(buffer).event = n
  <2>1. buffer # <<>> /\ Head(buffer) = buffer[1]
    BY <1>2, <1>4, BodyNat
  <2> QED BY <1>4, <2>1, BodyNat DEF Piece
<1>6. printed' = Append(printed, n)
  BY <1>5 DEF Ended
<1> QED BY <1>1, <1>3, <1>4, <1>6

LEMMA PromiseDeliver ==
    ASSUME OrderInv, Read, Ended, Rest(Stream, Stream', Len(buffer) + 1),
           NEW n \in Nat \ {0}, Len(buffer) = BODY, printed' = Append(printed, n),
           \A i \in 1 .. BODY : buffer[i] = Piece(n, i)
    PROVE  Promise!Deliver
<1>1. UsbTypeOK /\ LineInv /\ QueueInv /\ StreamInv
  BY DEF OrderInv
<1>2. /\ UsbTypeOK' /\ LineInv' /\ BODY + 1 <= Len(Stream)
      /\ Stream[BODY + 1] = Head(buffered) /\ EndsLine(Head(buffered))
  BY <1>1, ReadFacts DEF Ended
<1>3. OrderInv' /\ Thins(Stream, Stream')
  BY OrderRead
<1>4. /\ sent' = sent /\ usbQueue' = usbQueue /\ item' = item
  BY DEF Read, device
<1>5. /\ buffer \in Seq(Pieces) /\ buffered \in Seq(Pieces) /\ Stream \in Seq(Pieces)
      /\ Stream' \in Seq(Pieces) /\ Len(Stream) \in Nat /\ Len(Stream') \in Nat
      /\ sent \in Nat /\ printed \in Seq(Nat \ {0})
  BY <1>1, <1>2, JoinFacts DEF UsbTypeOK, Stream
<1>6. \A i \in 1 .. BODY : Stream[i] = Piece(n, i) /\ i \in 1 .. Len(Stream)
  <2>1. \A i \in 1 .. BODY : Stream[i] = buffer[i]
    BY <1>5, JoinFacts DEF Stream
  <2> QED BY <1>2, <1>5, <2>1, BodyNat
<1>7. Stream[1] = Piece(n, 1) /\ Stream[1].event = n /\ Stream[1].index = 1 /\ 1 \in 1 .. Len(Stream)
  BY <1>6, BodyNat DEF Piece
<1>8. n \in Transit
  <2>1. n \in 1 .. sent
    BY <1>1, <1>5, <1>7 DEF StreamInv
  <2>2. HasBody(n, Stream)
    BY <1>6 DEF HasBody
  <2> QED BY <1>1, <2>1, <2>2, TransitFacts
<1>9. /\ Len(Stream') = Len(Stream) - (BODY + 1)
      /\ \A i \in 1 .. Len(Stream') : Stream'[i] = Stream[BODY + 1 + i]
  BY DEF Rest
<1>10. ASSUME NEW m \in Transit' PROVE m \in Transit /\ m > n
  <2>1. m \in 1 .. sent /\ (Queued(m, usbQueue) \/ m = item \/ HasBody(m, Stream'))
    BY <1>2, <1>4, <1>10, TransitFactsNext
  <2>2. HasBody(m, Stream') => HasBody(m, Stream)
    BY <1>3, <1>5, ThinsBody
  <2>3. m \in Transit
    BY <1>1, <2>1, <2>2, TransitFacts
  <2>0. m \in Nat \ {0} /\ (n < m => m > n)
    BY <1>5, <2>1
  <2>4. CASE Queued(m, usbQueue)
    <3>1. PICK j \in 1 .. Len(usbQueue) : usbQueue[j] = m
      BY <2>4 DEF Queued
    <3>2. Stream[1].event < usbQueue[j]
      BY <1>1, <1>7 DEF StreamInv
    <3> QED BY <1>7, <2>0, <2>3, <3>1, <3>2
  <2>5. CASE m = item
    <3>1. Stream[1].event < item
      BY <1>1, <1>7, <2>0, <2>5 DEF StreamInv
    <3> QED BY <1>7, <2>0, <2>3, <2>5, <3>1
  <2>6. CASE HasBody(m, Stream')
    <3>1. PICK j \in 1 .. Len(Stream') : Stream'[j] = Piece(m, 1)
      BY <2>6, BodyNat DEF HasBody
    <3>2. BODY + 1 + j \in 1 .. Len(Stream) /\ 1 < BODY + 1 + j
      BY <1>5, <1>9, BodyNat
    <3>3. Stream[BODY + 1 + j].event = m /\ Stream[BODY + 1 + j].index = 1
      BY <1>9, <3>1 DEF Piece
    <3>4. Ascending(Stream[1], Stream[BODY + 1 + j])
      BY <1>1, <1>7, <3>2 DEF StreamInv, Sorted
    <3>5. n <= m /\ ~(n = m)
      BY <1>7, <3>3, <3>4 DEF Ascending
    <3> QED BY <2>0, <2>3, <3>5
  <2> QED BY <2>1, <2>3, <2>4, <2>5, <2>6
<1>11. ASSUME NEW m \in Transit, m > n PROVE m \in Transit'
  <2>1. m \in 1 .. sent /\ (Queued(m, usbQueue) \/ m = item \/ HasBody(m, Stream))
    BY <1>1, <1>11, TransitFacts
  <2>2. ASSUME HasBody(m, Stream) PROVE HasBody(m, Stream')
    <3>1. ASSUME NEW i \in 1 .. BODY PROVE \E j \in 1 .. Len(Stream') : Stream'[j] = Piece(m, i)
      <4>1. PICK j \in 1 .. Len(Stream) : Stream[j] = Piece(m, i)
        BY <2>2 DEF HasBody
      <4>2. Stream[j].event = m /\ Stream[j].index = i
        BY <4>1 DEF Piece
      <4>3. ~(j \in 1 .. BODY)
        BY <1>6, <1>11, <2>1, <4>2 DEF Piece
      <4>4. j # BODY + 1
        BY <1>2, <4>2, BodyNat DEF EndsLine
      <4>5. j - (BODY + 1) \in 1 .. Len(Stream') /\ BODY + 1 + (j - (BODY + 1)) = j
        BY <1>5, <1>9, <4>3, <4>4, BodyNat
      <4> QED BY <1>9, <4>1, <4>5
    <3> QED BY <3>1 DEF HasBody
  <2> QED BY <1>2, <1>4, <2>1, <2>2, TransitFactsNext
<1>12. Transit' = {m \in Transit : m > n}
  <2>1. \A m : m \in Transit' <=> m \in Transit /\ m > n
    BY <1>10, <1>11
  <2> QED BY <2>1 DEF Transit
<1>13. Delivered' = n
  <2>0. /\ Append(printed, n) \in Seq(Nat \ {0}) /\ Len(Append(printed, n)) = Len(printed) + 1
        /\ Append(printed, n)[Len(printed) + 1] = n
    BY <1>5, AppendProperties
  <2>1. /\ printed' = Append(printed, n) /\ Len(printed') = Len(printed) + 1
        /\ printed'[Len(printed) + 1] = n /\ printed' # <<>>
    BY <1>5, <2>0, SMTT(30)
  <2> QED BY <2>1 DEF Delivered, Last
<1> QED BY <1>4, <1>8, <1>12, <1>13 DEF Promise!Deliver, Transit, Delivered

LEMMA PromiseRead ==
    ASSUME OrderInv, Read
    PROVE  Promise!Next
<1>1. UsbTypeOK /\ LineInv
  BY DEF OrderInv
<1>2. OrderInv' /\ Thins(Stream, Stream') /\ UsbTypeOK'
  BY OrderRead DEF OrderInv
<1>3. Stream' \in Seq(Pieces)
  BY <1>2, JoinFacts DEF UsbTypeOK, Stream
<1>4. sent' = sent /\ usbQueue' = usbQueue /\ item' = item
  BY DEF Read, device
<1>5. \/ Kept
      \/ (Skipped \/ Ended) /\ Rest(Stream, Stream', Len(buffer) + 1)
  BY <1>1, ReadFacts
<1>6. CASE printed' = printed
  BY <1>2, <1>3, <1>4, <1>6, PromiseLosing DEF Promise!Next
<1>7. CASE Ended /\ ~discarding /\ IsFrame(buffer)
  <2>1. ~EndsLine(Head(buffered)) = FALSE
    BY <1>7 DEF Ended
  <2>2. Rest(Stream, Stream', Len(buffer) + 1)
    BY <1>5, <1>7, <2>1 DEF Kept
  <2> QED BY <1>1, <1>7, <2>2, Printing, PromiseDeliver DEF Promise!Next
<1>8. printed' = printed \/ (Ended /\ ~discarding /\ IsFrame(buffer))
  BY <1>5 DEF Kept, Skipped, Ended
<1> QED BY <1>6, <1>7, <1>8

LEMMA PromiseInit == Init => Promise!Init
<1> SUFFICES ASSUME Init PROVE Promise!Init
  OBVIOUS
<1>1. sent = 0 /\ printed = <<>>
  BY DEF Init
<1>2. {n \in 1 .. sent : OnTheWay(n)} = {}
  BY <1>1
<1> QED BY <1>1, <1>2 DEF Promise!Init

LEMMA PromiseStep == OrderInv /\ [Next]_vars => [Promise!Next]_(Promise!vars)
<1> SUFFICES ASSUME OrderInv, [Next]_vars PROVE [Promise!Next]_(Promise!vars)
  OBVIOUS
<1>1. CASE Submit \/ Receive
  BY <1>1, PromiseQueue
<1>2. CASE Write
  BY <1>2, PromiseWrite DEF Promise!Next
<1>3. CASE Read
  BY <1>3, PromiseRead
<1>4. CASE Open \/ Plug \/ Close \/ Unplug \/ Damage \/ Reboot
  BY <1>4, LosingFacts, PromiseLosing DEF OrderInv, Promise!Next
<1>5. CASE UNCHANGED vars
  BY <1>5 DEF vars, device, line, Promise!vars, OnTheWay
<1> QED BY <1>1, <1>2, <1>3, <1>4, <1>5 DEF Next

\* What the monitor prints has been submitted, comes in the order of its submission
\* and comes once, whatever is cut, damaged or restarted in between
\* (cr11_usb_transport.c, cr11_usb_monitor.py).
THEOREM PromiseTheorem == Spec => KeepsPromise
<1> QED BY OrderTheorem, PromiseInit, PromiseStep, PTL DEF Spec, Promise!Spec, KeepsPromise

-----------------------------------------------------------------------------
(* Every loss is accounted for.                                             *)

\* The frame of n is whole after k pieces of s, where a line begins that the
\* reader does not skip.
IntactAt(n, k, s, skips) ==
    /\ k \in Nat /\ k + BODY + 1 <= Len(s)
    /\ \A i \in 1 .. BODY + 1 : s[k + i] = Piece(n, i)
    /\ (k = 0 /\ ~skips) \/ (k > 0 /\ EndsLine(s[k]))

Intact(n, s, skips) == \E k \in Nat : IntactAt(n, k, s, skips)

Cared(n) ==
    \/ n \in ToSet(printed) \/ n \in blamed
    \/ Queued(n, usbQueue) \/ n = item \/ Intact(n, Stream, discarding)

CareInv == \A n \in 1 .. sent : Cared(n)

LEMMA IntactFacts ==
    ASSUME NEW s \in Seq(Pieces), NEW n, NEW k, NEW skips, IntactAt(n, k, s, skips)
    PROVE  /\ k \in Nat /\ k + 1 \in 1 .. Len(s) /\ s[k + 1].event = n
           /\ k + BODY + 1 \in 1 .. Len(s) /\ s[k + BODY + 1].event = n
           /\ EndsLine(s[k + BODY + 1])
<1>1. 1 \in 1 .. BODY + 1 /\ BODY + 1 \in 1 .. BODY + 1 /\ k \in Nat /\ Len(s) \in Nat
  BY BodyNat DEF IntactAt
<1>2. s[k + 1] = Piece(n, 1) /\ s[k + (BODY + 1)] = Piece(n, BODY + 1)
  BY <1>1 DEF IntactAt
<1>3. k + (BODY + 1) = k + BODY + 1
  BY <1>1, BodyNat
<1>4. k + BODY + 1 <= Len(s)
  BY DEF IntactAt
<1> QED BY <1>1, <1>2, <1>3, <1>4, BodyNat DEF Piece, EndsLine

LEMMA IntactStays ==
    ASSUME NEW s \in Seq(Pieces), NEW t \in Seq(Pieces), NEW n, NEW k, NEW skips,
           IntactAt(n, k, s, skips), Len(s) <= Len(t),
           \A j \in 1 .. Len(s) : k <= j /\ j <= k + BODY + 1 => t[j] = s[j]
    PROVE  Intact(n, t, skips)
<1>1. k \in Nat /\ k + BODY + 1 <= Len(s) /\ Len(s) \in Nat /\ Len(t) \in Nat
  BY DEF IntactAt
<1>2. ASSUME NEW i \in 1 .. BODY + 1 PROVE t[k + i] = Piece(n, i)
  <2>1. k + i \in 1 .. Len(s) /\ k <= k + i /\ k + i <= k + BODY + 1
    BY <1>1, BodyNat
  <2> QED BY <2>1 DEF IntactAt
<1>3. ASSUME k > 0 PROVE t[k] = s[k]
  <2>1. k \in 1 .. Len(s) /\ k <= k /\ k <= k + BODY + 1
    BY <1>1, <1>3, BodyNat
  <2> QED BY <2>1
<1>4. k + BODY + 1 <= Len(t)
  BY <1>1, BodyNat
<1>5. IntactAt(n, k, t, skips)
  BY <1>1, <1>2, <1>3, <1>4 DEF IntactAt
<1> QED BY <1>1, <1>5 DEF Intact

LEMMA IntactRest ==
    ASSUME NEW s \in Seq(Pieces), NEW t \in Seq(Pieces), NEW n, NEW k, NEW d,
           NEW skips, NEW skips2,
           IntactAt(n, k, s, skips), Rest(s, t, d), d <= k, k = d => ~skips2
    PROVE  Intact(n, t, skips2)
<1>1. /\ k \in Nat /\ k + BODY + 1 <= Len(s) /\ Len(s) \in Nat /\ Len(t) \in Nat
      /\ d \in Nat /\ Len(t) = Len(s) - d
      /\ \A i \in 1 .. Len(t) : t[i] = s[d + i]
  BY DEF IntactAt, Rest
<1> DEFINE l == k - d
<1>2. l \in Nat /\ k = d + l
  BY <1>1
<1> HIDE DEF l
<1>3. l + BODY + 1 <= Len(t)
  BY <1>1, <1>2, BodyNat
<1>4. ASSUME NEW i \in 1 .. BODY + 1 PROVE t[l + i] = Piece(n, i)
  <2>1. l + i \in 1 .. Len(t) /\ d + (l + i) = k + i
    BY <1>1, <1>2, <1>3, BodyNat
  <2>2. t[l + i] = s[k + i]
    BY <1>1, <2>1
  <2> QED BY <2>2 DEF IntactAt
<1>5. ASSUME l > 0 PROVE EndsLine(t[l])
  <2>1. l \in 1 .. Len(t) /\ d + l = k /\ k > 0
    BY <1>1, <1>2, <1>3, <1>5, BodyNat
  <2>2. t[l] = s[k]
    BY <1>1, <2>1
  <2> QED BY <2>1, <2>2 DEF IntactAt
<1>6. l = 0 => ~skips2
  BY <1>1, <1>2
<1>7. IntactAt(n, l, t, skips2)
  <2>1. l = 0 \/ l > 0
    BY <1>2
  <2> QED BY <1>2, <1>3, <1>4, <1>5, <1>6, <2>1 DEF IntactAt
<1> QED BY <1>2, <1>7 DEF Intact

LEMMA CareQueue ==
    ASSUME OrderInv, CareInv, Submit \/ Receive
    PROVE  CareInv'
<1>1. UsbTypeOK /\ LineInv
  BY DEF OrderInv
<1>2. /\ Stream' = Stream /\ printed' = printed /\ discarding' = discarding
  BY <1>1, QueueFacts
<1>3. usbQueue \in Seq(Nat \ {0}) /\ Len(usbQueue) \in Nat /\ sent \in Nat
  BY <1>1 DEF UsbTypeOK
<1>4. CASE Submit
  <2>1. /\ sent' = sent + 1 /\ item' = item
        /\ \/ usbQueue' = Append(usbQueue, sent') /\ blamed' = blamed
           \/ usbQueue' = usbQueue /\ blamed' = blamed \cup {sent'}
    BY <1>4 DEF Submit
  <2>2. \A n : Queued(n, usbQueue) => Queued(n, usbQueue')
    <3>1. CASE usbQueue' = usbQueue
      BY <3>1
    <3>2. CASE usbQueue' = Append(usbQueue, sent')
      <4>1. /\ Len(usbQueue') = Len(usbQueue) + 1
            /\ \A i \in 1 .. Len(usbQueue) : usbQueue'[i] = usbQueue[i]
        BY <1>3, <2>1, <3>2, AppendProperties
      <4>2. \A i \in 1 .. Len(usbQueue) : i \in 1 .. Len(usbQueue')
        BY <1>3, <4>1
      <4> QED BY <4>1, <4>2 DEF Queued
    <3> QED BY <2>1, <3>1, <3>2
  <2>3. Queued(sent', usbQueue') \/ sent' \in blamed'
    <3>1. CASE usbQueue' = Append(usbQueue, sent')
      <4>1. /\ Len(usbQueue') = Len(usbQueue) + 1
            /\ usbQueue'[Len(usbQueue) + 1] = sent'
        BY <1>3, <2>1, <3>1, AppendProperties
      <4>2. Len(usbQueue) + 1 \in 1 .. Len(usbQueue')
        BY <1>3, <4>1
      <4> QED BY <4>1, <4>2 DEF Queued
    <3> QED BY <2>1, <3>1
  <2>4. ASSUME NEW n \in 1 .. sent' PROVE Cared(n)'
    <3>1. n \in 1 .. sent \/ n = sent'
      BY <1>3, <2>1
    <3>2. CASE n \in 1 .. sent
      <4>1. Cared(n)
        BY <3>2 DEF CareInv
      <4>2. blamed \subseteq blamed'
        BY <2>1
      <4> QED BY <1>2, <2>1, <2>2, <4>1, <4>2 DEF Cared
    <3>3. CASE n = sent'
      BY <2>3, <3>3 DEF Cared
    <3> QED BY <3>1, <3>2, <3>3
  <2> QED BY <2>4 DEF CareInv
<1>5. CASE Receive
  <2>1. /\ sent' = sent /\ item = 0 /\ usbQueue # <<>> /\ usbQueue' = Tail(usbQueue)
        /\ \/ item' = Head(usbQueue) /\ blamed' = blamed
           \/ item' = item /\ blamed' = blamed \cup {Head(usbQueue)}
    BY <1>5 DEF Receive
  <2>2. /\ Head(usbQueue) = usbQueue[1] /\ Len(usbQueue) \in Nat \ {0}
        /\ Len(usbQueue') = Len(usbQueue) - 1
        /\ \A i \in 1 .. Len(usbQueue') : usbQueue'[i] = usbQueue[1 + i]
    BY <1>3, <2>1, TailRest DEF Rest
  <2>3. ASSUME NEW n, Queued(n, usbQueue)
        PROVE  Queued(n, usbQueue') \/ n = item' \/ n \in blamed'
    <3>1. PICK i \in 1 .. Len(usbQueue) : usbQueue[i] = n
      BY <2>3 DEF Queued
    <3>2. CASE i = 1
      BY <2>1, <2>2, <3>1, <3>2
    <3>3. CASE i # 1
      <4>1. i - 1 \in 1 .. Len(usbQueue') /\ 1 + (i - 1) = i
        BY <2>2, <3>3
      <4> QED BY <2>2, <3>1, <4>1 DEF Queued
    <3> QED BY <3>2, <3>3
  <2>4. ASSUME NEW n \in 1 .. sent' PROVE Cared(n)'
    <3>1. Cared(n) /\ n # item /\ blamed \subseteq blamed'
      BY <1>3, <2>1 DEF CareInv
    <3> QED BY <1>2, <2>3, <3>1 DEF Cared
  <2> QED BY <2>4 DEF CareInv
<1> QED BY <1>4, <1>5

LEMMA CareWrite ==
    ASSUME OrderInv, CareInv, Write
    PROVE  CareInv'
<1>1. UsbTypeOK /\ LineInv
  BY DEF OrderInv
<1>2. /\ Stream' \in Seq(Pieces) /\ item # 0 /\ item' = 0
      /\ UNCHANGED <<sent, usbQueue, printed, buffer, discarding>>
  BY <1>1, WriteFacts
<1>3. PICK taken \in 0 .. BODY + 1 :
        /\ Len(Stream') = Len(Stream) + taken
        /\ \A i \in 1 .. Len(Stream) : Stream'[i] = Stream[i]
        /\ \A i \in 1 .. taken : Stream'[Len(Stream) + i] = Piece(item, i)
        /\ blamed' = IF taken <= BODY \/ MidLine THEN blamed \cup {item} ELSE blamed
  BY <1>1, WriteFacts
<1>4. /\ Len(Stream) \in Nat /\ Stream \in Seq(Pieces)
      /\ buffer \in Seq(Pieces) /\ buffered \in Seq(Pieces)
  BY <1>1, JoinFacts DEF UsbTypeOK, Stream
<1>5. ASSUME NEW n, Intact(n, Stream, discarding)
      PROVE  Intact(n, Stream', discarding')
  <2>1. PICK k \in Nat : IntactAt(n, k, Stream, discarding)
    BY <1>5 DEF Intact
  <2>2. Len(Stream) <= Len(Stream')
    BY <1>3, <1>4
  <2> QED BY <1>2, <1>3, <1>4, <2>1, <2>2, IntactStays
<1>6. item \in blamed' \/ Intact(item, Stream', discarding')
  <2>1. CASE taken <= BODY \/ MidLine
    BY <1>3, <2>1
  <2>2. CASE ~(taken <= BODY) /\ ~MidLine
    <3>1. taken = BODY + 1 /\ BODY \in Nat
      BY <2>2, BodyNat
    <3> DEFINE k == Len(Stream)
    <3>2. (k = 0 /\ ~discarding') \/ (k > 0 /\ EndsLine(Stream'[k]))
      <4>1. CASE buffered = <<>>
        <5>1. buffer = <<>> /\ ~discarding
          BY <2>2, <4>1 DEF MidLine
        <5>2. Len(Stream) = 0
          BY <1>4, <4>1, <5>1, JoinFacts DEF Stream
        <5> QED BY <1>2, <5>1, <5>2
      <4>2. CASE buffered # <<>>
        <5>1. EndsLine(Last(buffered)) /\ Last(buffered) = buffered[Len(buffered)]
          BY <2>2, <4>2 DEF MidLine, Last
        <5>2. Len(buffered) \in Nat \ {0} /\ Len(buffer) \in Nat
          BY <1>4, <4>2, EmptySeq
        <5>3. /\ Len(Stream) = Len(buffer) + Len(buffered)
              /\ \A i \in 1 .. Len(buffered) : Stream[Len(buffer) + i] = buffered[i]
          BY <1>4, JoinFacts DEF Stream
        <5>4. Stream[Len(Stream)] = buffered[Len(buffered)] /\ Len(Stream) \in 1 .. Len(Stream)
          BY <5>2, <5>3
        <5>5. Stream'[Len(Stream)] = Stream[Len(Stream)]
          BY <1>3, <5>4
        <5>6. Len(Stream) > 0
          BY <1>4, <5>4
        <5> QED BY <5>1, <5>4, <5>5, <5>6
      <4> QED BY <4>1, <4>2
    <3>3. k + BODY + 1 <= Len(Stream')
      BY <1>3, <1>4, <3>1
    <3>4. IntactAt(item, k, Stream', discarding')
      BY <1>3, <1>4, <3>1, <3>2, <3>3 DEF IntactAt
    <3> QED BY <1>4, <3>4 DEF Intact
  <2> QED BY <2>1, <2>2
<1>7. ASSUME NEW n \in 1 .. sent' PROVE Cared(n)'
  <2>1. Cared(n) /\ blamed \subseteq blamed'
    BY <1>2, <1>3 DEF CareInv
  <2> QED BY <1>2, <1>5, <1>6, <2>1 DEF Cared
<1> QED BY <1>7 DEF CareInv

\* A line of the reader that began with the frame of n ends with it.
LEMMA FrameIsLine ==
    ASSUME UsbTypeOK, LineInv, Ended, NEW n \in Nat \ {0},
           Rest(Stream, Stream', Len(buffer) + 1), IntactAt(n, 0, Stream, discarding)
    PROVE  n \in ToSet(printed')
<1>1. /\ buffer \in Seq(Pieces) /\ buffered \in Seq(Pieces) /\ Stream \in Seq(Pieces)
      /\ Len(buffer) \in Nat /\ Len(buffered) \in Nat /\ printed \in Seq(Nat \ {0})
  BY JoinFacts DEF UsbTypeOK, Stream
<1>2. /\ Len(Stream) = Len(buffer) + Len(buffered)
      /\ \A i \in 1 .. Len(buffer) : Stream[i] = buffer[i]
      /\ \A i \in 1 .. Len(buffered) : Stream[Len(buffer) + i] = buffered[i]
  BY <1>1, JoinFacts DEF Stream
<1>3. Len(buffered) # 0 /\ Head(buffered) = Stream[Len(buffer) + 1]
  <2>1. Len(buffer) + 1 <= Len(Stream)
    BY <1>1, <1>2 DEF Rest
  <2>2. buffered # <<>> /\ Head(buffered) = buffered[1] /\ 1 \in 1 .. Len(buffered)
    BY <1>1, <1>2, <2>1
  <2> QED BY <1>1, <1>2, <2>2
<1>4. /\ ~discarding /\ BODY + 1 <= Len(Stream)
      /\ \A i \in 1 .. BODY + 1 : Stream[i] = Piece(n, i)
  <2>1. 0 + BODY + 1 <= Len(Stream) /\ \A i \in 1 .. BODY + 1 : Stream[0 + i] = Piece(n, i)
    BY DEF IntactAt
  <2>2. ~discarding
    BY DEF IntactAt
  <2> QED BY <2>1, <2>2, BodyNat
<1>5. Len(buffer) = BODY
  <2>1. ASSUME Len(buffer) < BODY PROVE FALSE
    <3>1. Len(buffer) + 1 \in 1 .. BODY + 1 /\ Len(buffer) + 1 < BODY + 1
      BY <1>1, <2>1, BodyNat
    <3>2. Stream[Len(buffer) + 1] = Piece(n, Len(buffer) + 1)
      BY <1>4, <3>1
    <3> QED BY <1>3, <3>1, <3>2 DEF Ended, EndsLine, Piece
  <2>2. ASSUME Len(buffer) > BODY PROVE FALSE
    <3>1. BODY + 1 \in 1 .. Len(buffer) /\ BODY + 1 \in 1 .. BODY + 1
      BY <1>1, <2>2, BodyNat
    <3>2. buffer[BODY + 1] = Piece(n, BODY + 1)
      BY <1>2, <1>4, <3>1
    <3>3. ~EndsLine(buffer[BODY + 1])
      BY <3>1 DEF LineInv
    <3> QED BY <3>2, <3>3 DEF EndsLine, Piece
  <2> QED BY <1>1, <2>1, <2>2, BodyNat
<1>6. \A i \in 1 .. BODY : buffer[i] = Piece(n, i)
  <2>1. \A i \in 1 .. BODY : i \in 1 .. BODY + 1 /\ i \in 1 .. Len(buffer)
    BY <1>5, BodyNat
  <2> QED BY <1>2, <1>4, <2>1
<1>7. buffer = Body(n)
  <2>1. Body(n) \in Seq(Pieces) /\ Len(Body(n)) = BODY
        /\ \A i \in 1 .. BODY : Body(n)[i] = Piece(n, i)
    BY FrameFacts
  <2> QED BY <1>1, <1>5, <1>6, <2>1, SeqEqual
<1>8. buffer[1].event = n /\ Head(buffer) = buffer[1] /\ 1 \in DOMAIN buffer
  <2>1. 1 \in 1 .. BODY /\ buffer # <<>>
    BY <1>1, <1>5, BodyNat
  <2> QED BY <1>1, <1>5, <1>6, <2>1 DEF Piece
<1>9. IsFrame(buffer)
  BY <1>7, <1>8 DEF IsFrame, EventsOf
<1>10. printed' = Append(printed, n)
  BY <1>4, <1>8, <1>9 DEF Ended
<1>11. /\ printed' \in Seq(Nat \ {0}) /\ Len(printed') = Len(printed) + 1
       /\ printed'[Len(printed) + 1] = n
  BY <1>1, <1>10, AppendProperties
<1>12. Len(printed) + 1 \in 1 .. Len(printed')
  BY <1>1, <1>11
<1> QED BY <1>11, <1>12, QueuedFacts DEF Queued

LEMMA CareRead ==
    ASSUME OrderInv, CareInv, Read
    PROVE  CareInv'
<1>1. UsbTypeOK /\ LineInv
  BY DEF OrderInv
<1>2. /\ UsbTypeOK' /\ Len(buffer) + 1 <= Len(Stream)
      /\ Stream[Len(buffer) + 1] = Head(buffered)
      /\ \/ Kept /\ Rest(Stream, Stream', 0)
         \/ (Skipped \/ Ended) /\ Rest(Stream, Stream', Len(buffer) + 1)
  BY <1>1, ReadFacts
<1>3. sent' = sent /\ usbQueue' = usbQueue /\ item' = item /\ blamed' = blamed
  BY DEF Read, device
<1>4. /\ buffer \in Seq(Pieces) /\ Stream \in Seq(Pieces) /\ Stream' \in Seq(Pieces)
      /\ Len(buffer) \in Nat /\ Len(Stream) \in Nat /\ sent \in Nat
      /\ printed \in Seq(Nat \ {0})
  BY <1>1, <1>2, JoinFacts DEF UsbTypeOK, Stream
<1>5. ToSet(printed) \subseteq ToSet(printed')
  <2>1. CASE printed' = printed
    BY <2>1
  <2>2. CASE Ended /\ ~discarding /\ IsFrame(buffer)
    <3>1. PICK n \in Nat \ {0} : printed' = Append(printed, n)
      BY <1>1, <2>2, Printing
    <3>2. /\ printed' \in Seq(Nat \ {0}) /\ Len(printed') = Len(printed) + 1
          /\ \A i \in 1 .. Len(printed) : printed'[i] = printed[i]
      BY <1>4, <3>1, AppendProperties
    <3>3. \A i \in 1 .. Len(printed) : i \in 1 .. Len(printed')
      BY <1>4, <3>2
    <3>4. \A m : Queued(m, printed) => Queued(m, printed')
      BY <3>2, <3>3 DEF Queued
    <3> QED BY <1>4, <3>2, <3>4, QueuedFacts
  <2> QED BY <1>2, <2>1, <2>2 DEF Kept, Skipped, Ended
<1>6. \A j \in 1 .. Len(buffer) : ~EndsLine(Stream[j])
  <2>1. \A j \in 1 .. Len(buffer) : Stream[j] = buffer[j]
    BY <1>1, JoinFacts DEF UsbTypeOK, Stream
  <2> QED BY <1>1, <2>1 DEF LineInv
<1>7. ASSUME NEW n \in 1 .. sent, Intact(n, Stream, discarding)
      PROVE  Intact(n, Stream', discarding') \/ n \in ToSet(printed')
  <2>1. PICK k \in Nat : IntactAt(n, k, Stream, discarding)
    BY <1>7 DEF Intact
  <2>2. CASE Kept /\ Rest(Stream, Stream', 0)
    <3>1. discarding' = FALSE
      BY <2>2 DEF Kept
    <3>2. 0 <= k
      BY <2>1
    <3> QED BY <1>4, <2>1, <2>2, <3>1, <3>2, IntactRest
  <2>3. CASE (Skipped \/ Ended) /\ Rest(Stream, Stream', Len(buffer) + 1) /\ k > Len(buffer) + 1
    <3>1. Len(buffer) + 1 <= k /\ k # Len(buffer) + 1 /\ Len(buffer) + 1 \in Nat
      BY <1>4, <2>3
    <3> QED BY <1>4, <2>1, <2>3, <3>1, IntactRest
  <2>4. CASE Ended /\ Rest(Stream, Stream', Len(buffer) + 1) /\ k = Len(buffer) + 1
    <3>1. Len(buffer) + 1 <= k /\ discarding' = FALSE
      BY <1>4, <2>4 DEF Ended
    <3> QED BY <1>4, <2>1, <2>4, <3>1, IntactRest
  <2>5. CASE Skipped /\ k = Len(buffer) + 1
    <3>1. EndsLine(Stream[k])
      BY <1>4, <2>1, <2>5 DEF IntactAt
    <3> QED BY <1>2, <2>5, <3>1 DEF Skipped
  <2>6. CASE k \in 1 .. Len(buffer)
    BY <1>6, <2>1, <2>6 DEF IntactAt
  <2>7. CASE Ended /\ Rest(Stream, Stream', Len(buffer) + 1) /\ k = 0
    BY <1>1, <2>1, <2>7, FrameIsLine
  <2>8. CASE Skipped /\ k = 0
    <3>1. ~discarding /\ Len(buffer) >= MAX_LINE
      BY <2>1, <2>8 DEF IntactAt, Skipped
    <3>2. EndsLine(Stream[0 + BODY + 1]) /\ 0 + BODY + 1 = BODY + 1
      BY <1>4, <2>1, <2>8, IntactFacts, BodyNat
    <3>3. BODY + 1 \in 1 .. Len(buffer) \/ BODY + 1 = Len(buffer) + 1
      BY <1>4, <3>1, BodyNat
    <3> QED BY <1>2, <1>6, <2>8, <3>2, <3>3 DEF Skipped
  <2>9. k = 0 \/ k \in 1 .. Len(buffer) \/ k = Len(buffer) + 1 \/ k > Len(buffer) + 1
    BY <1>4
  <2> QED BY <1>2, <2>2, <2>3, <2>4, <2>5, <2>6, <2>7, <2>8, <2>9
<1>8. ASSUME NEW n \in 1 .. sent' PROVE Cared(n)'
  <2>1. Cared(n) /\ n \in 1 .. sent
    BY <1>3 DEF CareInv
  <2> QED BY <1>3, <1>5, <1>7, <2>1 DEF Cared
<1> QED BY <1>8 DEF CareInv

LEMMA CareLeave ==
    ASSUME OrderInv, CareInv, Leave, UNCHANGED <<sent, usbQueue, item, printed>>
    PROVE  CareInv'
<1>1. UsbTypeOK
  BY DEF OrderInv
<1>2. discarding' = FALSE /\ buffered' \in Seq(Pieces) /\ Stream' = buffered'
  BY <1>1, LeaveFacts
<1>3. PICK ahead \in 0 .. Len(buffered) :
        /\ Rest(Stream, Stream', Len(buffer) + ahead)
        /\ blamed' = blamed \cup EventsOf(buffer) \cup EventsOf(SubSeq(buffered, 1, ahead))
  BY <1>1, LeaveFacts
<1>4. /\ buffer \in Seq(Pieces) /\ buffered \in Seq(Pieces) /\ Stream \in Seq(Pieces)
      /\ Len(buffer) \in Nat /\ Len(buffered) \in Nat /\ Stream' \in Seq(Pieces)
  BY <1>1, <1>2, JoinFacts DEF UsbTypeOK, Stream
<1>5. /\ Len(Stream) = Len(buffer) + Len(buffered)
      /\ \A i \in 1 .. Len(buffer) : Stream[i] = buffer[i]
      /\ \A i \in 1 .. Len(buffered) : Stream[Len(buffer) + i] = buffered[i]
  BY <1>4, JoinFacts DEF Stream
<1>6. ASSUME NEW j \in 1 .. Len(Stream), j <= Len(buffer) + ahead
      PROVE  Stream[j].event \in blamed'
  <2>1. CASE j \in 1 .. Len(buffer)
    <3>1. j \in DOMAIN buffer /\ Stream[j] = buffer[j]
      BY <1>4, <1>5, <2>1
    <3> QED BY <1>3, <3>1 DEF EventsOf
  <2>2. CASE j > Len(buffer)
    <3> DEFINE i == j - Len(buffer)
               w == SubSeq(buffered, 1, ahead)
    <3>1. i \in 1 .. ahead /\ j = Len(buffer) + i /\ i \in 1 .. Len(buffered)
      BY <1>4, <1>5, <1>6, <2>2
    <3>2. /\ w \in Seq(Pieces) /\ Len(w) = ahead
          /\ \A l \in 1 .. ahead : w[l] = buffered[l]
      <4>1. ahead \in Int /\ \A l \in 1 .. ahead : buffered[l] \in Pieces
        BY <1>4
      <4>2. /\ w \in Seq(Pieces)
            /\ Len(w) = IF 1 <= ahead THEN ahead - 1 + 1 ELSE 0
            /\ \A l \in 1 .. ahead - 1 + 1 : w[l] = buffered[1 + l - 1]
        BY <4>1, SubSeqProperties
      <4> QED BY <1>4, <4>2
    <3> HIDE DEF i, w
    <3>3. i \in DOMAIN w /\ w[i] = Stream[j]
      BY <1>5, <3>1, <3>2
    <3>4. Stream[j].event \in EventsOf(w)
      BY <3>3 DEF EventsOf
    <3> QED BY <1>3, <3>4 DEF w
  <2> QED BY <1>4, <2>1, <2>2
<1>7. ASSUME NEW n \in 1 .. sent, Intact(n, Stream, discarding)
      PROVE  Intact(n, Stream', discarding') \/ n \in blamed'
  <2>1. PICK k \in Nat : IntactAt(n, k, Stream, discarding)
    BY <1>7 DEF Intact
  <2>2. CASE Len(buffer) + ahead <= k
    BY <1>2, <1>3, <1>4, <2>1, <2>2, IntactRest
  <2>3. CASE ~(Len(buffer) + ahead <= k)
    <3>1. k + 1 \in 1 .. Len(Stream) /\ Stream[k + 1].event = n
      BY <1>4, <2>1, IntactFacts
    <3>2. k + 1 <= Len(buffer) + ahead
      BY <1>4, <2>3
    <3> QED BY <1>6, <3>1, <3>2
  <2> QED BY <2>2, <2>3
<1>8. ASSUME NEW n \in 1 .. sent' PROVE Cared(n)'
  <2>1. Cared(n) /\ n \in 1 .. sent /\ blamed \subseteq blamed'
    BY <1>3 DEF CareInv
  <2> QED BY <1>7, <2>1 DEF Cared
<1> QED BY <1>8 DEF CareInv

LEMMA CareDamage ==
    ASSUME OrderInv, CareInv, Damage
    PROVE  CareInv'
<1>1. UsbTypeOK
  BY DEF OrderInv
<1>2. PICK i \in DOMAIN buffered :
        /\ buffered' = [buffered EXCEPT ![i] = Damaged(@)]
        /\ blamed' = blamed \cup {buffered[i].event}
              \cup IF ~EndsLine(buffered[i]) THEN {}
                   ELSE IF i = Len(buffered) THEN {} ELSE {buffered[i + 1].event}
  BY DEF Damage
<1>3. UNCHANGED <<sent, usbQueue, item, printed, buffer, discarding>>
  BY DEF Damage, device, line
<1> DEFINE q == Len(buffer) + i
<1>4. /\ buffered' \in Seq(Pieces) /\ i \in 1 .. Len(buffered)
      /\ Len(Stream') = Len(Stream) /\ q \in 1 .. Len(Stream)
      /\ \A j \in 1 .. Len(Stream) : j # q => Stream'[j] = Stream[j]
  BY <1>1, <1>2, <1>3, DamageFacts
<1>5. /\ buffer \in Seq(Pieces) /\ buffered \in Seq(Pieces) /\ Stream \in Seq(Pieces)
      /\ Len(buffer) \in Nat /\ Len(buffered) \in Nat /\ Stream' \in Seq(Pieces)
      /\ Len(Stream) \in Nat
  BY <1>1, <1>3, <1>4, JoinFacts DEF UsbTypeOK, Stream
<1>6. /\ Len(Stream) = Len(buffer) + Len(buffered)
      /\ \A j \in 1 .. Len(buffered) : Stream[Len(buffer) + j] = buffered[j]
  BY <1>5, JoinFacts DEF Stream
<1>7. Stream[q] = buffered[i] /\ Stream[q].event \in blamed'
  BY <1>2, <1>4, <1>6
<1>8. ASSUME EndsLine(Stream[q]), q + 1 <= Len(Stream)
      PROVE  Stream[q + 1].event \in blamed'
  <2>1. i + 1 \in 1 .. Len(buffered) /\ q + 1 = Len(buffer) + (i + 1) /\ i # Len(buffered)
    BY <1>4, <1>5, <1>6, <1>8
  <2>2. Stream[q + 1] = buffered[i + 1]
    BY <1>6, <2>1
  <2> QED BY <1>2, <1>7, <1>8, <2>1, <2>2
<1> HIDE DEF q
<1>9. ASSUME NEW n \in 1 .. sent, Intact(n, Stream, discarding)
      PROVE  Intact(n, Stream', discarding') \/ n \in blamed'
  <2>1. PICK k \in Nat : IntactAt(n, k, Stream, discarding)
    BY <1>9 DEF Intact
  <2>2. CASE q < k \/ q > k + BODY + 1
    <3>1. \A j \in 1 .. Len(Stream) : k <= j /\ j <= k + BODY + 1 => Stream'[j] = Stream[j]
      BY <1>4, <1>5, <2>2, BodyNat
    <3>2. Len(Stream) <= Len(Stream')
      BY <1>4, <1>5
    <3> QED BY <1>3, <1>5, <2>1, <3>1, <3>2, IntactStays
  <2>3. CASE q = k
    <3>1. k + 1 \in 1 .. Len(Stream) /\ Stream[k + 1].event = n
      BY <1>5, <2>1, IntactFacts
    <3>2. EndsLine(Stream[k])
      BY <1>4, <2>1, <2>3 DEF IntactAt
    <3> QED BY <1>8, <2>3, <3>1, <3>2
  <2>4. CASE q > k /\ q <= k + BODY + 1
    <3> DEFINE l == q - k
    <3>1. l \in 1 .. BODY + 1 /\ k + l = q
      BY <1>4, <2>4, BodyNat
    <3> HIDE DEF l
    <3>2. Stream[q] = Piece(n, l)
      BY <2>1, <3>1 DEF IntactAt
    <3> QED BY <1>7, <3>2 DEF Piece
  <2> QED BY <1>4, <2>2, <2>3, <2>4, BodyNat
<1>10. ASSUME NEW n \in 1 .. sent' PROVE Cared(n)'
  <2>1. Cared(n) /\ n \in 1 .. sent /\ blamed \subseteq blamed'
    BY <1>2, <1>3 DEF CareInv
  <2> QED BY <1>3, <1>9, <2>1 DEF Cared
<1> QED BY <1>10 DEF CareInv

LEMMA CareReboot ==
    ASSUME OrderInv, CareInv, Reboot
    PROVE  CareInv'
<1>1. UsbTypeOK /\ LineInv
  BY DEF OrderInv
<1>2. /\ UNCHANGED <<sent, printed, buffer, discarding>>
      /\ blamed' = blamed \cup ToSet(usbQueue) \cup ({item} \ {0}) \cup EventsOf(buffered)
  BY DEF Reboot, line
<1>3. /\ buffer \in Seq(Pieces) /\ buffered \in Seq(Pieces) /\ Stream \in Seq(Pieces)
      /\ Len(buffer) \in Nat /\ Len(buffered) \in Nat /\ Len(Stream) \in Nat
  BY <1>1, JoinFacts DEF UsbTypeOK, Stream
<1>4. /\ Len(Stream) = Len(buffer) + Len(buffered)
      /\ \A j \in 1 .. Len(buffer) : Stream[j] = buffer[j]
      /\ \A j \in 1 .. Len(buffered) : Stream[Len(buffer) + j] = buffered[j]
  BY <1>3, JoinFacts DEF Stream
<1>5. ASSUME NEW n, Intact(n, Stream, discarding)
      PROVE  n \in blamed'
  <2>1. PICK k \in Nat : IntactAt(n, k, Stream, discarding)
    BY <1>5 DEF Intact
  <2> DEFINE e == k + BODY + 1
  <2>2. e \in 1 .. Len(Stream) /\ Stream[e].event = n /\ EndsLine(Stream[e])
    BY <1>3, <2>1, IntactFacts
  <2> HIDE DEF e
  <2>3. ~(e \in 1 .. Len(buffer))
    BY <1>1, <1>4, <2>2 DEF LineInv
  <2> DEFINE i == e - Len(buffer)
  <2>4. i \in 1 .. Len(buffered) /\ Len(buffer) + i = e
    BY <1>3, <1>4, <2>2, <2>3
  <2> HIDE DEF i
  <2>5. buffered[i].event = n /\ i \in DOMAIN buffered
    BY <1>3, <1>4, <2>2, <2>4
  <2> QED BY <1>2, <2>5 DEF EventsOf
<1>6. ASSUME NEW n \in 1 .. sent' PROVE Cared(n)'
  <2>1. Cared(n) /\ n # 0
    BY <1>1, <1>2 DEF CareInv, UsbTypeOK
  <2>2. Queued(n, usbQueue) => n \in ToSet(usbQueue)
    BY <1>1, QueuedFacts DEF UsbTypeOK
  <2> QED BY <1>2, <1>5, <2>1, <2>2 DEF Cared
<1> QED BY <1>6 DEF CareInv

LEMMA CareSame ==
    ASSUME CareInv, UNCHANGED <<sent, printed, blamed, usbQueue, item, buffer, buffered, discarding>>
    PROVE  CareInv'
BY DEF CareInv, Cared, Stream

LEMMA CareStep == OrderInv /\ CareInv /\ [Next]_vars => CareInv'
<1> SUFFICES ASSUME OrderInv, CareInv, [Next]_vars PROVE CareInv'
  OBVIOUS
<1> USE DEF device, line
<1>1. CASE Submit \/ Receive
  BY <1>1, CareQueue
<1>2. CASE Write
  BY <1>2, CareWrite
<1>3. CASE Read
  BY <1>3, CareRead
<1>4. CASE Open \/ Plug \/ UNCHANGED vars
  <2>1. UNCHANGED <<sent, printed, blamed, usbQueue, item, buffer, buffered, discarding>>
    BY <1>4 DEF Open, Plug, vars
  <2> QED BY <2>1, CareSame
<1>5. CASE Close
  <2>1. Leave /\ UNCHANGED <<sent, usbQueue, item, printed>>
    BY <1>5 DEF Close
  <2> QED BY <2>1, CareLeave
<1>6. CASE Unplug
  <2>1. CASE reading
    <3>1. Leave /\ UNCHANGED <<sent, usbQueue, item, printed>>
      BY <1>6, <2>1 DEF Unplug
    <3> QED BY <3>1, CareLeave
  <2>2. CASE ~reading
    <3>1. UNCHANGED <<sent, printed, blamed, usbQueue, item, buffer, buffered, discarding>>
      BY <1>6, <2>2 DEF Unplug
    <3> QED BY <3>1, CareSame
  <2> QED BY <2>1, <2>2
<1>7. CASE Damage
  BY <1>7, CareDamage
<1>8. CASE Reboot
  BY <1>8, CareReboot
<1> QED BY <1>1, <1>2, <1>3, <1>4, <1>5, <1>6, <1>7, <1>8 DEF Next

LEMMA CareQuiet == OrderInv /\ CareInv => OnlyBlamedAreLost
<1> SUFFICES ASSUME OrderInv, CareInv, Quiet, NEW n \in 1 .. sent
             PROVE  n \in ToSet(printed) \cup blamed
  BY DEF OnlyBlamedAreLost
<1>1. usbQueue = <<>> /\ item = 0 /\ buffered = <<>>
  BY DEF Quiet
<1>2. buffer \in Seq(Pieces) /\ sent \in Nat
  BY DEF OrderInv, UsbTypeOK
<1>3. Stream = buffer
  BY <1>1, <1>2, ConcatEmptySeq DEF Stream
<1>4. ~Intact(n, Stream, discarding)
  <2>1. ASSUME NEW k \in Nat, IntactAt(n, k, Stream, discarding) PROVE FALSE
    <3>1. k + BODY + 1 \in 1 .. Len(buffer) /\ EndsLine(buffer[k + BODY + 1])
      BY <1>2, <1>3, <2>1, IntactFacts
    <3> QED BY <3>1 DEF OrderInv, LineInv
  <2> QED BY <2>1 DEF Intact
<1>5. ~Queued(n, usbQueue)
  BY <1>1 DEF Queued
<1>6. Cared(n) /\ n # item
  BY <1>1 DEF CareInv
<1> QED BY <1>4, <1>5, <1>6 DEF Cared

\* An event is lost only for a reason of its own; a cut or a damaged newline costs the
\* next frame and none after that (usb_task, monitor).
THEOREM OnlyBlamedTheorem == Spec => []OnlyBlamedAreLost
<1>1. Init => CareInv
  <2>1. Init => sent = 0
    BY DEF Init
  <2> QED BY <2>1 DEF CareInv
<1> QED BY <1>1, OrderInit, OrderStep, CareStep, CareQuiet, PTL DEF Spec
=============================================================================
