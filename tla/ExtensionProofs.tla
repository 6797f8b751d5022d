--------------------------- MODULE ExtensionProofs ---------------------------
(***************************************************************************)
(* The extension of Zigbee2MQTT: its heartbeats and its table of events, for  *)
(* any number of remotes, packets, deliveries and boots and any window,       *)
(* limit and delay; and the join window of its soft rejoin, for any number of *)
(* requests, reloads and windows of the user and any length of these.         *)
(***************************************************************************)
EXTENDS RouterExtension, SoftRejoin, SequenceTheorems, FiniteSetTheorems, TLAPS

Entries == [key : Sources \X Nat, age : Nat]

PacketRecords ==
    [source : Sources, seq : Nat, boot : Nat, age : Nat, copies : 0..MaxCopies,
     published : BOOLEAN, later : Nat]

TypeOK ==
    /\ gateway \in BOOLEAN
    /\ boot \in Nat /\ sequence \in Nat
    /\ packets \in Seq(PacketRecords)
    /\ starting \in BOOLEAN /\ stopping \in BOOLEAN /\ listening \in BOOLEAN
    /\ timer \in BOOLEAN
    /\ heartbeatRunning \in BOOLEAN /\ commands \in {0, 1}
    /\ seen \in Seq(Entries)

\* The flag tells of the one command that has not settled.
FlagInv == heartbeatRunning <=> commands = 1

\* An instance is stopped for good, and until it is stopped nothing is published
\* without its listeners.
LifeInv ==
    /\ ~(listening /\ stopping)
    /\ \A i \in DOMAIN packets : packets[i].published => listening \/ stopping

\* No two packets of a boot have the same number.
NumberInv ==
    /\ \A i \in DOMAIN packets :
         /\ packets[i].boot <= boot
         /\ packets[i].boot = boot => packets[i].seq <= sequence
    /\ \A i, j \in DOMAIN packets :
         i # j /\ packets[i].boot = packets[j].boot => packets[i].seq # packets[j].seq

OldestFirst(entries) ==
    \A i, j \in DOMAIN entries : i <= j => entries[j].age <= entries[i].age

\* An entry that has not expired is there for a packet that was delivered when it
\* was not older than the network lets it become.
ComesFrom(entry, packet) ==
    /\ Key(packet) = entry.key
    /\ packet.copies > 0
    /\ packet.age <= entry.age + MaxDelay

EntryInv ==
    \A k \in DOMAIN seen :
        ~Expired(seen[k]) => \E i \in DOMAIN packets : ComesFrom(seen[k], packets[i])

\* A packet that was published is remembered, no longer than it is old, and has at
\* most as many entries after it as packets were taken since.
Remembers(entries, k, packet) ==
    /\ entries[k].key = Key(packet)
    /\ entries[k].age <= packet.age
    /\ Len(entries) - k <= packet.later

Matters(packet) ==
    packet.published /\ listening /\ packet.later < LIMIT /\ packet.age <= WINDOW

PublishedInv ==
    \A i \in DOMAIN packets :
        Matters(packets[i]) => \E k \in DOMAIN seen : Remembers(seen, k, packets[i])

RouterInv ==
    TypeOK /\ FlagInv /\ LifeInv /\ NumberInv /\ OldestFirst(seen) /\ EntryInv /\ PublishedInv

-----------------------------------------------------------------------------
(* The table. *)

LEMMA RouterConstants ==
    /\ Known \subseteq Sources
    /\ WINDOW \in Nat /\ LIMIT \in Nat /\ 0 < LIMIT /\ MaxDelay \in Nat /\ MaxCopies \in Nat
    /\ Oldest \in Nat /\ WINDOW < Oldest /\ MaxDelay < Oldest
BY RouterAssumption DEF Oldest

LEMMA OlderFacts ==
    ASSUME NEW a \in Nat
    PROVE  /\ Older(a) \in Nat /\ a <= Older(a) /\ Older(a) <= a + 1
           /\ a <= WINDOW => Older(a) = a + 1
           /\ Older(a) <= WINDOW \/ Older(a) > WINDOW
           /\ Older(a) <= WINDOW => a <= WINDOW
           /\ \A b \in Nat : a <= b => Older(a) <= Older(b)
BY RouterConstants DEF Older

\* t holds the last entries of s.
Suffix(t, s) ==
    /\ t \in Seq(Entries) /\ Len(t) <= Len(s)
    /\ \A m \in 1..Len(t) : t[m] = s[Len(s) - Len(t) + m]

LEMMA EntryAt ==
    ASSUME NEW s \in Seq(Entries), NEW k \in 1..Len(s)
    PROVE  s[k] \in Entries /\ s[k].age \in Nat
<1>1. s[k] \in Entries
  BY ElementOfSeq
<1> QED BY <1>1 DEF Entries

LEMMA SuffixAt ==
    ASSUME NEW s \in Seq(Entries), NEW t, Suffix(t, s), NEW k \in 1..Len(s),
           k > Len(s) - Len(t)
    PROVE  /\ k - (Len(s) - Len(t)) \in 1..Len(t)
           /\ t[k - (Len(s) - Len(t))] = s[k]
<1>1. Len(s) \in Nat /\ Len(t) \in Nat
  BY DEF Suffix
<1>2. k - (Len(s) - Len(t)) \in 1..Len(t)
  BY <1>1
<1>3. t[k - (Len(s) - Len(t))] = s[Len(s) - Len(t) + (k - (Len(s) - Len(t)))]
  BY <1>2 DEF Suffix
<1> QED BY <1>1, <1>2, <1>3

LEMMA SuffixOldestFirst ==
    ASSUME NEW s \in Seq(Entries), NEW t, Suffix(t, s), OldestFirst(s)
    PROVE  OldestFirst(t)
<1> SUFFICES ASSUME NEW i \in 1..Len(t), NEW j \in 1..Len(t), i <= j
             PROVE  t[j].age <= t[i].age
  BY DEF OldestFirst, Suffix
<1> DEFINE d == Len(s) - Len(t)
<1>1. Len(s) \in Nat /\ Len(t) \in Nat /\ d \in Nat /\ Len(s) = d + Len(t)
  BY DEF Suffix
<1>2. t[i] = s[d + i] /\ t[j] = s[d + j]
  BY DEF Suffix
<1> HIDE DEF d
<1>3. d + i \in DOMAIN s /\ d + j \in DOMAIN s /\ d + i <= d + j
  BY <1>1
<1> QED BY <1>2, <1>3 DEF OldestFirst

LEMMA DropIsSuffix ==
    ASSUME NEW s \in Seq(Entries), NEW d \in 0..Len(s)
    PROVE  /\ Suffix(SubSeq(s, d + 1, Len(s)), s)
           /\ Len(SubSeq(s, d + 1, Len(s))) = Len(s) - d
<1> DEFINE t == SubSeq(s, d + 1, Len(s))
<1>1. Len(s) \in Nat /\ d \in Nat /\ d <= Len(s)
  OBVIOUS
<1>2. \A i \in (d + 1)..Len(s) : s[i] \in Entries
  BY <1>1, ElementOfSeq
<1>3. /\ t \in Seq(Entries)
      /\ Len(t) = IF d + 1 <= Len(s) THEN Len(s) - (d + 1) + 1 ELSE 0
      /\ \A i \in 1..(Len(s) - (d + 1) + 1) : t[i] = s[(d + 1) + i - 1]
  BY <1>1, <1>2, SubSeqProperties
<1>4. Len(t) = Len(s) - d
  BY <1>1, <1>3
<1>5. \A m \in 1..Len(t) : t[m] = s[Len(s) - Len(t) + m]
  <2> SUFFICES ASSUME NEW m \in 1..Len(t)
               PROVE  t[m] = s[Len(s) - Len(t) + m]
    OBVIOUS
  <2> HIDE DEF t
  <2>1. m \in 1..(Len(s) - (d + 1) + 1) /\ (d + 1) + m - 1 = Len(s) - Len(t) + m
    BY <1>1, <1>4
  <2> QED BY <1>3, <2>1
<1>6. Suffix(t, s)
  <2> HIDE DEF t
  <2>1. t \in Seq(Entries) /\ Len(t) <= Len(s)
    BY <1>1, <1>3, <1>4
  <2> QED BY <2>1, <1>5 DEF Suffix
<1> QED BY <1>4, <1>6

\* What has expired comes first.
LEMMA ExpiredFirst ==
    ASSUME seen \in Seq(Entries), OldestFirst(seen)
    PROVE  /\ Cardinality(ExpiredPlaces) \in 0..Len(seen)
           /\ \A k \in 1..Len(seen) : Expired(seen[k]) <=> k <= Cardinality(ExpiredPlaces)
<1> DEFINE E == ExpiredPlaces
           n == Len(seen)
<1>1. n \in Nat /\ DOMAIN seen = 1..n
  OBVIOUS
<1>2. E \subseteq DOMAIN seen
  BY Zenon DEF ExpiredPlaces
<1>3. IsFiniteSet(1..n) /\ Cardinality(1..n) = n
  BY <1>1, FS_Interval
<1>4. IsFiniteSet(E) /\ Cardinality(E) <= n
  BY <1>1, <1>2, <1>3, FS_Subset
<1>5. Cardinality(E) \in Nat
  BY <1>4, FS_CardinalityType
<1>6. ASSUME NEW k \in 1..n, Expired(seen[k])
      PROVE  k <= Cardinality(E)
  <2>1. \A i \in 1..k : i \in E
    <3> SUFFICES ASSUME NEW i \in 1..k PROVE i \in E
      OBVIOUS
    <3>1. i \in 1..n /\ i <= k
      BY <1>1
    <3>2. seen[k].age <= seen[i].age /\ seen[k].age \in Nat /\ seen[i].age \in Nat
      BY <3>1, <1>1, EntryAt DEF OldestFirst
    <3> QED BY <1>1, <1>6, <3>1, <3>2, RouterConstants DEF ExpiredPlaces, Expired
  <2>2. Cardinality(1..k) = k /\ 1..k \subseteq E
    BY <2>1, FS_Interval
  <2> QED BY <1>4, <2>2, FS_Subset
<1>7. ASSUME NEW k \in 1..n, ~Expired(seen[k])
      PROVE  ~(k <= Cardinality(E))
  <2>1. E \subseteq 1..(k - 1)
    <3> SUFFICES ASSUME NEW i \in E PROVE i \in 1..(k - 1)
      OBVIOUS
    <3>1. i \in 1..n /\ Expired(seen[i])
      BY <1>2 DEF ExpiredPlaces
    <3>2. ~(k <= i)
      <4> SUFFICES ASSUME k <= i PROVE FALSE
        OBVIOUS
      <4>1. seen[i].age <= seen[k].age /\ seen[k].age \in Nat /\ seen[i].age \in Nat
        BY <3>1, <1>1, EntryAt DEF OldestFirst
      <4> QED BY <1>7, <3>1, <4>1, RouterConstants DEF Expired
    <3> QED BY <3>1, <3>2
  <2>2. IsFiniteSet(1..(k - 1)) /\ Cardinality(1..(k - 1)) = k - 1
    BY FS_Interval
  <2>3. Cardinality(E) <= k - 1
    BY <2>1, <2>2, FS_Subset
  <2> HIDE DEF E
  <2> QED BY <2>3, <1>5
<1> HIDE DEF E
<1>8. Cardinality(E) \in 0..n
  BY <1>1, <1>4, <1>5
<1> QED BY <1>6, <1>7, <1>8 DEF E

LEMMA FreshFacts ==
    ASSUME seen \in Seq(Entries), OldestFirst(seen)
    PROVE  /\ Suffix(Fresh, seen)
           /\ \A k \in 1..Len(seen) : Expired(seen[k]) <=> k <= Len(seen) - Len(Fresh)
<1> DEFINE c == Cardinality(ExpiredPlaces)
<1>1. c \in 0..Len(seen) /\ \A k \in 1..Len(seen) : Expired(seen[k]) <=> k <= c
  BY ExpiredFirst
<1>2. Fresh = SubSeq(seen, c + 1, Len(seen))
  BY DEF Fresh
<1> HIDE DEF c
<1>3. Suffix(Fresh, seen) /\ Len(Fresh) = Len(seen) - c
  BY <1>1, <1>2, DropIsSuffix
<1>4. c = Len(seen) - Len(Fresh)
  BY <1>1, <1>3
<1> QED BY <1>1, <1>3, <1>4

\* The filter of the code: the table without the entries that have expired.
THEOREM FreshTheorem ==
    ASSUME seen \in Seq(Entries), OldestFirst(seen)
    PROVE  \A entry : (\E m \in DOMAIN Fresh : Fresh[m] = entry)
                          <=> (\E k \in DOMAIN seen : seen[k] = entry /\ ~Expired(entry))
<1> DEFINE d == Len(seen) - Len(Fresh)
<1>1. Suffix(Fresh, seen) /\ \A k \in 1..Len(seen) : Expired(seen[k]) <=> k <= d
  BY FreshFacts
<1>2. /\ d \in Nat /\ Len(Fresh) \in Nat /\ Len(seen) = d + Len(Fresh)
      /\ DOMAIN Fresh = 1..Len(Fresh) /\ DOMAIN seen = 1..Len(seen)
  BY <1>1 DEF Suffix
<1>3. ASSUME NEW m \in 1..Len(Fresh)
      PROVE  d + m \in 1..Len(seen) /\ Fresh[m] = seen[d + m] /\ ~Expired(seen[d + m])
  <2>1. Fresh[m] = seen[d + m]
    BY <1>1 DEF Suffix
  <2> HIDE DEF d
  <2>2. d + m \in 1..Len(seen) /\ ~(d + m <= d)
    BY <1>2
  <2> QED BY <1>1, <2>1, <2>2
<1>4. ASSUME NEW k \in 1..Len(seen), ~Expired(seen[k])
      PROVE  \E m \in 1..Len(Fresh) : Fresh[m] = seen[k]
  <2>1. k > d
    BY <1>1, <1>2, <1>4
  <2>2. k - d \in 1..Len(Fresh) /\ Fresh[k - d] = seen[k]
    BY <1>1, <2>1, SuffixAt
  <2> QED BY <2>2
<1> HIDE DEF d
<1> QED BY <1>2, <1>3, <1>4

LEMMA TrimmedFacts ==
    ASSUME NEW s \in Seq(Entries)
    PROVE  /\ Suffix(Trimmed(s), s)
           /\ Len(Trimmed(s)) = IF Len(s) > LIMIT THEN LIMIT ELSE Len(s)
<1>1. Len(s) \in Nat /\ LIMIT \in Nat
  BY RouterConstants
<1>2. CASE Len(s) > LIMIT
  <2>1. Len(s) - LIMIT \in 0..Len(s) /\ Trimmed(s) = SubSeq(s, Len(s) - LIMIT + 1, Len(s))
    BY <1>1, <1>2 DEF Trimmed
  <2>2. Suffix(Trimmed(s), s) /\ Len(Trimmed(s)) = Len(s) - (Len(s) - LIMIT)
    BY <2>1, DropIsSuffix
  <2> QED BY <1>1, <1>2, <2>2
<1>3. CASE ~(Len(s) > LIMIT)
  <2>1. Trimmed(s) = s
    BY <1>3 DEF Trimmed
  <2>2. Suffix(s, s)
    BY <1>1 DEF Suffix
  <2> QED BY <1>3, <2>1, <2>2
<1> QED BY <1>2, <1>3

NewEntry(packet) == [key |-> Key(packet), age |-> 0]

Table(packet) ==
    IF IsDuplicate(packet) THEN Fresh ELSE Trimmed(Append(Fresh, NewEntry(packet)))

\* The table after a packet: its entries are old ones that have not expired, or the
\* packet's own, and none that has not expired is lost but those that LIMIT others
\* have come after.
LEMMA TableFacts ==
    ASSUME seen \in Seq(Entries), OldestFirst(seen), NEW packet \in PacketRecords
    PROVE  /\ Table(packet) \in Seq(Entries)
           /\ OldestFirst(Table(packet))
           /\ \A m \in DOMAIN Table(packet) :
                \/ Table(packet)[m] = NewEntry(packet)
                \/ \E k \in DOMAIN seen : seen[k] = Table(packet)[m] /\ ~Expired(seen[k])
<1> DEFINE e == NewEntry(packet)
           a == Append(Fresh, e)
<1>1. Suffix(Fresh, seen) /\ Fresh \in Seq(Entries) /\ OldestFirst(Fresh)
  BY FreshFacts, SuffixOldestFirst DEF Suffix
<1>2. e \in Entries /\ e.age = 0
  BY DEF Entries, PacketRecords, Key, NewEntry
<1>3. \A m \in DOMAIN Fresh : \E k \in DOMAIN seen : seen[k] = Fresh[m] /\ ~Expired(seen[k])
  BY FreshTheorem
<1> HIDE DEF e
<1>4. /\ a \in Seq(Entries) /\ Len(a) = Len(Fresh) + 1
      /\ \A m \in 1..Len(Fresh) : a[m] = Fresh[m]
      /\ a[Len(Fresh) + 1] = e
  BY <1>1, <1>2, AppendProperties
<1>5. Len(Fresh) \in Nat /\ DOMAIN Fresh = 1..Len(Fresh) /\ DOMAIN a = 1..Len(a)
  BY <1>1, <1>4
<1> HIDE DEF a
<1>6. OldestFirst(a)
  <2> SUFFICES ASSUME NEW i \in 1..Len(a), NEW j \in 1..Len(a), i <= j
               PROVE  a[j].age <= a[i].age
    BY <1>5 DEF OldestFirst
  <2>1. CASE j = Len(Fresh) + 1
    BY <2>1, <1>2, <1>4, EntryAt
  <2>2. CASE j # Len(Fresh) + 1
    <3>1. i \in 1..Len(Fresh) /\ j \in 1..Len(Fresh)
      BY <2>2, <1>4, <1>5
    <3> QED BY <3>1, <1>1, <1>4, <1>5 DEF OldestFirst
  <2> QED BY <2>1, <2>2
<1>7. Suffix(Trimmed(a), a)
  BY <1>4, TrimmedFacts
<1>8. Trimmed(a) \in Seq(Entries) /\ OldestFirst(Trimmed(a))
  BY <1>4, <1>6, <1>7, SuffixOldestFirst DEF Suffix
<1>9. \A m \in DOMAIN a : a[m] = e \/ \E k \in DOMAIN seen : seen[k] = a[m] /\ ~Expired(seen[k])
  BY <1>3, <1>4, <1>5
<1>10. \A m \in DOMAIN Trimmed(a) : \E n \in DOMAIN a : Trimmed(a)[m] = a[n]
  <2> SUFFICES ASSUME NEW m \in 1..Len(Trimmed(a))
               PROVE  \E n \in 1..Len(a) : Trimmed(a)[m] = a[n]
    BY <1>5, <1>8
  <2>1. Trimmed(a)[m] = a[Len(a) - Len(Trimmed(a)) + m] /\ Len(Trimmed(a)) <= Len(a)
    BY <1>7 DEF Suffix
  <2>2. Len(a) - Len(Trimmed(a)) + m \in 1..Len(a)
    BY <1>4, <1>8, <2>1
  <2> QED BY <2>1, <2>2
<1>11. CASE IsDuplicate(packet)
  BY <1>11, <1>1, <1>3 DEF Table
<1>12. CASE ~IsDuplicate(packet)
  <2>1. Table(packet) = Trimmed(a)
    BY <1>12 DEF Table, a, e
  <2> QED BY <2>1, <1>8, <1>9, <1>10 DEF e
<1> QED BY <1>11, <1>12

\* Len(after) - m = Len(before) - k + n
Stays(before, k, after, m, n) == after[m] = before[k] /\ Len(after) - m = Len(before) - k + n

LEMMA TableKeeps ==
    ASSUME seen \in Seq(Entries), OldestFirst(seen), NEW packet \in PacketRecords,
           NEW k \in 1..Len(seen), ~Expired(seen[k])
    PROVE  /\ IsDuplicate(packet) =>
                \E m \in DOMAIN Table(packet) : Stays(seen, k, Table(packet), m, 0)
           /\ ~IsDuplicate(packet) /\ Len(seen) - k + 1 < LIMIT =>
                \E m \in DOMAIN Table(packet) : Stays(seen, k, Table(packet), m, 1)
<1> DEFINE d == Len(seen) - Len(Fresh)
           e == NewEntry(packet)
           a == Append(Fresh, e)
<1>1. Suffix(Fresh, seen) /\ \A i \in 1..Len(seen) : Expired(seen[i]) <=> i <= d
  BY FreshFacts
<1>2. /\ d \in Nat /\ Len(Fresh) \in Nat /\ Len(seen) = d + Len(Fresh)
      /\ Fresh \in Seq(Entries) /\ DOMAIN Fresh = 1..Len(Fresh) /\ Len(seen) \in Nat
  BY <1>1 DEF Suffix
<1>3. k > d
  BY <1>1, <1>2
<1>4. k - d \in 1..Len(Fresh) /\ Fresh[k - d] = seen[k]
  BY <1>1, <1>3, SuffixAt
<1>5. e \in Entries
  BY DEF Entries, PacketRecords, Key, NewEntry
<1> HIDE DEF e, d
<1>6. /\ a \in Seq(Entries) /\ Len(a) = Len(Fresh) + 1
      /\ \A m \in 1..Len(Fresh) : a[m] = Fresh[m]
  BY <1>2, <1>5, AppendProperties
<1> HIDE DEF a
<1>7. CASE IsDuplicate(packet)
  <2>1. Table(packet) = Fresh
    BY <1>7 DEF Table
  <2>2. Stays(seen, k, Fresh, k - d, 0)
    BY <1>2, <1>4 DEF Stays
  <2> QED BY <2>1, <2>2, <1>7, <1>2, <1>4
<1>8. CASE ~IsDuplicate(packet) /\ Len(seen) - k + 1 < LIMIT
  <2> DEFINE t == Trimmed(a)
             g == Len(a) - Len(t)
             p == k - d
  <2>1. Table(packet) = t
    BY <1>8 DEF Table, a, e
  <2>2. Suffix(t, a) /\ Len(t) = IF Len(a) > LIMIT THEN LIMIT ELSE Len(a)
    BY <1>6, TrimmedFacts
  <2>3. t \in Seq(Entries) /\ Len(t) \in Nat /\ DOMAIN t = 1..Len(t)
    BY <2>2 DEF Suffix
  <2> HIDE DEF t
  <2>4. p \in 1..Len(Fresh) /\ Len(seen) - k = Len(Fresh) - p /\ p \in 1..Len(a)
    BY <1>2, <1>4, <1>6
  <2>5. p > g
    <3>1. LIMIT \in Nat
      BY RouterConstants
    <3>2. Len(seen) - k + 1 < LIMIT
      BY <1>8
    <3>3. /\ Len(a) = Len(Fresh) + 1 /\ Len(Fresh) \in Nat /\ Len(seen) \in Nat
          /\ p \in Nat /\ 0 < p /\ Len(seen) - k = Len(Fresh) - p /\ k \in Nat
      BY <2>4, <1>2, <1>6
    <3> HIDE DEF p
    <3>4. Len(a) - p < LIMIT
      BY <3>1, <3>2, <3>3
    <3>5. CASE Len(a) > LIMIT
      BY <3>1, <3>3, <3>4, <3>5, <2>2 DEF g
    <3>6. CASE ~(Len(a) > LIMIT)
      BY <3>3, <3>6, <2>2 DEF g
    <3> QED BY <3>5, <3>6
  <2>6. p - g \in 1..Len(t) /\ t[p - g] = a[p]
    BY <1>6, <2>2, <2>4, <2>5, SuffixAt
  <2>7. a[p] = seen[k]
    BY <1>4, <1>6, <2>4
  <2>8. Len(t) - (p - g) = Len(seen) - k + 1
    BY <2>3, <2>4, <1>2, <1>6
  <2>9. Stays(seen, k, t, p - g, 1)
    BY <2>6, <2>7, <2>8 DEF Stays
  <2> QED BY <1>8, <2>1, <2>3, <2>6, <2>9
<1> QED BY <1>7, <1>8

LEMMA TableNew ==
    ASSUME seen \in Seq(Entries), OldestFirst(seen), NEW packet \in PacketRecords,
           ~IsDuplicate(packet)
    PROVE  \E m \in DOMAIN Table(packet) :
             Table(packet)[m] = NewEntry(packet) /\ m = Len(Table(packet))
<1> DEFINE e == NewEntry(packet)
           a == Append(Fresh, e)
           t == Trimmed(a)
<1>1. Fresh \in Seq(Entries)
  BY FreshFacts DEF Suffix
<1>2. e \in Entries
  BY DEF Entries, PacketRecords, Key, NewEntry
<1> HIDE DEF e
<1>3. a \in Seq(Entries) /\ Len(a) = Len(Fresh) + 1 /\ a[Len(Fresh) + 1] = e
  BY <1>1, <1>2, AppendProperties
<1>4. Table(packet) = t
  BY DEF Table, e
<1> HIDE DEF a
<1>5. Suffix(t, a) /\ Len(t) = IF Len(a) > LIMIT THEN LIMIT ELSE Len(a)
  BY <1>3, TrimmedFacts
<1>6. t \in Seq(Entries) /\ Len(t) \in Nat /\ DOMAIN t = 1..Len(t) /\ Len(Fresh) \in Nat
  BY <1>1, <1>5 DEF Suffix
<1> HIDE DEF t
<1>7. Len(t) \in 1..Len(t) /\ Len(a) \in 1..Len(a) /\ Len(a) > Len(a) - Len(t)
      /\ Len(a) - (Len(a) - Len(t)) = Len(t)
  <2>1. LIMIT \in Nat /\ 0 < LIMIT
    BY RouterConstants
  <2>2. Len(t) > 0 /\ Len(a) > 0 /\ Len(a) \in Nat
    BY <2>1, <1>3, <1>5, <1>6
  <2> QED BY <2>2, <1>6
<1>8. t[Len(t)] = a[Len(a)]
  <2>1. t[Len(a) - (Len(a) - Len(t))] = a[Len(a)]
    BY <1>3, <1>5, <1>7, SuffixAt
  <2> QED BY <1>7, <2>1
<1> QED BY <1>3, <1>4, <1>6, <1>7, <1>8 DEF e

-----------------------------------------------------------------------------
(* The packets. *)

LEMMA PacketAt ==
    ASSUME packets \in Seq(PacketRecords), NEW i \in DOMAIN packets
    PROVE  /\ packets[i] \in PacketRecords
           /\ packets[i].age \in Nat /\ packets[i].later \in Nat
           /\ packets[i].copies \in 0..MaxCopies /\ packets[i].published \in BOOLEAN
           /\ packets[i].boot \in Nat /\ packets[i].seq \in Nat
           /\ packets[i].source \in Sources
<1>1. packets[i] \in PacketRecords
  BY ElementOfSeq
<1> QED BY <1>1 DEF PacketRecords

\* What the handlers and the time leave of a packet.
SameIdentity(p, q) == q.source = p.source /\ q.seq = p.seq /\ q.boot = p.boot

LEMMA SettledFacts ==
    ASSUME NEW p \in PacketRecords
    PROVE  /\ Settled(p) \in PacketRecords
           /\ SameIdentity(p, Settled(p))
           /\ Settled(p).age = p.age
           /\ p.copies > 0 => Settled(p).copies > 0
           /\ Settled(p).published => p.published /\ Settled(p).later = p.later
<1> DEFINE q == [p EXCEPT !.copies = MaxCopies, !.published = FALSE, !.later = 0]
<1>1. MaxCopies \in 0..MaxCopies /\ (p.copies > 0 => MaxCopies > 0)
  BY RouterConstants DEF PacketRecords
<1>2. /\ q \in PacketRecords /\ SameIdentity(p, q) /\ q.age = p.age
      /\ q.copies = MaxCopies /\ q.published = FALSE
  BY <1>1 DEF PacketRecords, SameIdentity
<1>3. Settled(p) = p \/ Settled(p) = q
  BY DEF Settled
<1>4. p \in PacketRecords /\ SameIdentity(p, p)
  BY DEF SameIdentity
<1> HIDE DEF q
<1> QED BY <1>1, <1>2, <1>3, <1>4

LEMMA DeliveredFacts ==
    ASSUME NEW p \in PacketRecords, Deliverable(p)
    PROVE  /\ Delivered(p) \in PacketRecords
           /\ SameIdentity(p, Delivered(p))
           /\ Delivered(p).age = p.age /\ Delivered(p).later = p.later
           /\ Delivered(p).copies > 0
           /\ Delivered(p).published <=> p.published \/ Publishes(p)
<1> DEFINE b == p.published \/ Publishes(p)
           c == p.copies + 1
<1>1. c \in 0..MaxCopies /\ c > 0
  BY RouterConstants DEF PacketRecords, Deliverable
<1>2. b \in BOOLEAN
  BY DEF Publishes, Takes
<1>3. Delivered(p) = [p EXCEPT !.copies = c, !.published = b]
  BY DEF Delivered, PacketRecords
<1> HIDE DEF b, c
<1>4. [p EXCEPT !.copies = c, !.published = b] \in PacketRecords
  BY <1>1, <1>2 DEF PacketRecords
<1>5. /\ Delivered(p).copies = c /\ (Delivered(p).published <=> b)
      /\ Delivered(p).age = p.age /\ Delivered(p).later = p.later
      /\ SameIdentity(p, Delivered(p))
  BY <1>3 DEF PacketRecords, SameIdentity
<1> QED BY <1>1, <1>3, <1>4, <1>5 DEF b

LEMMA OvertakenFacts ==
    ASSUME NEW p \in PacketRecords
    PROVE  /\ Overtaken(p) \in PacketRecords
           /\ SameIdentity(p, Overtaken(p))
           /\ Overtaken(p).age = p.age /\ Overtaken(p).copies = p.copies
           /\ Overtaken(p).published = p.published
           /\ p.published /\ p.later < LIMIT => Overtaken(p).later = p.later + 1
           /\ ~(p.published /\ p.later < LIMIT) => Overtaken(p) = p
BY DEF PacketRecords, Overtaken, SameIdentity

Aged(p) == [p EXCEPT !.age = Older(@)]

LEMMA AgedFacts ==
    ASSUME NEW p \in PacketRecords
    PROVE  /\ Aged(p) \in PacketRecords
           /\ SameIdentity(p, Aged(p))
           /\ Aged(p).age = Older(p.age) /\ Aged(p).copies = p.copies
           /\ Aged(p).published = p.published /\ Aged(p).later = p.later
<1>1. Older(p.age) \in Nat
  BY OlderFacts DEF PacketRecords
<1> QED BY <1>1 DEF PacketRecords, Aged, SameIdentity

\* What a step that sends nothing keeps of the packets.
Kept ==
    /\ packets' \in Seq(PacketRecords) /\ DOMAIN packets' = DOMAIN packets
    /\ \A i \in DOMAIN packets :
         /\ SameIdentity(packets[i], packets'[i])
         /\ packets[i].copies > 0 => packets'[i].copies > 0

\* The packets after a delivery of number i.
Arrived(i, j) ==
    CASE j = i -> Settled(Delivered(packets[i]))
      [] j # i /\ Takes(packets[i]) -> Overtaken(packets[j])
      [] OTHER -> packets[j]

LEMMA MappedSeq ==
    ASSUME NEW S, NEW s \in Seq(S), NEW T, NEW f, f = [i \in DOMAIN s |-> f[i]],
           \A i \in DOMAIN s : f[i] \in T
    PROVE  f \in Seq(T) /\ DOMAIN f = DOMAIN s /\ Len(f) = Len(s)
<1>1. Len(s) \in Nat /\ DOMAIN s = 1..Len(s)
  OBVIOUS
<1>2. f \in [1..Len(s) -> T]
  BY <1>1
<1> QED BY <1>1, <1>2, IsASeq, LenProperties

LEMMA ArrivedFacts ==
    ASSUME packets \in Seq(PacketRecords), NEW i \in DOMAIN packets,
           Deliverable(packets[i]), NEW j \in DOMAIN packets
    PROVE  /\ Arrived(i, j) \in PacketRecords
           /\ SameIdentity(packets[j], Arrived(i, j))
           /\ Arrived(i, j).age = packets[j].age
           /\ packets[j].copies > 0 => Arrived(i, j).copies > 0
           /\ j = i => Arrived(i, j).copies > 0
           /\ Arrived(i, j).published =>
                packets[j].published \/ (j = i /\ Publishes(packets[i]))
           /\ j = i /\ Arrived(i, j).published => Arrived(i, j).later = packets[j].later
           /\ j # i => Arrived(i, j).published = packets[j].published
           /\ j # i /\ ~Takes(packets[i]) => Arrived(i, j) = packets[j]
           /\ j # i /\ Takes(packets[i]) => Arrived(i, j) = Overtaken(packets[j])
<1>1. packets[j] \in PacketRecords /\ packets[i] \in PacketRecords
  BY PacketAt
<1>2. CASE j = i
  <2> DEFINE d == Delivered(packets[i])
  <2>1. /\ d \in PacketRecords /\ SameIdentity(packets[i], d) /\ d.age = packets[i].age
        /\ d.later = packets[i].later /\ d.copies > 0
        /\ d.published => packets[i].published \/ Publishes(packets[i])
    BY <1>1, DeliveredFacts
  <2>2. Arrived(i, j) = Settled(d)
    BY <1>2 DEF Arrived
  <2> HIDE DEF d
  <2>3. /\ Settled(d) \in PacketRecords /\ SameIdentity(d, Settled(d))
        /\ Settled(d).age = d.age /\ Settled(d).copies > 0
        /\ Settled(d).published => d.published /\ Settled(d).later = d.later
    BY <2>1, SettledFacts
  <2>4. SameIdentity(packets[i], Settled(d))
    BY <2>1, <2>3 DEF SameIdentity
  <2> QED BY <1>2, <2>1, <2>2, <2>3, <2>4
<1>3. CASE j # i /\ Takes(packets[i])
  <2>1. Arrived(i, j) = Overtaken(packets[j])
    BY <1>3 DEF Arrived
  <2> QED BY <1>1, <1>3, <2>1, OvertakenFacts
<1>4. CASE j # i /\ ~Takes(packets[i])
  <2>1. Arrived(i, j) = packets[j]
    BY <1>4 DEF Arrived
  <2> QED BY <1>1, <1>4, <2>1 DEF SameIdentity
<1> QED BY <1>2, <1>3, <1>4

LEMMA DeliverPackets ==
    ASSUME RouterInv, NEW i \in DOMAIN packets, Deliver(i)
    PROVE  /\ Kept
           /\ Len(packets') = Len(packets)
           /\ \A j \in DOMAIN packets : packets'[j] = Arrived(i, j)
<1>1. packets \in Seq(PacketRecords)
  BY DEF RouterInv, TypeOK
<1>2. packets' = [j \in DOMAIN packets |-> Arrived(i, j)]
  BY DEF Deliver, Arrived
<1>3. \A j \in DOMAIN packets : packets'[j] = Arrived(i, j)
  BY <1>2
<1>4. Deliverable(packets[i])
  BY DEF Deliver
<1>5. \A j \in DOMAIN packets :
         /\ Arrived(i, j) \in PacketRecords
         /\ SameIdentity(packets[j], Arrived(i, j))
         /\ packets[j].copies > 0 => Arrived(i, j).copies > 0
  BY <1>1, <1>4, ArrivedFacts
<1>6. packets' = [j \in DOMAIN packets |-> packets'[j]]
  BY <1>2, <1>3
<1>7. \A j \in DOMAIN packets : packets'[j] \in PacketRecords
  BY <1>3, <1>5
<1>8. packets' \in Seq(PacketRecords) /\ DOMAIN packets' = DOMAIN packets
      /\ Len(packets') = Len(packets)
  BY <1>1, <1>6, <1>7, MappedSeq
<1> QED BY <1>3, <1>5, <1>8 DEF Kept

LEMMA DeliverTable ==
    ASSUME NEW i \in DOMAIN packets, Deliver(i)
    PROVE  seen' = IF listening THEN Table(packets[i]) ELSE seen
BY DEF Deliver, Remember, Table, NewEntry

LEMMA ComesFromLater ==
    ASSUME NEW entry, NEW p, NEW q, ComesFrom(entry, p), SameIdentity(p, q),
           p.copies > 0 => q.copies > 0, q.age = p.age
    PROVE  ComesFrom(entry, q)
BY DEF ComesFrom, SameIdentity, Key

LEMMA NotExpired ==
    ASSUME RouterInv, NEW k \in DOMAIN seen, NEW p \in PacketRecords,
           Remembers(seen, k, p), p.age <= WINDOW
    PROVE  ~Expired(seen[k])
<1>1. seen[k].age \in Nat /\ p.age \in Nat /\ seen[k].age <= p.age
  BY EntryAt DEF RouterInv, TypeOK, PacketRecords, Remembers
<1> QED BY <1>1, RouterConstants DEF Expired

\* What an entry tells of a packet it goes on to tell when n others come after it.
LEMMA RemembersLater ==
    ASSUME NEW before \in Seq(Entries), NEW after \in Seq(Entries),
           NEW k \in DOMAIN before, NEW m \in DOMAIN after,
           NEW p \in PacketRecords, NEW q \in PacketRecords, NEW n \in Nat,
           Remembers(before, k, p), Stays(before, k, after, m, n),
           SameIdentity(p, q), q.age = p.age, q.later = p.later + n
    PROVE  Remembers(after, m, q)
<1>1. after[m].key = Key(q) /\ after[m].age <= q.age
  BY DEF Remembers, Stays, SameIdentity, Key
<1>2. /\ Len(after) - m = Len(before) - k + n
      /\ Len(before) - k <= p.later
  BY DEF Remembers, Stays
<1>3. Len(before) \in Nat /\ k \in Nat /\ p.later \in Nat
  BY DEF PacketRecords
<1>4. Len(after) - m <= q.later
  BY <1>2, <1>3
<1> QED BY <1>1, <1>4 DEF Remembers

LEMMA KeptNumbers ==
    ASSUME NumberInv, Kept, UNCHANGED <<boot, sequence>>
    PROVE  NumberInv'
<1>1. /\ DOMAIN packets' = DOMAIN packets
      /\ \A j \in DOMAIN packets :
            packets'[j].seq = packets[j].seq /\ packets'[j].boot = packets[j].boot
  BY DEF Kept, SameIdentity
<1> QED BY <1>1 DEF NumberInv

LEMMA DeliverStep ==
    ASSUME RouterInv, NEW i \in DOMAIN packets, Deliver(i)
    PROVE  RouterInv'
<1> DEFINE p == packets[i]
<1>1. packets \in Seq(PacketRecords) /\ seen \in Seq(Entries) /\ OldestFirst(seen)
  BY DEF RouterInv, TypeOK
<1>2. /\ Kept /\ DOMAIN packets' = DOMAIN packets /\ packets' \in Seq(PacketRecords)
      /\ \A j \in DOMAIN packets : packets'[j] = Arrived(i, j)
  BY DeliverPackets DEF Kept
<1>3. Deliverable(p) /\ p \in PacketRecords
  BY <1>1, PacketAt DEF Deliver
<1>4. UNCHANGED <<gateway, boot, sequence, starting, stopping, listening, timer,
                  heartbeatRunning, commands>>
  BY DEF Deliver, life, heartbeat
<1>5. seen' = IF listening THEN Table(p) ELSE seen
  BY DeliverTable
<1>6. /\ Table(p) \in Seq(Entries) /\ OldestFirst(Table(p))
      /\ \A m \in DOMAIN Table(p) :
                \/ Table(p)[m] = NewEntry(p)
                \/ \E k \in DOMAIN seen : seen[k] = Table(p)[m] /\ ~Expired(seen[k])
  BY <1>1, <1>3, TableFacts
<1>7. \A j \in DOMAIN packets :
           /\ packets'[j] \in PacketRecords /\ packets[j] \in PacketRecords
           /\ SameIdentity(packets[j], packets'[j])
           /\ packets'[j].age = packets[j].age
           /\ packets[j].copies > 0 => packets'[j].copies > 0
           /\ j = i => packets'[j].copies > 0
           /\ packets'[j].published => packets[j].published \/ (j = i /\ Publishes(p))
           /\ j = i /\ packets'[j].published => packets'[j].later = packets[j].later
           /\ j # i => packets'[j].published = packets[j].published
           /\ j # i /\ ~Takes(p) => packets'[j] = packets[j]
           /\ j # i /\ Takes(p) => packets'[j] = Overtaken(packets[j])
  BY <1>1, <1>2, <1>3, ArrivedFacts, PacketAt
<1> HIDE DEF p
<1>8. TypeOK'
  BY <1>1, <1>2, <1>4, <1>5, <1>6 DEF RouterInv, TypeOK
<1>9. FlagInv'
  BY <1>4 DEF RouterInv, FlagInv
<1>10. LifeInv'
  BY <1>2, <1>4, <1>7 DEF RouterInv, LifeInv, Publishes, Takes
<1>11. NumberInv'
  BY <1>2, <1>4, KeptNumbers DEF RouterInv
<1>12. OldestFirst(seen')
  BY <1>1, <1>5, <1>6
<1>13. EntryInv'
  <2> SUFFICES ASSUME NEW m \in DOMAIN seen', ~Expired(seen'[m])
               PROVE  \E j \in DOMAIN packets' : ComesFrom(seen'[m], packets'[j])
    BY DEF EntryInv, Expired
  <2>1. CASE \E k \in DOMAIN seen : seen[k] = seen'[m] /\ ~Expired(seen[k])
    <3>1. PICK k \in DOMAIN seen : seen[k] = seen'[m] /\ ~Expired(seen[k])
      BY <2>1
    <3>2. PICK j \in DOMAIN packets : ComesFrom(seen[k], packets[j])
      BY <3>1 DEF RouterInv, EntryInv
    <3>3. ComesFrom(seen[k], packets'[j])
      BY <3>2, <1>7, ComesFromLater
    <3> QED BY <1>2, <3>1, <3>3
  <2>2. CASE ~\E k \in DOMAIN seen : seen[k] = seen'[m] /\ ~Expired(seen[k])
    <3>1. seen'[m] = NewEntry(p)
      BY <2>2, <1>5, <1>6
    <3>2. ComesFrom(seen'[m], packets'[i])
      <4>1. p.age <= MaxDelay /\ p = packets[i]
        BY <1>3 DEF Deliverable, p
      <4>2. /\ packets'[i].age = p.age /\ packets'[i].copies > 0
            /\ SameIdentity(p, packets'[i])
        BY <1>7, <4>1
      <4>3. seen'[m].key = Key(p) /\ seen'[m].age = 0
        BY <3>1 DEF NewEntry
      <4>4. packets'[i].age <= seen'[m].age + MaxDelay
        BY <4>1, <4>2, <4>3, RouterConstants
      <4> QED BY <4>2, <4>3, <4>4 DEF ComesFrom, SameIdentity, Key
    <3> QED BY <1>2, <3>2
  <2> QED BY <2>1, <2>2
<1>14. PublishedInv'
  <2> SUFFICES ASSUME NEW j \in DOMAIN packets, packets'[j].published, listening,
                      packets'[j].later < LIMIT, packets'[j].age <= WINDOW
               PROVE  \E m \in DOMAIN Table(p) : Remembers(Table(p), m, packets'[j])
    BY <1>2, <1>4, <1>5 DEF PublishedInv, Matters, Remembers, Key
  <2> DEFINE t == Table(p)
             q == packets'[j]
             o == packets[j]
  <2>1. /\ q \in PacketRecords /\ o \in PacketRecords /\ SameIdentity(o, q)
        /\ q.age = o.age /\ q.later < LIMIT /\ o.age <= WINDOW /\ t \in Seq(Entries)
    BY <1>6, <1>7
  <2>2. ASSUME o.published, o.later < LIMIT
        PROVE  \E k \in DOMAIN seen : Remembers(seen, k, o) /\ ~Expired(seen[k])
    <3>1. Matters(o)
      BY <2>1, <2>2 DEF Matters
    <3>2. PICK k \in DOMAIN seen : Remembers(seen, k, o)
      BY <3>1 DEF RouterInv, PublishedInv
    <3> QED BY <2>1, <3>2, NotExpired
  <2>3. CASE IsDuplicate(p)
    <3>1. ~Takes(p) /\ ~Publishes(p)
      BY <2>3 DEF Takes, Publishes
    <3>2. o.published /\ q.later = o.later /\ o.later < LIMIT
      BY <3>1, <1>7, <2>1
    <3>3. PICK k \in DOMAIN seen : Remembers(seen, k, o) /\ ~Expired(seen[k])
      BY <3>2, <2>2
    <3>4. k \in 1..Len(seen)
      BY <1>1
    <3>5. PICK m \in DOMAIN t : Stays(seen, k, t, m, 0)
      BY <1>1, <1>3, <2>3, <3>3, <3>4, TableKeeps
    <3> HIDE DEF t, q, o
    <3>6. q.later = o.later + 0
      BY <3>2, <2>1 DEF PacketRecords
    <3>7. Remembers(t, m, q)
      BY <1>1, <2>1, <3>3, <3>5, <3>6, RemembersLater
    <3> QED BY <3>7 DEF t, q
  <2>4. CASE ~IsDuplicate(p) /\ j = i
    <3>1. PICK m \in DOMAIN t : t[m] = NewEntry(p) /\ m = Len(t)
      BY <1>1, <1>3, <2>4, TableNew
    <3>2. o = p
      BY <2>4 DEF p
    <3> HIDE DEF t, q, o
    <3>3. t[m].key = Key(q) /\ t[m].age = 0
      BY <3>1, <3>2, <2>1 DEF NewEntry, SameIdentity, Key
    <3>4. Len(t) - m <= q.later /\ 0 <= q.age
      <4>1. Len(t) \in Nat /\ q.later \in Nat /\ q.age \in Nat
        BY <2>1 DEF PacketRecords
      <4> QED BY <4>1, <3>1
    <3>5. Remembers(t, m, q)
      BY <3>3, <3>4 DEF Remembers
    <3> QED BY <3>5 DEF t, q
  <2>5. CASE ~IsDuplicate(p) /\ j # i
    <3>1. Takes(p)
      BY <2>5 DEF Takes
    <3>2. q = Overtaken(o) /\ o.published
      BY <3>1, <2>5, <1>7
    <3>3. o.later < LIMIT /\ q.later = o.later + 1
      BY <3>2, <2>1, OvertakenFacts
    <3>4. PICK k \in DOMAIN seen : Remembers(seen, k, o) /\ ~Expired(seen[k])
      BY <3>2, <3>3, <2>2
    <3>5. k \in 1..Len(seen)
      BY <1>1
    <3>6. Len(seen) - k + 1 < LIMIT
      <4>1. Len(seen) \in Nat /\ k \in Nat /\ o.later \in Nat /\ Len(seen) - k <= o.later
        BY <3>4, <3>5, <2>1 DEF Remembers, PacketRecords
      <4> HIDE DEF q, o
      <4> QED BY <4>1, <3>3, <2>1, RouterConstants
    <3>7. PICK m \in DOMAIN t : Stays(seen, k, t, m, 1)
      BY <1>1, <1>3, <2>5, <3>4, <3>5, <3>6, TableKeeps
    <3> HIDE DEF t, q, o
    <3>8. Remembers(t, m, q)
      BY <1>1, <2>1, <3>3, <3>4, <3>7, RemembersLater
    <3> QED BY <3>8 DEF t, q
  <2> QED BY <2>3, <2>4, <2>5
<1> QED BY <1>8, <1>9, <1>10, <1>11, <1>12, <1>13, <1>14 DEF RouterInv

LEMMA TickStep ==
    ASSUME RouterInv, Tick
    PROVE  RouterInv'
<1>1. packets \in Seq(PacketRecords) /\ seen \in Seq(Entries) /\ OldestFirst(seen)
  BY DEF RouterInv, TypeOK
<1>2. UNCHANGED <<gateway, boot, sequence, starting, stopping, listening, timer,
                  heartbeatRunning, commands>>
  BY DEF Tick, life, heartbeat
<1>3. packets' = [i \in DOMAIN packets |-> Settled(Aged(packets[i]))]
  BY DEF Tick, Aged
<1>4. \A i \in DOMAIN packets : packets'[i] = Settled(Aged(packets[i]))
  BY <1>3
<1>5. \A i \in DOMAIN packets :
           /\ packets[i] \in PacketRecords /\ packets'[i] \in PacketRecords
           /\ SameIdentity(packets[i], packets'[i])
           /\ packets'[i].age = Older(packets[i].age)
           /\ packets[i].copies > 0 => packets'[i].copies > 0
           /\ packets'[i].published =>
                packets[i].published /\ packets'[i].later = packets[i].later
  <2> SUFFICES ASSUME NEW i \in DOMAIN packets
               PROVE  /\ packets[i] \in PacketRecords /\ packets'[i] \in PacketRecords
                      /\ SameIdentity(packets[i], packets'[i])
                      /\ packets'[i].age = Older(packets[i].age)
                      /\ packets[i].copies > 0 => packets'[i].copies > 0
                      /\ packets'[i].published =>
                            packets[i].published /\ packets'[i].later = packets[i].later
    OBVIOUS
  <2> DEFINE a == Aged(packets[i])
  <2>1. packets[i] \in PacketRecords /\ packets'[i] = Settled(a)
    BY <1>1, <1>4, PacketAt
  <2>2. /\ a \in PacketRecords /\ SameIdentity(packets[i], a)
        /\ a.age = Older(packets[i].age) /\ a.copies = packets[i].copies
        /\ a.published = packets[i].published /\ a.later = packets[i].later
    BY <2>1, AgedFacts
  <2> HIDE DEF a
  <2> QED BY <2>1, <2>2, SettledFacts DEF SameIdentity
<1>6. /\ packets' \in Seq(PacketRecords) /\ DOMAIN packets' = DOMAIN packets
  <2>1. packets' = [i \in DOMAIN packets |-> packets'[i]]
    BY <1>3, <1>4
  <2> QED BY <1>1, <1>5, <2>1, MappedSeq
<1>7. Kept
  BY <1>5, <1>6 DEF Kept
<1>8. /\ seen' = [k \in DOMAIN seen |-> [seen[k] EXCEPT !.age = Older(@)]]
      /\ \A k \in DOMAIN seen : seen'[k] = [seen[k] EXCEPT !.age = Older(@)]
  BY DEF Tick
<1>9. \A k \in DOMAIN seen :
           /\ seen[k] \in Entries /\ seen'[k] \in Entries /\ seen[k].age \in Nat
           /\ seen'[k].key = seen[k].key /\ seen'[k].age = Older(seen[k].age)
  <2> SUFFICES ASSUME NEW k \in DOMAIN seen
               PROVE  /\ seen[k] \in Entries /\ seen'[k] \in Entries /\ seen[k].age \in Nat
                      /\ seen'[k].key = seen[k].key /\ seen'[k].age = Older(seen[k].age)
    OBVIOUS
  <2>1. seen[k] \in Entries /\ seen[k].age \in Nat
    BY <1>1, EntryAt
  <2>2. Older(seen[k].age) \in Nat
    BY <2>1, OlderFacts
  <2> QED BY <1>8, <2>1, <2>2 DEF Entries
<1>10. seen' \in Seq(Entries) /\ DOMAIN seen' = DOMAIN seen /\ Len(seen') = Len(seen)
  <2>1. seen' = [k \in DOMAIN seen |-> seen'[k]]
    BY <1>8
  <2> QED BY <1>1, <1>9, <2>1, MappedSeq
<1>11. TypeOK'
  BY <1>2, <1>6, <1>10 DEF RouterInv, TypeOK
<1>12. FlagInv' /\ LifeInv'
  BY <1>2, <1>5, <1>6 DEF RouterInv, FlagInv, LifeInv
<1>13. NumberInv'
  BY <1>2, <1>7, KeptNumbers DEF RouterInv
<1>14. OldestFirst(seen')
  <2> SUFFICES ASSUME NEW i \in DOMAIN seen, NEW j \in DOMAIN seen, i <= j
               PROVE  seen'[j].age <= seen'[i].age
    BY <1>10 DEF OldestFirst
  <2>1. seen[j].age <= seen[i].age /\ seen[i].age \in Nat /\ seen[j].age \in Nat
    BY <1>9 DEF RouterInv, OldestFirst
  <2> QED BY <1>9, <2>1, OlderFacts
<1>15. EntryInv'
  <2> SUFFICES ASSUME NEW k \in DOMAIN seen, ~(seen'[k].age > WINDOW)
               PROVE  \E j \in DOMAIN packets : ComesFrom(seen'[k], packets'[j])
    BY <1>6, <1>10 DEF EntryInv, Expired
  <2> DEFINE a == seen[k].age
  <2>1. a \in Nat /\ Older(a) <= WINDOW /\ seen'[k].age = Older(a)
        /\ seen'[k].key = seen[k].key
    <3>1. a \in Nat /\ seen'[k].age = Older(a) /\ seen'[k].key = seen[k].key
      BY <1>9
    <3>2. Older(a) <= WINDOW
      BY <3>1, OlderFacts
    <3> QED BY <3>1, <3>2
  <2>2. a <= WINDOW /\ Older(a) = a + 1
    BY <2>1, OlderFacts
  <2>3. ~Expired(seen[k])
    BY <2>2, <2>1, RouterConstants DEF Expired
  <2>4. PICK j \in DOMAIN packets : ComesFrom(seen[k], packets[j])
    BY <2>3 DEF RouterInv, EntryInv
  <2> DEFINE b == packets[j].age
  <2>5. b \in Nat /\ packets'[j].age = Older(b) /\ b <= a + MaxDelay
    BY <2>4, <1>1, <1>5, PacketAt DEF ComesFrom
  <2> HIDE DEF a, b
  <2>6. Older(b) <= (a + 1) + MaxDelay
    BY <2>1, <2>5, OlderFacts, RouterConstants
  <2>7. packets'[j].age <= seen'[k].age + MaxDelay
    BY <2>1, <2>2, <2>5, <2>6
  <2>8. Key(packets'[j]) = seen'[k].key /\ packets'[j].copies > 0
    BY <2>1, <2>4, <1>5 DEF ComesFrom, SameIdentity, Key
  <2> QED BY <2>7, <2>8 DEF ComesFrom
<1>16. PublishedInv'
  <2> SUFFICES ASSUME NEW i \in DOMAIN packets, packets'[i].published, listening,
                      packets'[i].later < LIMIT, packets'[i].age <= WINDOW
               PROVE  \E k \in DOMAIN seen : Remembers(seen', k, packets'[i])
    BY <1>2, <1>6, <1>10 DEF PublishedInv, Matters, Remembers, Key
  <2>1. packets[i].published /\ packets[i].later = packets'[i].later
        /\ packets'[i].age = Older(packets[i].age) /\ packets[i].age \in Nat
    BY <1>5, <1>1, PacketAt
  <2>2. packets[i].age <= WINDOW
    BY <2>1, OlderFacts
  <2>3. Matters(packets[i])
    BY <2>1, <2>2 DEF Matters
  <2>4. PICK k \in DOMAIN seen : Remembers(seen, k, packets[i])
    BY <2>3 DEF RouterInv, PublishedInv
  <2>5. seen'[k].age <= packets'[i].age
    BY <2>1, <2>4, <1>9, OlderFacts DEF Remembers
  <2>6. seen'[k].key = Key(packets'[i])
    BY <2>4, <1>5, <1>9 DEF Remembers, SameIdentity, Key
  <2>7. Len(seen') - k <= packets'[i].later
    BY <2>1, <2>4, <1>10 DEF Remembers
  <2> QED BY <2>5, <2>6, <2>7 DEF Remembers
<1> QED BY <1>11, <1>12, <1>13, <1>14, <1>15, <1>16 DEF RouterInv

LEMMA GatewaySendsStep ==
    ASSUME RouterInv, NEW source \in Sources, GatewaySends(source)
    PROVE  RouterInv'
<1> DEFINE p == Packet(source, sequence')
           n == Len(packets)
<1>1. /\ packets \in Seq(PacketRecords) /\ sequence \in Nat /\ boot \in Nat
      /\ n \in Nat /\ DOMAIN packets = 1..n
  BY DEF RouterInv, TypeOK
<1>2. /\ sequence' = sequence + 1 /\ packets' = Append(packets, p)
      /\ UNCHANGED <<gateway, boot, starting, stopping, listening, timer, heartbeatRunning,
                     commands, seen>>
  BY DEF GatewaySends, life, heartbeat
<1>3. p \in PacketRecords
  <2>1. 0 \in 0..MaxCopies
    BY RouterConstants
  <2> QED BY <1>1, <1>2, <2>1 DEF Packet, PacketRecords
<1>4. p.boot = boot /\ p.seq = sequence + 1 /\ p.published = FALSE
  BY <1>2 DEF Packet
<1> HIDE DEF p
<1>5. /\ packets' \in Seq(PacketRecords) /\ Len(packets') = n + 1
      /\ \A i \in 1..n : packets'[i] = packets[i]
      /\ packets'[n + 1] = p
  BY <1>1, <1>2, <1>3, AppendProperties
<1>6. DOMAIN packets' = 1..(n + 1)
  BY <1>5
<1> HIDE DEF n
<1>7. \A i \in DOMAIN packets' :
        \/ i \in DOMAIN packets /\ packets'[i] = packets[i]
        \/ i = n + 1 /\ packets'[i] = p
  BY <1>1, <1>5, <1>6
<1>8. \A i \in DOMAIN packets : i \in DOMAIN packets' /\ packets'[i] = packets[i]
  BY <1>1, <1>5, <1>6
<1>9. TypeOK'
  BY <1>1, <1>2, <1>5 DEF RouterInv, TypeOK
<1>10. FlagInv' /\ LifeInv'
  BY <1>2, <1>4, <1>7 DEF RouterInv, FlagInv, LifeInv
<1>11. NumberInv'
  <2>1. \A i \in DOMAIN packets : packets[i].boot \in Nat /\ packets[i].seq \in Nat
    BY <1>1, PacketAt
  <2>2. \A i \in DOMAIN packets' :
          packets'[i].boot <= boot /\ (packets'[i].boot = boot => packets'[i].seq <= sequence + 1)
    BY <2>1, <1>1, <1>4, <1>7 DEF RouterInv, NumberInv
  <2>3. \A i \in DOMAIN packets : packets[i].boot = boot => packets[i].seq # sequence + 1
    BY <2>1, <1>1 DEF RouterInv, NumberInv
  <2>4. ASSUME NEW i \in DOMAIN packets', NEW j \in DOMAIN packets',
               i # j, packets'[i].boot = packets'[j].boot
        PROVE  packets'[i].seq # packets'[j].seq
    <3>1. CASE i \in DOMAIN packets /\ j \in DOMAIN packets
      BY <3>1, <2>4, <1>8 DEF RouterInv, NumberInv
    <3>2. CASE i \in DOMAIN packets /\ j \notin DOMAIN packets
      BY <3>2, <2>3, <2>4, <1>4, <1>7
    <3>3. CASE i \notin DOMAIN packets /\ j \in DOMAIN packets
      BY <3>3, <2>3, <2>4, <1>4, <1>7
    <3>4. CASE i \notin DOMAIN packets /\ j \notin DOMAIN packets
      BY <3>4, <2>4, <1>7
    <3> QED BY <3>1, <3>2, <3>3, <3>4
  <2> QED BY <2>2, <2>4, <1>2 DEF NumberInv
<1>12. OldestFirst(seen')
  BY <1>2 DEF RouterInv
<1>13. EntryInv'
  BY <1>2, <1>8 DEF RouterInv, EntryInv, Expired, ComesFrom, Key
<1>14. PublishedInv'
  BY <1>2, <1>4, <1>7 DEF RouterInv, PublishedInv, Matters, Remembers, Key
<1> QED BY <1>9, <1>10, <1>11, <1>12, <1>13, <1>14 DEF RouterInv

LEMMA GatewayRebootsStep ==
    ASSUME RouterInv, GatewayReboots
    PROVE  RouterInv'
<1>1. /\ boot' = boot + 1 /\ sequence' = 0
      /\ UNCHANGED <<gateway, packets, starting, stopping, listening, timer, heartbeatRunning,
                     commands, seen>>
  BY DEF GatewayReboots, life, heartbeat
<1>2. TypeOK' /\ FlagInv' /\ LifeInv' /\ OldestFirst(seen')
  BY <1>1 DEF RouterInv, TypeOK, FlagInv, LifeInv
<1>3. NumberInv'
  <2>1. boot \in Nat /\ \A i \in DOMAIN packets : packets[i].boot \in Nat
    BY PacketAt DEF RouterInv, TypeOK
  <2> QED BY <1>1, <2>1 DEF RouterInv, NumberInv
<1>4. EntryInv' /\ PublishedInv'
  BY <1>1 DEF RouterInv, EntryInv, PublishedInv, Expired, ComesFrom, Matters, Remembers, Key
<1> QED BY <1>2, <1>3, <1>4 DEF RouterInv

\* The steps that concern neither the packets nor, but for Stop, the table.
Heartbeat ==
    \/ Start \/ Stop \/ TimerFires \/ DevicesChange
    \/ \E ok \in BOOLEAN : CommandSettles(ok)

LEMMA HeartbeatStep ==
    ASSUME RouterInv, Heartbeat
    PROVE  RouterInv'
<1>1. UNCHANGED <<boot, sequence, packets>> /\ (seen' = seen \/ (seen' = <<>> /\ Stop))
  BY DEF Heartbeat, Start, Stop, TimerFires, DevicesChange, CommandSettles, air
<1>2. TypeOK' /\ FlagInv'
  <2>1. seen' \in Seq(Entries)
    BY <1>1, EmptySeq DEF RouterInv, TypeOK
  <2>2. /\ {gateway, starting, stopping, listening, timer} \subseteq BOOLEAN
        /\ heartbeatRunning \in BOOLEAN /\ commands \in {0, 1} /\ FlagInv
    BY DEF RouterInv, TypeOK
  <2>3. /\ {gateway', starting', stopping', listening', timer'} \subseteq BOOLEAN
    BY <2>2 DEF Heartbeat, Start, Stop, TimerFires, DevicesChange, CommandSettles, Sends, life
  <2>4. heartbeatRunning' \in BOOLEAN /\ commands' \in {0, 1} /\ FlagInv'
    <3> DEFINE Same == UNCHANGED heartbeat
               Sent == Sends /\ heartbeatRunning' = TRUE /\ commands' = commands + 1
               Ends == \E ok \in BOOLEAN : CommandSettles(ok)
               Goal == heartbeatRunning' \in BOOLEAN /\ commands' \in {0, 1} /\ FlagInv'
    <3>1. Same => Goal
      BY <2>2 DEF heartbeat, FlagInv
    <3>2. Sent => Goal
      BY <2>2 DEF Sends, Silent, FlagInv
    <3>3. Ends => Goal
      <4> SUFFICES ASSUME Ends PROVE Goal
        OBVIOUS
      <4>1. commands > 0 /\ commands' = commands - 1 /\ heartbeatRunning' = FALSE
        BY DEF CommandSettles, Finished
      <4>2. commands' \in {0, 1} /\ commands' # 1
        BY <4>1, <2>2
      <4>3. FlagInv'
        BY <4>1, <4>2 DEF FlagInv
      <4> QED BY <4>1, <4>2, <4>3
    <3>4. HeartbeatTick => Same \/ Sent
      BY DEF HeartbeatTick
    <3>5. HeartbeatTick \/ Same \/ Ends
      BY DEF Heartbeat, Start, Stop, TimerFires, DevicesChange
    <3> HIDE DEF Same, Sent, Ends, Goal
    <3>6. Goal
      BY <3>1, <3>2, <3>3, <3>4, <3>5
    <3> QED BY <3>6 DEF Goal
  <2> QED BY <1>1, <2>1, <2>3, <2>4 DEF RouterInv, TypeOK
<1>3. LifeInv' /\ (listening' => listening \/ Start)
  BY <1>1 DEF RouterInv, LifeInv, Heartbeat, Start, Stop, TimerFires, DevicesChange,
          CommandSettles, life, TypeOK
<1>4. NumberInv' /\ OldestFirst(seen')
  BY <1>1 DEF RouterInv, NumberInv, OldestFirst
<1>5. EntryInv'
  BY <1>1 DEF RouterInv, EntryInv, Expired, ComesFrom, Key
<1>6. PublishedInv'
  <2>1. CASE Start
    <3>1. \A i \in DOMAIN packets : ~packets[i].published
      BY <2>1 DEF RouterInv, LifeInv, Start
    <3> QED BY <1>1, <3>1 DEF PublishedInv, Matters
  <2>2. CASE Stop
    <3>1. ~listening'
      BY <2>2 DEF Stop
    <3> QED BY <3>1 DEF PublishedInv, Matters
  <2>3. CASE ~Start /\ ~Stop
    BY <2>3, <1>1, <1>3 DEF RouterInv, PublishedInv, Matters, Remembers, Key
  <2> QED BY <2>1, <2>2, <2>3
<1> QED BY <1>2, <1>3, <1>4, <1>5, <1>6 DEF RouterInv

LEMMA RouterInit == Init => RouterInv
<1> SUFFICES ASSUME Init PROVE RouterInv
  OBVIOUS
<1>1. /\ packets = <<>> /\ seen = <<>> /\ boot = 1 /\ sequence = 0 /\ commands = 0
      /\ gateway \in BOOLEAN /\ starting = FALSE /\ stopping = FALSE /\ listening = FALSE
      /\ timer = FALSE /\ heartbeatRunning = FALSE
  BY DEF Init
<1>2. /\ packets \in Seq(PacketRecords) /\ seen \in Seq(Entries)
      /\ DOMAIN packets = {} /\ DOMAIN seen = {}
  BY <1>1, EmptySeq
<1>3. TypeOK /\ FlagInv
  <2>1. boot \in Nat /\ sequence \in Nat /\ commands \in {0, 1} /\ commands # 1
    BY <1>1
  <2>2. FlagInv
    BY <1>1, <2>1 DEF FlagInv
  <2> QED BY <1>1, <1>2, <2>1, <2>2 DEF TypeOK
<1>4. LifeInv /\ NumberInv /\ OldestFirst(seen) /\ EntryInv /\ PublishedInv
  BY <1>1, <1>2 DEF LifeInv, NumberInv, OldestFirst, EntryInv, PublishedInv
<1> QED BY <1>3, <1>4 DEF RouterInv

LEMMA RouterNext == RouterInv /\ [Next]_vars => RouterInv'
<1> SUFFICES ASSUME RouterInv, [Next]_vars PROVE RouterInv'
  OBVIOUS
<1>1. CASE Heartbeat
  BY <1>1, HeartbeatStep
<1>2. CASE Tick
  BY <1>2, TickStep
<1>3. CASE GatewayReboots
  BY <1>3, GatewayRebootsStep
<1>4. CASE \E source \in Sources : GatewaySends(source)
  BY <1>4, GatewaySendsStep
<1>5. CASE \E i \in DOMAIN packets : Deliver(i)
  BY <1>5, DeliverStep
<1>6. CASE UNCHANGED vars
  <2>1. UNCHANGED <<gateway, boot, sequence, packets, starting, stopping, listening, timer,
                    heartbeatRunning, commands, seen>>
    BY <1>6 DEF vars, air, life, heartbeat
  <2>2. TypeOK' /\ FlagInv' /\ LifeInv' /\ NumberInv'
    BY <2>1, SMTT(30) DEF RouterInv, TypeOK, FlagInv, LifeInv, NumberInv
  <2>3. OldestFirst(seen)' /\ EntryInv'
    BY <2>1, SMTT(30) DEF RouterInv, OldestFirst, EntryInv, Expired, ComesFrom, Key
  <2>4. PublishedInv'
    <3> SUFFICES ASSUME NEW i \in DOMAIN packets, Matters(packets[i])'
                 PROVE  \E k \in DOMAIN seen : Remembers(seen, k, packets[i])
      BY <2>1 DEF PublishedInv, Remembers
    <3>1. Matters(packets[i])
      BY <2>1 DEF Matters
    <3> QED BY <3>1 DEF RouterInv, PublishedInv
  <2> QED BY <2>2, <2>3, <2>4 DEF RouterInv
<1> QED BY <1>1, <1>2, <1>3, <1>4, <1>5, <1>6 DEF Next, Heartbeat

\* The packets, the table, the listeners and the heartbeat agree at all times: a published
\* packet that could still come again is in the table (onPublishEntityState, isDuplicate).
THEOREM RouterTheorem == Spec => []RouterInv
BY RouterInit, RouterNext, PTL DEF Spec

-----------------------------------------------------------------------------

\* What a step does if the invariant holds before it.
NotTwice(i) ==
    Deliver(i) /\ Publishes(packets[i]) /\ packets[i].published
        => packets[i].later >= LIMIT \/ packets[i].age > WINDOW

LEMMA PublishedStep ==
    ASSUME RouterInv, NEW i \in DOMAIN packets
    PROVE  NotTwice(i)
<1> DEFINE p == packets[i]
<1> SUFFICES ASSUME Publishes(p), p.published, ~(p.later >= LIMIT \/ p.age > WINDOW)
             PROVE  FALSE
  BY DEF NotTwice
<1>1. p \in PacketRecords /\ p.later \in Nat /\ p.age \in Nat
  BY PacketAt DEF RouterInv, TypeOK
<1>2. p.later < LIMIT /\ p.age <= WINDOW
  BY <1>1, RouterConstants
<1>3. listening /\ ~IsDuplicate(p)
  BY DEF Publishes, Takes
<1>4. PICK k \in DOMAIN seen : Remembers(seen, k, p)
  BY <1>2, <1>3 DEF RouterInv, PublishedInv, Matters
<1>5. ~Expired(seen[k])
  BY <1>1, <1>2, <1>4, NotExpired
<1>6. PICK m \in DOMAIN Fresh : Fresh[m] = seen[k]
  BY <1>5, FreshTheorem DEF RouterInv, TypeOK
<1> QED BY <1>3, <1>4, <1>6 DEF IsDuplicate, Remembers

\* Two deliveries of a packet are published as one, unless LIMIT packets came in
\* between or the second is late (isDuplicate).
THEOREM PublishedOnceTheorem == Spec => PublishedOnce
<1>1. RouterInv /\ [Next]_vars =>
        [\A i \in DOMAIN packets :
           Deliver(i) /\ Publishes(packets[i]) /\ packets[i].published
               => packets[i].later >= LIMIT \/ packets[i].age > WINDOW]_vars
  BY PublishedStep DEF NotTwice
<1> QED BY <1>1, RouterTheorem, PTL DEF Spec, PublishedOnce

Dropped(i) ==
    /\ Deliver(i) /\ packets[i].copies = 0
    /\ listening /\ packets[i].source \in Known
    /\ ~Publishes(packets[i])

LEMMA FreshStep ==
    ASSUME RouterInv, NEW i \in DOMAIN packets, Dropped(i)
    PROVE  \E j \in DOMAIN packets :
              /\ packets[j].boot # packets[i].boot /\ Key(packets[j]) = Key(packets[i])
              /\ packets[j].age <= WINDOW + MaxDelay
<1>1. IsDuplicate(packets[i])
  BY DEF Dropped, Publishes, Takes
<1>2. PICK m \in DOMAIN Fresh : Fresh[m].key = Key(packets[i])
  BY <1>1 DEF IsDuplicate
<1>3. PICK k \in DOMAIN seen : seen[k] = Fresh[m] /\ ~Expired(seen[k])
  BY FreshTheorem DEF RouterInv, TypeOK
<1>4. PICK j \in DOMAIN packets : ComesFrom(seen[k], packets[j])
  BY <1>3 DEF RouterInv, EntryInv
<1>5. Key(packets[j]) = Key(packets[i]) /\ packets[j].copies > 0
  BY <1>2, <1>3, <1>4 DEF ComesFrom
<1>6. j # i /\ packets[j].seq = packets[i].seq
  BY <1>5 DEF Dropped, Key
<1>7. packets[j].boot # packets[i].boot
  BY <1>6 DEF RouterInv, NumberInv
<1>8. packets[j].age <= WINDOW + MaxDelay
  <2>1. seen[k].age \in Nat /\ packets[j].age \in Nat
    BY EntryAt, PacketAt DEF RouterInv, TypeOK
  <2>2. seen[k].age <= WINDOW /\ packets[j].age <= seen[k].age + MaxDelay
    BY <2>1, <1>3, <1>4, RouterConstants DEF Expired, ComesFrom
  <2> QED BY <2>1, <2>2, RouterConstants
<1> QED BY <1>5, <1>7, <1>8

\* What comes for the first time from a known remote is published, unless another
\* boot has lately used its number (isDuplicate, onPublishEntityState).
THEOREM FreshPublishedTheorem == Spec => FreshIsPublished
<1>1. RouterInv /\ [Next]_vars =>
        [\A i \in DOMAIN packets :
           /\ Deliver(i) /\ packets[i].copies = 0
           /\ listening /\ packets[i].source \in Known
           /\ ~Publishes(packets[i])
           => \E j \in DOMAIN packets :
                /\ packets[j].boot # packets[i].boot /\ Key(packets[j]) = Key(packets[i])
                /\ packets[j].age <= WINDOW + MaxDelay]_vars
  BY FreshStep DEF Dropped
<1> QED BY <1>1, RouterTheorem, PTL DEF Spec, FreshIsPublished

\* Heartbeats never overlap, and a stopped instance sends none even if its timer is
\* left behind (heartbeatTick, start and stop).
THEOREM OneHeartbeatTheorem == Spec => OneHeartbeat
<1>1. RouterInv /\ [Next]_vars => [commands' > commands => ~stopping /\ commands = 0]_vars
  <2> SUFFICES ASSUME RouterInv, Next, commands' > commands
               PROVE  ~stopping /\ commands = 0
    BY DEF vars, heartbeat
  <2>1. commands \in {0, 1} /\ (heartbeatRunning <=> commands = 1)
    BY DEF RouterInv, TypeOK, FlagInv
  <2>2. commands' # commands
    BY <2>1
  <2>3. Sends
    BY <2>1, <2>2 DEF Next, Start, Stop, TimerFires, DevicesChange, CommandSettles, Tick,
       GatewayReboots, GatewaySends, Deliver, HeartbeatTick, heartbeat
  <2> QED BY <2>1, <2>3 DEF Sends, Silent
<1> QED BY <1>1, RouterTheorem, PTL DEF Spec, OneHeartbeat

-----------------------------------------------------------------------------
(* The soft rejoin.                                                        *)

Places ==
    {"unsent", "rejecting", "opening", "leaving", "confirming", "closing", "failing", "done"}

\* The locals of a call are defined by what it awaits: the flags as they are before
\* the leave is sent, and no remote that relies on a request that closes its window,
\* but for one whose leave was reported as failed.
Before(q) ==
    /\ calls[q].at \in {"opening", "leaving"} =>
           calls[q].joinWindowMayBeOpen /\ ~calls[q].leaveSent
    /\ calls[q].at = "confirming" => calls[q].leaveSent
    /\ InProgress(q) => promised[q] = 0 \/ q \in doubtful
    /\ calls[q].at \in {"opening", "leaving"} => promised[q] = 0

RejoinTypeInv ==
    /\ calls \in [Ids -> [at : Places, owner : Instances,
                          joinWindowMayBeOpen : BOOLEAN, leaveSent : BOOLEAN]]
    /\ instance \in Instances
    /\ window \in Nat /\ granted \in Nat
    /\ promised \in [Ids -> 0..JOIN_WINDOW]
    /\ revoked \subseteq Ids /\ doubtful \subseteq Ids

\* A request that has not begun has promised nothing.
Unsent == \A q \in Ids : At(q, "unsent") => promised[q] = 0

RejoinInv ==
    /\ RejoinTypeInv /\ Unsent
    /\ \A q \in Ids : Before(q)
    /\ WindowHasReason /\ ReturnStaysOpen

-----------------------------------------------------------------------------

\* A reason that is as long as the window stays as long while time passes.
LEMMA LessMonotone ==
    ASSUME NEW a \in Nat, NEW b \in Nat, a <= b
    PROVE  Less(a) \in Nat /\ Less(b) \in Nat /\ Less(a) <= Less(b) /\ Less(b) <= b
  BY DEF Less

\* The longer of two times is none of them shortened.
LEMMA MostBounds ==
    ASSUME NEW a \in Nat, NEW b \in Nat
    PROVE  Most(a, b) \in Nat /\ a <= Most(a, b) /\ b <= Most(a, b)
  BY DEF Most

\* What is promised is neither more than the window nor than what was asked for.
LEMMA LeastBounds ==
    ASSUME NEW a \in Nat, NEW b \in Nat
    PROVE  Least(a, b) \in Nat /\ Least(a, b) <= a /\ Least(a, b) <= b
  BY DEF Least

LEMMA RejoinStart == RejoinInit => RejoinInv
  BY RejoinAssumption
  DEF RejoinInit, RejoinInv, RejoinTypeInv, Unsent, Before, WindowHasReason, ReturnStaysOpen, InProgress, At,
      Call, Places, Ids, Instances

\* A request that fails before the leave is sent goes on to close the window, and
\* one that fails later does not.
LEMMA CaughtPlace ==
    ASSUME RejoinInv, NEW q \in Ids, Caught(q)
    PROVE  /\ calls[q].at \in {"opening", "leaving"} => Goto(q, "closing")
           /\ calls[q].at = "confirming" => Goto(q, "failing")
  <1>1. calls[q].at \in {"opening", "leaving"} => MustClose(calls[q])
    BY DEF RejoinInv, Before, MustClose
  <1>2. calls[q].at = "confirming" => ~MustClose(calls[q])
    BY DEF RejoinInv, Before, MustClose
  <1>3. QED
    BY <1>1, <1>2 DEF Caught

\* A step that sets one call to a well-formed one, in a place that fits its flags
\* and to what is promised, and keeps the reasons for the window.
LEMMA OneCall ==
    ASSUME RejoinInv, NEW q \in Ids,
           NEW c \in [at : Places, owner : Instances,
                      joinWindowMayBeOpen : BOOLEAN, leaveSent : BOOLEAN],
           Becomes(q, c),
           c.at \in {"opening", "leaving"} => c.joinWindowMayBeOpen /\ ~c.leaveSent,
           c.at = "confirming" => c.leaveSent,
           c.at \in {"unsent", "opening", "leaving"} => promised'[q] = 0,
           c.at = "closing" => promised'[q] = 0 \/ q \in doubtful',
           doubtful \subseteq doubtful', doubtful' \subseteq Ids,
           \A p \in Ids \ {q} : promised'[p] = promised[p],
           instance' \in Instances, window' \in Nat, granted' \in Nat,
           promised' \in [Ids -> 0..JOIN_WINDOW], revoked' \subseteq Ids,
           c.at \in {"opening", "leaving", "closing"} \/ window' <= granted'
               \/ (~InProgress(q) /\ window' = window /\ granted' = granted),
           ReturnStaysOpen'
    PROVE  RejoinInv'
  <1>1. /\ calls'[q] = c
        /\ \A p \in Ids \ {q} : calls'[p] = calls[p]
        /\ calls' \in [Ids -> [at : Places, owner : Instances,
                               joinWindowMayBeOpen : BOOLEAN, leaveSent : BOOLEAN]]
    BY DEF RejoinInv, RejoinTypeInv, Becomes
  <1>2. RejoinTypeInv'
    BY <1>1 DEF RejoinTypeInv
  <1>3. Unsent'
    BY <1>1 DEF RejoinInv, Unsent, At
  <1>4. ASSUME NEW p \in Ids PROVE Before(p)'
    <2>1. CASE p = q
      BY <1>1, <2>1 DEF Before, InProgress
    <2>2. CASE p # q
      BY <1>1, <2>2 DEF RejoinInv, Before, InProgress
    <2>3. QED
      BY <2>1, <2>2
  <1>5. WindowHasReason'
    BY <1>1 DEF RejoinInv, WindowHasReason, InProgress
  <1>6. QED
    BY <1>2, <1>3, <1>4, <1>5 DEF RejoinInv

\* A step that leaves every call, promise and exception alone, and the window too.
LEMMA CallsKept ==
    ASSUME RejoinInv, instance' \in Instances,
           UNCHANGED <<calls, window, granted, promised, revoked, doubtful>>
    PROVE  RejoinInv'
  BY DEF RejoinInv, RejoinTypeInv, Unsent, Before, WindowHasReason, ReturnStaysOpen, InProgress, At

-----------------------------------------------------------------------------

\* The steps that only move one call to another place.
LEMMA Moves ==
    ASSUME RejoinInv, NEW q \in Ids,
           Reject(q) \/ Request(q) \/ Confirmed(q) \/ Failed(q) \/ Rejected(q)
    PROVE  RejoinInv'
<1> USE DEF Call
<1>0. /\ calls[q] \in [at : Places, owner : Instances,
                       joinWindowMayBeOpen : BOOLEAN, leaveSent : BOOLEAN]
      /\ instance \in Instances /\ 0 \in Instances
  BY RejoinAssumption DEF RejoinInv, RejoinTypeInv, Instances
<1>1. CASE Reject(q)
  <2>1. Becomes(q, Call("rejecting")) /\ ~InProgress(q)
    BY <1>1 DEF Reject, Arrives, At, InProgress
  <2>2. UNCHANGED <<instance, window, granted, promised, revoked, doubtful>>
    BY <1>1 DEF Reject, network, history
  <2>3. ReturnStaysOpen'
    BY <2>2 DEF RejoinInv, ReturnStaysOpen
  <2>4. Call("rejecting") \in [at : Places, owner : Instances,
                               joinWindowMayBeOpen : BOOLEAN, leaveSent : BOOLEAN]
    BY <1>0 DEF Places
  <2>5. QED
    BY <1>0, <2>1, <2>2, <2>3, <2>4, OneCall DEF RejoinInv, RejoinTypeInv
<1>2. CASE Request(q)
  <2> DEFINE c == [at |-> "opening", owner |-> instance,
                   joinWindowMayBeOpen |-> TRUE, leaveSent |-> FALSE]
  <2>1. Becomes(q, c) /\ promised[q] = 0
    BY <1>2 DEF Request, Arrives, RejoinInv, Unsent
  <2>2. UNCHANGED <<instance, window, granted, promised, revoked, doubtful>>
    BY <1>2 DEF Request, network, history
  <2>3. ReturnStaysOpen'
    BY <2>2 DEF RejoinInv, ReturnStaysOpen
  <2>4. c \in [at : Places, owner : Instances,
               joinWindowMayBeOpen : BOOLEAN, leaveSent : BOOLEAN]
    BY <1>0 DEF Places
  <2>5. QED
    BY <1>0, <2>1, <2>2, <2>3, <2>4, OneCall DEF RejoinInv, RejoinTypeInv
<1>3. CASE Confirmed(q) \/ Failed(q) \/ Rejected(q)
  <2>1. UNCHANGED <<instance, window, granted, promised, revoked, doubtful>> /\ ~InProgress(q)
    BY <1>3 DEF Confirmed, Failed, Rejected, network, history, At, InProgress
  <2>2. ReturnStaysOpen'
    BY <2>1 DEF RejoinInv, ReturnStaysOpen
  <2>3. CASE Becomes(q, Call("done"))
    <3>1. Call("done") \in [at : Places, owner : Instances,
                            joinWindowMayBeOpen : BOOLEAN, leaveSent : BOOLEAN]
      BY <1>0 DEF Places
    <3>2. QED
      BY <1>0, <2>1, <2>2, <2>3, <3>1, OneCall DEF RejoinInv, RejoinTypeInv
  <2>4. CASE At(q, "confirming") /\ Caught(q)
    <3> DEFINE c == [calls[q] EXCEPT !.at = "failing"]
    <3>1. Becomes(q, c)
      BY <2>4, CaughtPlace DEF At, Goto
    <3>2. c.at = "failing" /\ c \in [at : Places, owner : Instances,
                       joinWindowMayBeOpen : BOOLEAN, leaveSent : BOOLEAN]
      BY <1>0 DEF Places
    <3>3. QED
      BY <1>0, <2>1, <2>2, <3>1, <3>2, OneCall DEF RejoinInv, RejoinTypeInv
  <2>5. QED
    BY <1>3, <2>3, <2>4 DEF Confirmed, Failed, Rejected
<1>4. QED
  BY <1>1, <1>2, <1>3

\* A window that has opened is no shorter than what was promised before.
LEMMA OpenedStep ==
    ASSUME RejoinInv, NEW q \in Ids, Opened(q)
    PROVE  RejoinInv'
<1> DEFINE Moved(place) == [calls[q] EXCEPT !.at = place]
<1>1. /\ calls[q] \in [at : Places, owner : Instances,
                       joinWindowMayBeOpen : BOOLEAN, leaveSent : BOOLEAN]
      /\ calls[q].joinWindowMayBeOpen /\ ~calls[q].leaveSent /\ promised[q] = 0
  BY DEF RejoinInv, RejoinTypeInv, Before, Opened, At, InProgress
<1>2. PICK place \in {"leaving", "closing"} : Becomes(q, Moved(place))
  BY CaughtPlace DEF Opened, Goto, At
<1>3. /\ Moved(place).at = place
      /\ Moved(place).joinWindowMayBeOpen /\ ~Moved(place).leaveSent
      /\ Moved(place) \in [at : Places, owner : Instances,
                           joinWindowMayBeOpen : BOOLEAN, leaveSent : BOOLEAN]
  BY <1>1, <1>2 DEF Places
<1>4. /\ UNCHANGED <<instance, granted, promised, revoked, doubtful>>
      /\ window' \in {window, JOIN_WINDOW}
  BY DEF Opened, history
<1>5. /\ instance' \in Instances /\ window' \in Nat /\ granted' \in Nat
      /\ promised' \in [Ids -> 0..JOIN_WINDOW] /\ revoked' \subseteq Ids /\ doubtful' \subseteq Ids
      /\ doubtful \subseteq doubtful'
  BY <1>4, RejoinAssumption DEF RejoinInv, RejoinTypeInv
<1>6. ReturnStaysOpen'
  BY <1>4, <1>5 DEF RejoinInv, RejoinTypeInv, ReturnStaysOpen
<1>7. \A p \in Ids \ {q} : promised'[p] = promised[p]
  BY <1>4
<1>8. promised'[q] = 0
  BY <1>1, <1>4
<1> HIDE DEF Moved
<1>9. QED
  BY <1>2, <1>3, <1>5, <1>6, <1>7, <1>8, OneCall

\* The remote that is told to leave is the reason for the window, and what it is
\* promised is within the window.
LEMMA LeftStep ==
    ASSUME RejoinInv, NEW q \in Ids, Left(q)
    PROVE  RejoinInv'
<1>1. /\ calls[q] \in [at : Places, owner : Instances,
                       joinWindowMayBeOpen : BOOLEAN, leaveSent : BOOLEAN]
      /\ calls[q].joinWindowMayBeOpen /\ ~calls[q].leaveSent /\ promised[q] = 0
      /\ instance \in Instances /\ window \in Nat /\ granted \in Nat
      /\ promised \in [Ids -> 0..JOIN_WINDOW] /\ revoked \subseteq Ids /\ doubtful \subseteq Ids
      /\ JOIN_WINDOW \in Nat
  BY RejoinAssumption DEF RejoinInv, RejoinTypeInv, Before, Left, At, InProgress
<1>2. UNCHANGED <<instance, window>>
  BY DEF Left
<1>3. CASE Becomes(q, [calls[q] EXCEPT !.at = "confirming", !.leaveSent = TRUE])
           /\ TellsToLeave(q) /\ granted' = Most(granted, window)
           /\ revoked' = revoked \ {q} /\ UNCHANGED doubtful
  <2> DEFINE c == [calls[q] EXCEPT !.at = "confirming", !.leaveSent = TRUE]
  <2>1. Becomes(q, c)
    BY <1>3
  <2>2. /\ c.at = "confirming" /\ c.leaveSent
        /\ c \in [at : Places, owner : Instances,
                  joinWindowMayBeOpen : BOOLEAN, leaveSent : BOOLEAN]
    BY <1>1 DEF Places
  <2>3. granted' \in Nat /\ window' <= granted'
    BY <1>1, <1>2, <1>3, MostBounds
  <2>4. Least(window, JOIN_WINDOW) \in 0..JOIN_WINDOW /\ Least(window, JOIN_WINDOW) <= window
    BY <1>1, LeastBounds
  <2>5. /\ promised' \in [Ids -> 0..JOIN_WINDOW] /\ promised'[q] <= window
        /\ \A p \in Ids \ {q} : promised'[p] = promised[p]
    BY <1>1, <1>3, <2>4 DEF TellsToLeave
  <2>6. revoked' = revoked \ {q} /\ doubtful' = doubtful
    BY <1>3
  <2>7. ReturnStaysOpen'
    BY <1>2, <2>5, <2>6 DEF RejoinInv, ReturnStaysOpen
  <2> HIDE DEF c
  <2>8. QED
    BY <1>1, <1>2, <1>3, <2>1, <2>2, <2>3, <2>5, <2>6, <2>7, OneCall
<1>4. CASE Caught(q) /\ UNCHANGED history
  <2> DEFINE c == [calls[q] EXCEPT !.at = "closing"]
  <2>1. Becomes(q, c)
    BY <1>4, CaughtPlace DEF Left, At, Goto
  <2>2. c.at = "closing" /\ c \in [at : Places, owner : Instances,
                joinWindowMayBeOpen : BOOLEAN, leaveSent : BOOLEAN]
    BY <1>1 DEF Places
  <2>3. UNCHANGED <<granted, promised, revoked, doubtful>>
    BY <1>4 DEF history
  <2>4. ReturnStaysOpen'
    BY <1>2, <2>3 DEF RejoinInv, ReturnStaysOpen
  <2> HIDE DEF c
  <2>5. QED
    BY <1>1, <1>2, <2>1, <2>2, <2>3, <2>4, OneCall
<1>5. CASE /\ Caught(q) /\ TellsToLeave(q) /\ doubtful' = doubtful \union {q}
           /\ UNCHANGED <<granted, revoked>>
  <2> DEFINE c == [calls[q] EXCEPT !.at = "closing"]
  <2>1. Becomes(q, c)
    BY <1>5, CaughtPlace DEF Left, At, Goto
  <2>2. c.at = "closing" /\ c \in [at : Places, owner : Instances,
                joinWindowMayBeOpen : BOOLEAN, leaveSent : BOOLEAN]
    BY <1>1 DEF Places
  <2>3. Least(window, JOIN_WINDOW) \in 0..JOIN_WINDOW
    BY <1>1, LeastBounds
  <2>4. /\ promised' \in [Ids -> 0..JOIN_WINDOW]
        /\ \A p \in Ids \ {q} : promised'[p] = promised[p]
    BY <1>1, <1>5, <2>3 DEF TellsToLeave
  <2>5. q \in doubtful' /\ doubtful \subseteq doubtful' /\ doubtful' \subseteq Ids
    BY <1>1, <1>5
  <2>6. ReturnStaysOpen'
    BY <1>2, <1>5, <2>4, <2>5 DEF RejoinInv, ReturnStaysOpen
  <2> HIDE DEF c
  <2>7. QED
    BY <1>1, <1>2, <1>5, <2>1, <2>2, <2>4, <2>5, <2>6, OneCall
<1>6. QED
  BY <1>3, <1>4, <1>5 DEF Left

\* The window that is closed is nobody's reason any more; the request that closes
\* it has promised nothing, and whoever else relies on it is excepted.
LEMMA ClosedStep ==
    ASSUME RejoinInv, NEW q \in Ids, Closed(q)
    PROVE  RejoinInv'
<1> DEFINE c == [calls[q] EXCEPT !.at = "failing"]
<1>1. /\ calls[q] \in [at : Places, owner : Instances,
                       joinWindowMayBeOpen : BOOLEAN, leaveSent : BOOLEAN]
      /\ promised[q] = 0 \/ q \in doubtful
      /\ instance \in Instances /\ window \in Nat /\ granted \in Nat
      /\ promised \in [Ids -> 0..JOIN_WINDOW] /\ revoked \subseteq Ids /\ doubtful \subseteq Ids
  BY DEF RejoinInv, RejoinTypeInv, Before, Closed, At, InProgress
<1>2. UNCHANGED <<instance, promised, doubtful>> /\ Becomes(q, c)
  BY DEF Closed, Goto
<1>3. c.at = "failing" /\ c \in [at : Places, owner : Instances,
              joinWindowMayBeOpen : BOOLEAN, leaveSent : BOOLEAN]
  BY <1>1 DEF Places
<1>4. /\ window' \in Nat /\ granted' \in Nat /\ window' <= granted'
      /\ revoked' \subseteq Ids
  <2>1. Most(granted, window) \in Nat /\ window <= Most(granted, window)
    BY <1>1, MostBounds
  <2>2. QED
    BY <1>1, <2>1 DEF Closed
<1>5. ReturnStaysOpen'
  <2>1. CASE window' = 0 /\ revoked' = revoked \union (Ids \ {q})
    BY <1>1, <1>2, <2>1 DEF ReturnStaysOpen
  <2>2. CASE UNCHANGED <<window, revoked>>
    BY <1>2, <2>2 DEF RejoinInv, ReturnStaysOpen
  <2>3. QED
    BY <2>1, <2>2 DEF Closed
<1> HIDE DEF c
<1>6. QED
  BY <1>1, <1>2, <1>3, <1>4, <1>5, OneCall

\* Time passes for the window, for its reasons and for the promises alike.
LEMMA SecondPassesStep ==
    ASSUME RejoinInv, SecondPasses
    PROVE  RejoinInv'
<1>1. /\ instance \in Instances /\ window \in Nat /\ granted \in Nat
      /\ promised \in [Ids -> 0..JOIN_WINDOW] /\ revoked \subseteq Ids /\ doubtful \subseteq Ids
      /\ JOIN_WINDOW \in Nat
  BY RejoinAssumption DEF RejoinInv, RejoinTypeInv
<1>2. /\ UNCHANGED <<instance, calls, revoked, doubtful>>
      /\ window' = Less(window) /\ granted' = Less(granted)
      /\ \A p \in Ids : promised'[p] = Less(promised[p])
      /\ promised' = [p \in Ids |-> Less(promised[p])]
  BY DEF SecondPasses
<1>3. ASSUME NEW p \in Ids
      PROVE  /\ Less(promised[p]) \in 0..JOIN_WINDOW
             /\ promised[p] = 0 => Less(promised[p]) = 0
             /\ promised[p] <= window => Less(promised[p]) <= Less(window)
  <2>1. promised[p] \in Nat /\ promised[p] <= JOIN_WINDOW
    BY <1>1
  <2>2. QED
    BY <1>1, <2>1 DEF Less
<1>4. RejoinTypeInv'
  <2>1. window' \in Nat /\ granted' \in Nat
    BY <1>1, <1>2 DEF Less
  <2>2. promised' \in [Ids -> 0..JOIN_WINDOW]
    BY <1>2, <1>3
  <2>3. QED
    BY <1>2, <2>1, <2>2 DEF RejoinInv, RejoinTypeInv
<1>5. Unsent'
  BY <1>2, <1>3 DEF RejoinInv, Unsent, At
<1>6. ASSUME NEW p \in Ids PROVE Before(p)'
  BY <1>2, <1>3 DEF RejoinInv, Before, InProgress
<1>7. WindowHasReason'
  <2>1. window <= granted => Less(window) <= Less(granted)
    BY <1>1, LessMonotone
  <2>2. QED
    BY <1>2, <2>1 DEF RejoinInv, WindowHasReason, InProgress
<1>8. ReturnStaysOpen'
  BY <1>2, <1>3 DEF RejoinInv, ReturnStaysOpen
<1>9. QED
  BY <1>4, <1>5, <1>6, <1>7, <1>8 DEF RejoinInv

\* The window that the user asks for has the user for its reason.
LEMMA UserPermitStep ==
    ASSUME RejoinInv, UserPermit
    PROVE  RejoinInv'
<1>1. UNCHANGED <<instance, calls, promised, doubtful>> /\ revoked' = Ids
  BY DEF UserPermit
<1>2. window' \in Nat /\ granted' \in Nat /\ window' <= granted'
  <2>1. PICK seconds \in 0..MaxWindow :
            window' = seconds /\ granted' = Most(granted, seconds)
    BY DEF UserPermit
  <2>2. seconds \in Nat /\ granted \in Nat
    BY RejoinAssumption DEF RejoinInv, RejoinTypeInv
  <2>3. QED
    BY <2>1, <2>2, MostBounds
<1>3. RejoinTypeInv'
  BY <1>1, <1>2 DEF RejoinInv, RejoinTypeInv
<1>4. Unsent' /\ \A p \in Ids : Before(p)'
  BY <1>1 DEF RejoinInv, Unsent, At, Before, InProgress
<1>5. WindowHasReason' /\ ReturnStaysOpen'
  BY <1>1, <1>2 DEF WindowHasReason, ReturnStaysOpen
<1>6. QED
  BY <1>3, <1>4, <1>5 DEF RejoinInv

-----------------------------------------------------------------------------

LEMMA RejoinStep == RejoinInv /\ [RejoinNext]_rejoinVars => RejoinInv'
<1> SUFFICES ASSUME RejoinInv, [RejoinNext]_rejoinVars PROVE RejoinInv'
  OBVIOUS
<1>1. ASSUME NEW q \in Ids, Reject(q) \/ Request(q) \/ Settles(q) PROVE RejoinInv'
  <2>1. CASE Opened(q)
    BY <2>1, OpenedStep
  <2>2. CASE Left(q)
    BY <2>2, LeftStep
  <2>3. CASE Closed(q)
    BY <2>3, ClosedStep
  <2>4. CASE Reject(q) \/ Request(q) \/ Confirmed(q) \/ Failed(q) \/ Rejected(q)
    BY <2>4, Moves
  <2>5. QED
    BY <1>1, <2>1, <2>2, <2>3, <2>4 DEF Settles
<1>2. CASE SecondPasses
  BY <1>2, SecondPassesStep
<1>3. CASE UserPermit
  BY <1>3, UserPermitStep
<1>4. CASE Reload
  <2>1. instance' \in Instances
    BY <1>4, RejoinAssumption DEF RejoinInv, RejoinTypeInv, Reload, Instances
  <2>2. UNCHANGED <<calls, window, granted, promised, revoked, doubtful>>
    BY <1>4 DEF Reload, network, history
  <2>3. QED
    BY <2>1, <2>2, CallsKept
<1>5. CASE UNCHANGED rejoinVars
  <2>1. UNCHANGED <<instance, calls, window, granted, promised, revoked, doubtful>>
    BY <1>5 DEF rejoinVars, network, history
  <2>2. instance' \in Instances
    BY <2>1 DEF RejoinInv, RejoinTypeInv
  <2>3. QED
    BY <2>1, <2>2, CallsKept
<1>6. QED
  BY <1>1, <1>2, <1>3, <1>4, <1>5 DEF RejoinNext

LEMMA RejoinInductive == RejoinSpec => []RejoinInv
BY RejoinStart, RejoinStep, PTL DEF RejoinSpec

\* However long the windows are, and however requests, failures, reloads and the
\* user's own windows follow each other: no window without a reason is left behind.
THEOREM WindowTheorem == RejoinSpec => []WindowHasReason
<1>1. RejoinInv => WindowHasReason
  BY DEF RejoinInv
<1> QED BY RejoinInductive, <1>1, PTL

\* A remote that was told to leave finds the window open as long as it was promised,
\* but for the three exceptions that the property names.
THEOREM ReturnTheorem == RejoinSpec => []ReturnStaysOpen
<1>1. RejoinInv => ReturnStaysOpen
  BY DEF RejoinInv
<1> QED BY RejoinInductive, <1>1, PTL
=============================================================================
