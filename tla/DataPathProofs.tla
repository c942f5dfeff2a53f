--------------------------- MODULE DataPathProofs ---------------------------
(***************************************************************************)
(* Theorems about the data path, for any calls, catalog, sizes and limits: *)
(* the two fusion caches, the readings a receiver takes out of what they   *)
(* hand on, and the transport that carries their packets.                  *)
(***************************************************************************)
EXTENDS SensorStream, TransportDispatch, SlotOrderProofs, SequenceTheorems

(* What is in the caches and on the way *)

Calls == {c \in UNION {Multis[s] : s \in Streams} : MultiAccepted(c)}

SingleCalls(s) == {r \in Readings[s] : AutoAccepted(s, r) \/ PlainAccepted(s, r)}

Bodies == {MultiBody(c) : c \in Calls}
            \cup UNION {{SingleBody(s, r) : r \in SingleCalls(s)} : s \in Streams}

SensorsOf(b) == {b.sensors[i] : i \in 1 .. Len(b.sensors)}

AllSensors == UNION {SensorsOf(b) : b \in Bodies}

Headers == {b.header : b \in Bodies}
Tags    == {x.tag : x \in AllSensors}
Values  == {x.meta : x \in AllSensors} \cup {x.val : x \in AllSensors}

CacheEntry == {e \in [header : Headers, tags : Seq(Tags), vals : Seq(Values)] :
                 Len(e.tags) \in 1 .. MaxSensors /\ Len(e.vals) = 2 * Len(e.tags)}

Entries == {NoEntry} \cup CacheEntry

Changes == UNION {[D -> Values] : D \in SUBSET (1 .. 2 * MaxSensors)}

Packet ==
  [cmd : {"FULL"}, stream : Streams, body : Bodies, text : Bodies, sure : BOOLEAN]
    \cup [cmd : {"DIFF"}, stream : Streams, body : Bodies, changes : Changes, sure : BOOLEAN]
    \cup [cmd : {"HEART"}, stream : Streams, body : Bodies]
    \cup [cmd : {"LOST"}, stream : Streams]

InCache(table) == {s \in Streams : table[s] # NoEntry}

TableOK(table, entries) ==
  /\ table \in [Streams -> Entries]
  /\ IsFiniteSet(InCache(table)) /\ Cardinality(InCache(table)) <= entries

FusionTyped ==
  /\ TableOK(enc, EncEntries) /\ TableOK(dec, MaxEntries)
  /\ stale \subseteq Streams
  /\ chan \in Seq(Packet) /\ Len(chan) <= MaxChannel
  /\ faults \in 0 .. MaxFaults

\* What the encoder's entry of s was before packet p, and after it.  Nothing is
\* known of a packet that was lost, damaged or made past the cache.
Step(s, before, p, after) ==
  IF p.stream # s THEN after = before
  ELSE /\ p.cmd = "FULL" /\ p.sure =>
            after = IF Parsed(p.text) = NoEntry THEN before ELSE Parsed(p.text)
       /\ p.cmd = "DIFF" /\ p.sure =>
            after = Applied(before, p.changes) /\ after = Parsed(p.body)
       /\ p.cmd = "HEART" => after = before /\ after = Parsed(p.body)

\* t[i] is the encoder's entry of s when the i-th packet of c had just been made.
Tells(s, c, t) ==
  /\ t \in [0 .. Len(c) -> Entries]
  /\ \A i \in 1 .. Len(c) : Step(s, t[i - 1], c[i], t[i])

\* The packets of c lead from entry e to entry f.
Path(s, c, e, f) ==
  \E t \in [0 .. Len(c) -> Entries] : Tells(s, c, t) /\ t[0] = e /\ t[Len(c)] = f

\* The packets under way lead from the decoder's entry to the encoder's.
Leads(s, t) ==
  /\ Tells(s, chan, t)
  /\ t[Len(chan)] = enc[s]
  /\ s \notin stale /\ dec[s] # NoEntry => dec[s] = t[0]

FusionInv ==
  /\ FusionTyped
  /\ \A s \in Streams : \E t \in [0 .. Len(chan) -> Entries] : Leads(s, t)
-----------------------------------------------------------------------------
(* Bodies and entries *)

LEMMA LenIs ==
  ASSUME NEW n \in Nat, NEW f, f = [i \in 1 .. n |-> f[i]]
  PROVE  Len(f) = n
<1> DEFINE T == {f[i] : i \in 1 .. n}
<1>1. f \in [1 .. n -> T]
  OBVIOUS
<1>2. f \in Seq(T)
  <2> HIDE DEF T
  <2> QED  BY <1>1
<1> QED  BY <1>1, <1>2, LenProperties

LEMMA CallIs ==
  ASSUME NEW c \in Calls
  PROVE  c \in [node : Texts, state : Texts, sensors : Seq(SensorInput)] /\ MultiAccepted(c)
BY StreamAssumption DEF Calls

LEMMA BodyIs ==
  ASSUME NEW b \in Bodies
  PROVE  /\ b.header \in Headers /\ b.header # <<>>
         /\ Len(b.sensors) \in Nat
         /\ \A i \in 1 .. Len(b.sensors) : b.sensors[i] \in AllSensors
<1>1. b.header # <<>> /\ Len(b.sensors) \in Nat
  <2>1. \A x, y : <<x, y>> # <<>>
    OBVIOUS
  <2>2. ASSUME NEW c \in Calls, b = MultiBody(c)
        PROVE  b.header # <<>> /\ Len(b.sensors) \in Nat
    <3> DEFINE n == Len(c.sensors)
               segments == [i \in DOMAIN c.sensors |-> MultiSegment(c.sensors[i])]
    <3>1. n \in Nat /\ DOMAIN c.sensors = 1 .. n
      BY CallIs, LenProperties
    <3>2. Len(segments) = n
      <4>1. segments = [i \in 1 .. n |-> segments[i]]
        BY <3>1
      <4> HIDE DEF segments, n
      <4> QED  BY <3>1, <4>1, LenIs
    <3>3. b.sensors = segments /\ \E x, y : b.header = <<x, y>>
      <4> HIDE DEF segments
      <4>1. b = Body(<<Shown("DEVICE_ID", c.node, "NODE"), Shown("DEVICE_STATUS", c.state, "NA")>>,
                     segments, "multi", c)
        BY <2>2 DEF MultiBody, segments
      <4> QED  BY <4>1 DEF Body
    <3> QED  BY <2>1, <3>1, <3>2, <3>3
  <2>3. ASSUME NEW s \in Streams, NEW r \in SingleCalls(s), b = SingleBody(s, r)
        PROVE  b.header # <<>> /\ Len(b.sensors) \in Nat
    <3> DEFINE seg == Segment(r.id, <<"U", BaseUnit(r.unit)>>,
                 [b62 |-> B62(Scaled(Standard(r.value, r.unit))), msg |-> NoText])
    <3>1. b = Body(<<s, "U">>, <<seg>>, "single", r)
      BY <2>3 DEF SingleBody
    <3> HIDE DEF seg
    <3>2. b.sensors = <<seg>> /\ b.header = <<s, "U">>
      BY <3>1 DEF Body
    <3>3. Len(<<seg>>) = 1
      OBVIOUS
    <3> QED  BY <2>1, <3>2, <3>3
  <2> QED  BY <2>2, <2>3 DEF Bodies
<1>2. b.header \in Headers
  BY DEF Headers
<1>3. ASSUME NEW i \in 1 .. Len(b.sensors) PROVE b.sensors[i] \in AllSensors
  BY DEF AllSensors, SensorsOf
<1> QED  BY <1>1, <1>2, <1>3

LEMMA NoEntryIs ==
  /\ NoEntry \notin CacheEntry
  /\ NoEntry.header = <<>> /\ NoEntry.tags = <<>> /\ NoEntry.vals = <<>>
  /\ DOMAIN NoEntry.vals = {}
<1>1. NoEntry.header = <<>> /\ NoEntry.tags = <<>> /\ NoEntry.vals = <<>>
  BY DEF NoEntry
<1>2. Len(<<>>) = 0 /\ DOMAIN <<>> = {}
  OBVIOUS
<1>3. NoEntry \notin CacheEntry
  BY <1>1, <1>2, FusionAssumption DEF CacheEntry
<1> QED  BY <1>1, <1>2, <1>3

LEMMA KeptIs ==
  ASSUME NEW b \in Bodies
  PROVE  \E m \in 0 .. MaxSensors :
           /\ DOMAIN Slots(b.sensors) = 1 .. m
           /\ \A i \in 1 .. m : Slots(b.sensors)[i] \in AllSensors
           /\ Slots(b.sensors) = [i \in 1 .. m |-> Slots(b.sensors)[i]]
<1> DEFINE n == Len(b.sensors)
           F == Fitting(b.sensors)
           k == Cardinality(F)
           m == IF k < MaxSensors THEN k ELSE MaxSensors
<1>1. n \in Nat /\ F \in SUBSET (1 .. n)
  BY BodyIs DEF Fitting
<1>2. k \in Nat
  BY <1>1, CountOf
<1>3. m \in 0 .. MaxSensors /\ m <= k
  BY <1>2, FusionAssumption
<1>4. Slots(b.sensors) = [i \in 1 .. m |-> b.sensors[NthSlot(F, i)]]
  BY DEF Slots, FirstFitting
<1>5. ASSUME NEW i \in 1 .. m PROVE b.sensors[NthSlot(F, i)] \in AllSensors
  <2>1. i \in 1 .. k
    BY <1>2, <1>3
  <2>2. NthSlot(F, i) \in F
    <3> HIDE DEF F
    <3> QED  BY <1>1, <2>1, NthSlotIs
  <2> QED  BY <1>1, <2>2, BodyIs
<1> HIDE DEF m, F
<1>6. DOMAIN Slots(b.sensors) = 1 .. m /\ \A i \in 1 .. m : Slots(b.sensors)[i] = b.sensors[NthSlot(F, i)]
  BY <1>4
<1>7. Slots(b.sensors) = [i \in 1 .. m |-> Slots(b.sensors)[i]]
  BY <1>4, <1>6
<1> QED  BY <1>3, <1>5, <1>6, <1>7

\* What a body parses to is no entry or a whole one.
LEMMA ParsedIs ==
  ASSUME NEW b \in Bodies
  PROVE  /\ Parsed(b) \in Entries
         /\ Parsed(b) # NoEntry => Parsed(b) \in CacheEntry
<1> DEFINE kept == IF b.fits THEN Slots(b.sensors) ELSE <<>>
           tags == [i \in 1 .. Len(kept) |-> kept[i].tag]
           vals == [j \in 1 .. 2 * Len(kept) |->
                        IF j % 2 = 1 THEN kept[(j + 1) \div 2].meta ELSE kept[j \div 2].val]
<1>1. Parsed(b) = IF kept = <<>> THEN NoEntry
                  ELSE [header |-> b.header, tags |-> tags, vals |-> vals]
  BY DEF Parsed
<1>2. CASE kept = <<>>
  BY <1>1, <1>2 DEF Entries
<1>3. CASE kept # <<>>
  <2>1. kept = Slots(b.sensors)
    BY <1>3
  <2>2. PICK m \in 0 .. MaxSensors :
           /\ DOMAIN kept = 1 .. m
           /\ \A i \in 1 .. m : kept[i] \in AllSensors
           /\ kept = [i \in 1 .. m |-> kept[i]]
    BY <2>1, KeptIs
  <2> HIDE DEF kept
  <2>3. m \in 1 .. MaxSensors /\ Len(kept) = m
    <3>1. m \in Nat
      OBVIOUS
    <3>2. Len(kept) = m
      BY <2>2, <3>1, LenIs
    <3>3. CASE m = 0
      <4>1. kept = [i \in {} |-> kept[i]] /\ 1 .. 0 = {}
        BY <2>2, <3>3
      <4>2. kept = <<>>
        BY <4>1
      <4> QED  BY <1>3, <4>2
    <3> QED  BY <3>1, <3>2, <3>3
  <2>4. \A i \in 1 .. m : kept[i].tag \in Tags /\ kept[i].meta \in Values /\ kept[i].val \in Values
    BY <2>2 DEF Tags, Values
  <2>5. tags \in [1 .. m -> Tags]
    BY <2>3, <2>4
  <2>6. vals \in [1 .. 2 * m -> Values]
    <3>1. ASSUME NEW j \in 1 .. 2 * m, j % 2 = 1 PROVE (j + 1) \div 2 \in 1 .. m
      BY <2>3, <3>1
    <3>2. ASSUME NEW j \in 1 .. 2 * m, j % 2 # 1 PROVE j \div 2 \in 1 .. m
      BY <2>3, <3>2
    <3> QED  BY <2>3, <2>4, <3>1, <3>2
  <2> HIDE DEF tags, vals
  <2>7. tags \in Seq(Tags) /\ Len(tags) = m /\ vals \in Seq(Values) /\ Len(vals) = 2 * m
    <3>1. m \in Nat /\ 2 * m \in Nat
      BY <2>3
    <3> QED  BY <2>5, <2>6, <3>1
  <2>8. b.header \in Headers
    BY BodyIs
  <2>9. Parsed(b) \in CacheEntry
    <3> DEFINE e == [header |-> b.header, tags |-> tags, vals |-> vals]
    <3>1. e \in [header : Headers, tags : Seq(Tags), vals : Seq(Values)]
      BY <2>7, <2>8
    <3>2. Len(e.tags) \in 1 .. MaxSensors /\ Len(e.vals) = 2 * Len(e.tags)
      BY <2>3, <2>7
    <3>3. e \in CacheEntry
      BY <3>1, <3>2 DEF CacheEntry
    <3> QED  BY <1>1, <1>3, <3>3
  <2> QED  BY <2>9 DEF Entries
<1> QED  BY <1>2, <1>3

LEMMA EntryParts ==
  ASSUME NEW e \in Entries
  PROVE  e = [header |-> e.header, tags |-> e.tags, vals |-> e.vals]
<1>1. ASSUME NEW H, NEW T, NEW V, e \in [header : H, tags : T, vals : V]
      PROVE  e = [header |-> e.header, tags |-> e.tags, vals |-> e.vals]
  BY <1>1
<1>2. CASE e = NoEntry
  BY <1>2 DEF NoEntry
<1>3. CASE e \in CacheEntry
  <2>1. e \in [header : Headers, tags : Seq(Tags), vals : Seq(Values)]
    BY <1>3 DEF CacheEntry
  <2> QED  BY <1>1, <2>1
<1> QED  BY <1>2, <1>3 DEF Entries

LEMMA AppliedParts ==
  ASSUME NEW e, NEW ch, e = [header |-> e.header, tags |-> e.tags, vals |-> e.vals]
  PROVE  Applied(e, ch) =
           [header |-> e.header, tags |-> e.tags,
            vals |-> [i \in DOMAIN e.vals |-> IF i \in DOMAIN ch THEN ch[i] ELSE e.vals[i]]]
BY DEF Applied

\* A DIFF that comes twice does nothing the second time.
LEMMA AppliedTwice ==
  ASSUME NEW e \in Entries, NEW ch
  PROVE  Applied(Applied(e, ch), ch) = Applied(e, ch)
<1> DEFINE g == [i \in DOMAIN e.vals |-> IF i \in DOMAIN ch THEN ch[i] ELSE e.vals[i]]
           f == [header |-> e.header, tags |-> e.tags, vals |-> g]
<1>1. Applied(e, ch) = f
  BY EntryParts, AppliedParts
<1>2. Applied(f, ch) = [header |-> e.header, tags |-> e.tags,
           vals |-> [i \in DOMAIN g |-> IF i \in DOMAIN ch THEN ch[i] ELSE g[i]]]
  <2>1. f = [header |-> f.header, tags |-> f.tags, vals |-> f.vals]
        /\ f.header = e.header /\ f.tags = e.tags /\ f.vals = g
    OBVIOUS
  <2> HIDE DEF f, g
  <2>2. Applied(f, ch) = [header |-> f.header, tags |-> f.tags,
           vals |-> [i \in DOMAIN f.vals |-> IF i \in DOMAIN ch THEN ch[i] ELSE f.vals[i]]]
    BY <2>1, AppliedParts
  <2> QED  BY <2>1, <2>2
<1>3. [i \in DOMAIN g |-> IF i \in DOMAIN ch THEN ch[i] ELSE g[i]] = g
  OBVIOUS
<1> QED  BY <1>1, <1>2, <1>3

LEMMA TupleIsSeq ==
  ASSUME NEW S, NEW n \in Nat, NEW g \in [1 .. n -> S]
  PROVE  g \in Seq(S) /\ Len(g) = n
OBVIOUS

LEMMA AppliedIs ==
  ASSUME NEW e \in CacheEntry, NEW ch \in Changes
  PROVE  Applied(e, ch) \in CacheEntry
<1> DEFINE n == Len(e.vals)
           g == [i \in DOMAIN e.vals |-> IF i \in DOMAIN ch THEN ch[i] ELSE e.vals[i]]
           f == [header |-> e.header, tags |-> e.tags, vals |-> g]
<1>1. Applied(e, ch) = f
  BY EntryParts, AppliedParts DEF Entries
<1>2. /\ e.header \in Headers /\ e.tags \in Seq(Tags) /\ e.vals \in Seq(Values)
      /\ Len(e.tags) \in 1 .. MaxSensors /\ n = 2 * Len(e.tags) /\ n \in Nat
      /\ DOMAIN e.vals = 1 .. n
  BY DEF CacheEntry
<1>3. \A i \in DOMAIN ch : ch[i] \in Values
  BY DEF Changes
<1>4. g \in [1 .. n -> Values]
  BY <1>2, <1>3
<1> HIDE DEF g, n
<1>5. g \in Seq(Values) /\ Len(g) = n
  BY <1>2, <1>4, TupleIsSeq
<1>6. f \in [header : Headers, tags : Seq(Tags), vals : Seq(Values)]
      /\ f.tags = e.tags /\ f.vals = g
  BY <1>2, <1>5
<1> QED  BY <1>1, <1>2, <1>5, <1>6 DEF CacheEntry
-----------------------------------------------------------------------------
(* The entries between the packets *)

\* A packet may come twice: what it did is done.
LEMMA StepAgain ==
  ASSUME NEW s, NEW e \in Entries, NEW p, NEW f \in Entries, Step(s, e, p, f)
  PROVE  Step(s, f, p, f)
<1>1. f = Applied(e, p.changes) => f = Applied(f, p.changes)
  BY AppliedTwice
<1> QED  BY <1>1 DEF Step

LEMMA TellsAppended ==
  ASSUME NEW s, NEW c \in Seq(Packet), NEW t, Tells(s, c, t),
         NEW p \in Packet, NEW e \in Entries, Step(s, t[Len(c)], p, e)
  PROVE  \E u \in [0 .. Len(c) + 1 -> Entries] :
           /\ Tells(s, Append(c, p), u)
           /\ u[Len(c) + 1] = e /\ u[0] = t[0]
<1> DEFINE n == Len(c)
           d == Append(c, p)
           u == [i \in 0 .. n + 1 |-> IF i <= n THEN t[i] ELSE e]
<1>1. n \in Nat /\ d \in Seq(Packet) /\ Len(d) = n + 1
  OBVIOUS
<1>2. d[n + 1] = p /\ \A i \in 1 .. n : d[i] = c[i]
  OBVIOUS
<1>3. t \in [0 .. n -> Entries] /\ \A i \in 1 .. n : Step(s, t[i - 1], c[i], t[i])
  BY DEF Tells
<1> HIDE DEF d, n
<1>4. u \in [0 .. n + 1 -> Entries] /\ u[n + 1] = e /\ u[0] = t[0]
  BY <1>1, <1>3
<1>5. ASSUME NEW i \in 1 .. n + 1 PROVE Step(s, u[i - 1], d[i], u[i])
  <2>1. CASE i = n + 1
    <3>1. u[i - 1] = t[n] /\ u[i] = e /\ d[i] = p
      BY <1>1, <1>2, <2>1
    <3> QED  BY <3>1 DEF n
  <2>2. CASE i # n + 1
    <3>1. i \in 1 .. n /\ u[i - 1] = t[i - 1] /\ u[i] = t[i]
      BY <1>1, <2>2
    <3> QED  BY <1>2, <1>3, <3>1
  <2> QED  BY <2>1, <2>2
<1> HIDE DEF u
<1> QED  BY <1>1, <1>4, <1>5 DEF Tells, d, n

LEMMA TellsTail ==
  ASSUME NEW s, NEW c \in Seq(Packet), c # <<>>, NEW t, Tells(s, c, t)
  PROVE  /\ Step(s, t[0], Head(c), t[1])
         /\ \E u \in [0 .. Len(Tail(c)) -> Entries] :
              /\ Tells(s, Tail(c), u)
              /\ u[Len(Tail(c))] = t[Len(c)] /\ u[0] = t[1]
<1> DEFINE n == Len(c)
           d == Tail(c)
           u == [i \in 0 .. n - 1 |-> t[i + 1]]
<1>1. n \in Nat /\ n >= 1 /\ d \in Seq(Packet) /\ Len(d) = n - 1
  BY EmptySeq
<1>2. Head(c) = c[1] /\ \A i \in 1 .. n - 1 : d[i] = c[i + 1]
  OBVIOUS
<1>3. t \in [0 .. n -> Entries] /\ \A i \in 1 .. n : Step(s, t[i - 1], c[i], t[i])
  BY DEF Tells
<1> HIDE DEF d, n
<1>4. u \in [0 .. n - 1 -> Entries] /\ u[n - 1] = t[n] /\ u[0] = t[1]
  BY <1>1, <1>3
<1>5. ASSUME NEW i \in 1 .. n - 1 PROVE Step(s, u[i - 1], d[i], u[i])
  <2>1. i + 1 \in 1 .. n /\ u[i - 1] = t[i] /\ u[i] = t[i + 1] /\ i + 1 - 1 = i
    BY <1>1
  <2> QED  BY <1>2, <1>3, <2>1
<1>6. Step(s, t[0], Head(c), t[1])
  <2>1. 1 \in 1 .. n /\ 1 - 1 = 0
    BY <1>1
  <2> QED  BY <1>2, <1>3, <2>1
<1> HIDE DEF u
<1> QED  BY <1>1, <1>4, <1>5, <1>6 DEF Tells, d, n

LEMMA TellsRepeated ==
  ASSUME NEW s, NEW c \in Seq(Packet), c # <<>>, NEW t, Tells(s, c, t),
         NEW d, d = <<Head(c)>> \o c
  PROVE  Path(s, d, t[0], t[Len(c)])
<1> DEFINE n == Len(c)
           u == [i \in 0 .. n + 1 |-> IF i <= 1 THEN t[i] ELSE t[i - 1]]
<1>1. n \in Nat /\ n >= 1 /\ Head(c) \in Packet /\ Head(c) = c[1]
  BY EmptySeq
<1>2. d \in Seq(Packet) /\ Len(d) = n + 1 /\ d[1] = c[1] /\ \A i \in 2 .. n + 1 : d[i] = c[i - 1]
  <2>1. <<Head(c)>> \in Seq(Packet) /\ Len(<<Head(c)>>) = 1 /\ <<Head(c)>>[1] = c[1]
    BY <1>1
  <2> QED  BY <1>1, <2>1, ConcatProperties
<1>3. t \in [0 .. n -> Entries] /\ \A i \in 1 .. n : Step(s, t[i - 1], c[i], t[i])
  BY DEF Tells
<1> HIDE DEF n
<1>4. u \in [0 .. n + 1 -> Entries] /\ u[n + 1] = t[n] /\ u[0] = t[0]
  BY <1>1, <1>3
<1>5. Step(s, t[0], c[1], t[1]) /\ Step(s, t[1], c[1], t[1])
  <2>1. 1 \in 1 .. n /\ 1 - 1 = 0 /\ t[0] \in Entries /\ t[1] \in Entries
    BY <1>1, <1>3
  <2>2. Step(s, t[0], c[1], t[1])
    BY <1>3, <2>1
  <2> QED  BY <2>1, <2>2, StepAgain
<1>6. ASSUME NEW i \in 1 .. n + 1 PROVE Step(s, u[i - 1], d[i], u[i])
  <2>1. CASE i = 1
    <3>1. u[i - 1] = t[0] /\ u[i] = t[1] /\ d[i] = c[1]
      BY <1>1, <1>2, <2>1
    <3> QED  BY <1>5, <3>1
  <2>2. CASE i = 2
    <3>1. u[i - 1] = t[1] /\ u[i] = t[1] /\ d[i] = c[1]
      BY <1>1, <1>2, <2>2
    <3> QED  BY <1>5, <3>1
  <2>3. CASE i # 1 /\ i # 2
    <3>1. i \in 2 .. n + 1 /\ i - 1 \in 1 .. n /\ u[i - 1] = t[i - 1 - 1] /\ u[i] = t[i - 1]
      BY <1>1, <2>3
    <3> QED  BY <1>2, <1>3, <3>1
  <2> QED  BY <2>1, <2>2, <2>3
<1> HIDE DEF u
<1> QED  BY <1>1, <1>2, <1>4, <1>6 DEF Path, Tells, n

LEMMA TellsReplaced ==
  ASSUME NEW s, NEW c \in Seq(Packet), c # <<>>, NEW t, Tells(s, c, t),
         NEW h \in Packet, Step(s, t[0], h, t[1])
  PROVE  /\ <<h>> \o Tail(c) \in Seq(Packet) /\ Len(<<h>> \o Tail(c)) = Len(c)
         /\ Tells(s, <<h>> \o Tail(c), t)
<1> DEFINE n == Len(c)
           d == <<h>> \o Tail(c)
<1>1. n \in Nat /\ n >= 1
  BY EmptySeq
<1>2. d \in Seq(Packet) /\ Len(d) = n /\ d[1] = h /\ \A i \in 2 .. n : d[i] = c[i]
  <2>1. <<h>> \in Seq(Packet) /\ Len(<<h>>) = 1 /\ <<h>>[1] = h
    OBVIOUS
  <2>2. Tail(c) \in Seq(Packet) /\ Len(Tail(c)) = n - 1 /\ \A i \in 1 .. n - 1 : Tail(c)[i] = c[i + 1]
    BY <1>1
  <2>3. /\ d \in Seq(Packet) /\ Len(d) = 1 + (n - 1)
        /\ \A i \in 1 .. 1 + (n - 1) : d[i] = IF i <= 1 THEN <<h>>[i] ELSE Tail(c)[i - 1]
    BY <2>1, <2>2, ConcatProperties
  <2>4. ASSUME NEW i \in 2 .. n PROVE d[i] = c[i]
    <3>1. i \in 1 .. 1 + (n - 1) /\ ~(i <= 1) /\ i - 1 \in 1 .. n - 1 /\ i - 1 + 1 = i
      BY <1>1
    <3> QED  BY <2>2, <2>3, <3>1
  <2>5. 1 \in 1 .. 1 + (n - 1) /\ 1 + (n - 1) = n
    BY <1>1
  <2> HIDE DEF d, n
  <2>6. d[1] = h
    BY <2>1, <2>3, <2>5
  <2> QED  BY <2>3, <2>4, <2>5, <2>6
<1>3. t \in [0 .. n -> Entries] /\ \A i \in 1 .. n : Step(s, t[i - 1], c[i], t[i])
  BY DEF Tells
<1> HIDE DEF d, n
<1>4. ASSUME NEW i \in 1 .. n PROVE Step(s, t[i - 1], d[i], t[i])
  <2>1. CASE i = 1
    <3>1. i - 1 = 0
      BY <2>1
    <3> QED  BY <1>2, <2>1, <3>1
  <2>2. CASE i # 1
    <3>1. i \in 2 .. n
      BY <1>1, <2>2
    <3> QED  BY <1>2, <1>3, <3>1
  <2> QED  BY <2>1, <2>2
<1> QED  BY <1>2, <1>3, <1>4 DEF Tells, d, n

\* Where no packet of s is under way its entry stays what it is.
LEMMA Settled ==
  ASSUME NEW s, NEW c \in Seq(Packet), NEW t, Tells(s, c, t),
         \A i \in 1 .. Len(c) : c[i].stream # s
  PROVE  t[0] = t[Len(c)]
<1> DEFINE n == Len(c)
           S == {i \in 1 .. n + 1 : t[i - 1] = t[n]}
<1>1. n \in Nat /\ n + 1 \in Nat /\ \A i \in 1 .. n : t[i] = t[i - 1]
  BY DEF Tells, Step
<1> HIDE DEF n
<1>2. n + 1 \in S /\ S \in SUBSET (1 .. n + 1)
  BY <1>1
<1>3. PICK r \in S : \A q \in S : r <= q
  <2> HIDE DEF S
  <2> QED  BY <1>1, <1>2, LowestSlot
<1>4. r = 1
  <2> SUFFICES ASSUME r # 1 PROVE FALSE
    OBVIOUS
  <2>1. r \in 1 .. n + 1 /\ r - 1 \in 1 .. n /\ t[r - 1] = t[n]
    BY <1>1
  <2>2. t[r - 1] = t[r - 1 - 1] /\ r - 1 \in 1 .. n + 1
    BY <1>1, <2>1
  <2>3. r - 1 \in S
    BY <2>1, <2>2
  <2> QED  BY <1>3, <2>1, <2>3
<1>5. t[1 - 1] = t[n]
  BY <1>4
<1> QED  BY <1>5 DEF n
-----------------------------------------------------------------------------
(* The encoder *)

LEMMA TableWith ==
  ASSUME NEW table, NEW m \in Nat, TableOK(table, m), NEW s \in Streams, NEW e \in Entries,
         e = table[s] \/ (e # NoEntry /\ Room(table, s, m))
  PROVE  /\ TableOK([table EXCEPT ![s] = e], m)
         /\ [table EXCEPT ![s] = e][s] = e
         /\ \A r \in Streams : r # s => [table EXCEPT ![s] = e][r] = table[r]
<1> DEFINE u == [table EXCEPT ![s] = e]
           k == Cardinality(InCache(table))
<1>1. /\ table \in [Streams -> Entries]
      /\ IsFiniteSet(InCache(table)) /\ k <= m /\ k \in Nat
  BY FS_CardinalityType DEF TableOK
<1>2. u \in [Streams -> Entries] /\ u[s] = e /\ \A r \in Streams : r # s => u[r] = table[r]
  BY <1>1
<1> HIDE DEF u
<1>3. CASE e = table[s]
  <2>1. InCache(u) = InCache(table)
    BY <1>2, <1>3 DEF InCache
  <2> QED  BY <1>1, <1>2, <2>1 DEF TableOK, u
<1>4. CASE e # NoEntry /\ table[s] # NoEntry
  <2>1. InCache(u) = InCache(table)
    BY <1>2, <1>4 DEF InCache
  <2> QED  BY <1>1, <1>2, <2>1 DEF TableOK, u
<1>5. CASE e # NoEntry /\ table[s] = NoEntry /\ k < m
  <2>1. InCache(u) = InCache(table) \cup {s} /\ s \notin InCache(table)
    BY <1>2, <1>5 DEF InCache
  <2>2. IsFiniteSet(InCache(u)) /\ Cardinality(InCache(u)) = k + 1
    BY <1>1, <2>1, FS_AddElement
  <2>3. k + 1 <= m
    BY <1>1, <1>5
  <2> QED  BY <1>2, <2>2, <2>3 DEF TableOK, u
<1> QED  BY <1>3, <1>4, <1>5 DEF Room, InCache

LEMMA CachedForIs ==
  ASSUME FusionTyped, NEW s \in Streams, NEW b \in Bodies, Encodable(s, b)
  PROVE  /\ CachedFor(s, b) \in Entries
         /\ TableOK([enc EXCEPT ![s] = CachedFor(s, b)], EncEntries)
         /\ [enc EXCEPT ![s] = CachedFor(s, b)][s] = CachedFor(s, b)
         /\ \A r \in Streams : r # s => [enc EXCEPT ![s] = CachedFor(s, b)][r] = enc[r]
<1>1. CachedFor(s, b) \in Entries
  BY ParsedIs DEF CachedFor, FusionTyped, TableOK
<1>2. \/ CachedFor(s, b) = enc[s]
      \/ CachedFor(s, b) # NoEntry /\ Room(enc, s, EncEntries)
  BY DEF CachedFor, Encodable
<1>3. TableOK(enc, EncEntries) /\ EncEntries \in Nat
  BY FusionAssumption DEF FusionTyped
<1> QED  BY <1>1, <1>2, <1>3, TableWith

\* The packet for a body makes of the old entry the new one.
LEMMA PacketIs ==
  ASSUME FusionTyped, NEW s \in Streams, NEW b \in Bodies
  PROVE  /\ PacketFor(s, b) \in Packet
         /\ PacketFor(s, b).stream = s
         /\ Step(s, enc[s], PacketFor(s, b), CachedFor(s, b))
<1> DEFINE new == Parsed(b)
           old == enc[s]
           ch == [i \in Changed(old, new) |-> new.vals[i]]
<1>1. old \in Entries /\ new \in Entries /\ (new # NoEntry => new \in CacheEntry)
  BY ParsedIs DEF FusionTyped, TableOK
<1>2. CASE new = NoEntry \/ ~SameStructure(old, new)
  <2>1. PacketFor(s, b) = Full(s, b)
    BY <1>2 DEF PacketFor
  <2>2. Full(s, b) \in Packet /\ Full(s, b).stream = s /\ Full(s, b).cmd = "FULL"
        /\ Full(s, b).text = b
    BY DEF Full, Packet
  <2>3. CachedFor(s, b) = IF new = NoEntry THEN old ELSE new
    BY DEF CachedFor
  <2> QED  BY <2>1, <2>2, <2>3 DEF Step
<1>3. CASE new # NoEntry /\ SameStructure(old, new) /\ old.vals = new.vals
  <2>1. PacketFor(s, b) = Heart(s, b)
    BY <1>3 DEF PacketFor
  <2>2. Heart(s, b) \in Packet /\ Heart(s, b).stream = s /\ Heart(s, b).cmd = "HEART"
        /\ Heart(s, b).body = b
    BY DEF Heart, Packet
  <2>3. CachedFor(s, b) = new
    BY <1>3 DEF CachedFor
  <2>4. old = new
    BY <1>1, <1>3, EntryParts DEF SameStructure
  <2> QED  BY <2>1, <2>2, <2>3, <2>4 DEF Step
<1>4. CASE new # NoEntry /\ SameStructure(old, new) /\ old.vals # new.vals
  <2>1. PacketFor(s, b) = Diff(s, b, ch)
    BY <1>4 DEF PacketFor
  <2>2. /\ new.tags \in Seq(Tags) /\ new.vals \in Seq(Values) /\ Len(new.vals) = 2 * Len(new.tags)
        /\ Len(new.tags) \in 1 .. MaxSensors
    BY <1>1, <1>4 DEF CacheEntry
  <2>3. ch \in Changes
    <3>1. Changed(old, new) \in SUBSET (1 .. Len(new.vals))
      BY DEF Changed
    <3>2. \A i \in 1 .. Len(new.vals) : new.vals[i] \in Values /\ i \in 1 .. 2 * MaxSensors
      BY <2>2, FusionAssumption
    <3> DEFINE D == Changed(old, new)
    <3>3. D \in SUBSET (1 .. 2 * MaxSensors) /\ ch \in [D -> Values]
      BY <3>1, <3>2
    <3> HIDE DEF ch, D
    <3> QED  BY <3>3 DEF Changes
  <2>4. DOMAIN old.vals = DOMAIN new.vals
    <3>1. old # NoEntry
      <4>1. Len(<<>>) = 0
        OBVIOUS
      <4>2. new.tags # <<>>
        BY <2>2, <4>1
      <4> QED  BY <1>4, <4>2, NoEntryIs DEF SameStructure
    <3>2. old.tags = new.tags /\ old.vals \in Seq(Values) /\ Len(old.vals) = 2 * Len(old.tags)
      BY <1>1, <1>4, <3>1 DEF SameStructure, Entries, CacheEntry
    <3> QED  BY <2>2, <3>2
  <2>5. Applied(old, ch) = new
    <3> DEFINE g == [i \in DOMAIN old.vals |-> IF i \in DOMAIN ch THEN ch[i] ELSE old.vals[i]]
    <3>1. Applied(old, ch) = [header |-> old.header, tags |-> old.tags, vals |-> g]
      <4> HIDE DEF ch
      <4> QED  BY <1>1, EntryParts, AppliedParts
    <3>2. new.vals = [i \in DOMAIN new.vals |-> new.vals[i]] /\ DOMAIN new.vals = 1 .. Len(new.vals)
      BY <2>2
    <3>3. \A i \in DOMAIN new.vals : g[i] = new.vals[i]
      BY <2>4, <3>2 DEF Changed
    <3>4. g = new.vals
      <4>1. g = [i \in DOMAIN new.vals |-> g[i]]
        BY <2>4
      <4> HIDE DEF g
      <4> QED  BY <3>2, <3>3, <4>1
    <3> HIDE DEF g
    <3>5. old.header = new.header /\ old.tags = new.tags
      BY <1>4 DEF SameStructure
    <3> QED  BY <1>1, <3>1, <3>4, <3>5, EntryParts
  <2> HIDE DEF ch
  <2>6. Diff(s, b, ch) \in Packet /\ Diff(s, b, ch).stream = s /\ Diff(s, b, ch).cmd = "DIFF"
        /\ Diff(s, b, ch).body = b /\ Diff(s, b, ch).changes = ch
    BY <2>3 DEF Diff, Packet
  <2>7. CachedFor(s, b) = new
    BY <1>4 DEF CachedFor
  <2> QED  BY <2>1, <2>5, <2>6, <2>7 DEF Step
<1> QED  BY <1>2, <1>3, <1>4
-----------------------------------------------------------------------------
(* What a step does to what the packets lead to *)

Led(r) == \E u \in [0 .. Len(chan) -> Entries] : Leads(r, u)

LEMMA LedTold ==
  ASSUME FusionInv, NEW r \in Streams
  PROVE  \E t : Leads(r, t) /\ Tells(r, chan, t) /\ t \in [0 .. Len(chan) -> Entries]
BY DEF FusionInv, Leads

LEMMA AppendLeads ==
  ASSUME FusionInv, NEW p \in Packet, chan' = Append(chan, p), UNCHANGED dec, stale \subseteq stale',
         NEW r \in Streams, enc'[r] \in Entries, Step(r, enc[r], p, enc'[r])
  PROVE  Led(r)'
<1>1. chan \in Seq(Packet) /\ Len(chan) \in Nat /\ Len(chan') = Len(chan) + 1
  BY DEF FusionInv, FusionTyped
<1>2. PICK t : Leads(r, t)
  BY LedTold
<1>3. PICK u \in [0 .. Len(chan) + 1 -> Entries] :
        /\ Tells(r, Append(chan, p), u)
        /\ u[Len(chan) + 1] = enc'[r] /\ u[0] = t[0]
  <2> DEFINE e == enc'[r]
  <2>1. Tells(r, chan, t) /\ Step(r, t[Len(chan)], p, e) /\ e \in Entries
    BY <1>2 DEF Leads
  <2> HIDE DEF e
  <2>2. \E u \in [0 .. Len(chan) + 1 -> Entries] :
           /\ Tells(r, Append(chan, p), u)
           /\ u[Len(chan) + 1] = e /\ u[0] = t[0]
    BY <1>1, <2>1, TellsAppended
  <2> QED  BY <2>2 DEF e
<1>4. r \notin stale' /\ dec'[r] # NoEntry => dec'[r] = u[0]
  BY <1>2, <1>3 DEF Leads
<1> QED  BY <1>1, <1>3, <1>4 DEF Led, Leads

LEMMA TakeLeads ==
  ASSUME FusionInv, chan # <<>>, chan' = Tail(chan), UNCHANGED enc, NEW r \in Streams,
         \A e, f \in Entries :
           /\ Step(r, e, Head(chan), f)
           /\ r \notin stale /\ dec[r] # NoEntry => dec[r] = e
           => (r \notin stale' /\ dec'[r] # NoEntry => dec'[r] = f)
  PROVE  Led(r)'
<1>1. chan \in Seq(Packet)
  BY DEF FusionInv, FusionTyped
<1>2. PICK t : Leads(r, t) /\ t \in [0 .. Len(chan) -> Entries]
  BY LedTold
<1>3. Step(r, t[0], Head(chan), t[1])
  BY <1>1, <1>2, TellsTail DEF Leads
<1>4. PICK u \in [0 .. Len(Tail(chan)) -> Entries] :
        /\ Tells(r, Tail(chan), u)
        /\ u[Len(Tail(chan))] = t[Len(chan)] /\ u[0] = t[1]
  BY <1>1, <1>2, TellsTail DEF Leads
<1>5. t[0] \in Entries /\ t[1] \in Entries
  <2>1. Len(chan) \in Nat /\ Len(chan) >= 1
    BY <1>1, EmptySeq
  <2>2. 0 \in 0 .. Len(chan) /\ 1 \in 0 .. Len(chan)
    BY <2>1
  <2> QED  BY <1>2, <2>2
<1>6. r \notin stale' /\ dec'[r] # NoEntry => dec'[r] = u[0]
  BY <1>2, <1>3, <1>4, <1>5 DEF Leads
<1>7. u[Len(chan')] = enc'[r]
  BY <1>2, <1>4 DEF Leads
<1> QED  BY <1>4, <1>6, <1>7 DEF Led, Leads

LEMMA SameLeads ==
  ASSUME FusionInv, UNCHANGED <<chan, enc>>, NEW r \in Streams,
         r \notin stale' /\ dec'[r] # NoEntry => r \notin stale /\ dec'[r] = dec[r]
  PROVE  Led(r)'
<1>1. PICK t : Leads(r, t) /\ t \in [0 .. Len(chan) -> Entries]
  BY LedTold
<1> QED  BY <1>1 DEF Led, Leads

LEMMA PacketParts ==
  ASSUME NEW p \in Packet
  PROVE  /\ p.cmd \in {"FULL", "DIFF", "HEART", "LOST"} /\ p.stream \in Streams
         /\ p.cmd = "FULL" => /\ p \in [cmd : {"FULL"}, stream : Streams, body : Bodies,
                                        text : Bodies, sure : BOOLEAN]
                              /\ p.body \in Bodies /\ p.text \in Bodies /\ p.sure \in BOOLEAN
         /\ p.cmd = "DIFF" => /\ p \in [cmd : {"DIFF"}, stream : Streams, body : Bodies,
                                        changes : Changes, sure : BOOLEAN]
                              /\ p.body \in Bodies /\ p.changes \in Changes /\ p.sure \in BOOLEAN
         /\ p.cmd = "HEART" => p.body \in Bodies
BY DEF Packet
-----------------------------------------------------------------------------
(* The actions keep the invariant *)

LEMMA FusionInvFrom ==
  ASSUME FusionTyped', \A r \in Streams : Led(r)'
  PROVE  FusionInv'
BY DEF FusionInv, Led

LEMMA EncodeInv ==
  ASSUME FusionInv, NEW s \in Streams, NEW b \in Bodies, Encode(s, b)
  PROVE  FusionInv'
<1> DEFINE p == PacketFor(s, b)
           e == CachedFor(s, b)
<1>1. FusionTyped /\ chan \in Seq(Packet) /\ Len(chan) \in Nat
  BY DEF FusionInv, FusionTyped
<1>2. p \in Packet /\ p.stream = s /\ Step(s, enc[s], p, e)
  BY <1>1, PacketIs
<1>3. /\ e \in Entries /\ TableOK(enc', EncEntries) /\ enc'[s] = e
      /\ \A r \in Streams : r # s => enc'[r] = enc[r]
  BY <1>1, CachedForIs DEF Encode
<1> HIDE DEF p, e
<1>4. chan' = Append(chan, p) /\ UNCHANGED <<dec, stale, faults>> /\ Len(chan) < MaxChannel
  BY DEF Encode, p
<1>5. FusionTyped'
  <2>1. chan' \in Seq(Packet) /\ Len(chan') <= MaxChannel
    BY <1>1, <1>2, <1>4, FusionAssumption
  <2>2. TableOK(dec, MaxEntries)' /\ stale' \subseteq Streams /\ faults' \in 0 .. MaxFaults
    BY <1>1, <1>4 DEF FusionTyped, TableOK, InCache
  <2>3. TableOK(enc, EncEntries)'
    BY <1>3 DEF TableOK, InCache
  <2> QED  BY <2>1, <2>2, <2>3 DEF FusionTyped
<1>6. ASSUME NEW r \in Streams PROVE Led(r)'
  <2>1. enc'[r] \in Entries
    BY <1>3 DEF TableOK
  <2>2. Step(r, enc[r], p, enc'[r])
    BY <1>2, <1>3 DEF Step
  <2> QED  BY <1>2, <1>4, <2>1, <2>2, AppendLeads
<1> QED  BY <1>5, <1>6, FusionInvFrom

LEMMA EncodeFailsInv ==
  ASSUME FusionInv, NEW s \in Streams, NEW b \in Bodies, EncodeFails(s, b)
  PROVE  FusionInv'
<1> DEFINE p == Lost(s)
           e == CachedFor(s, b)
<1>1. FusionTyped /\ chan \in Seq(Packet) /\ Len(chan) \in Nat
  BY DEF FusionInv, FusionTyped
<1>2. p \in Packet /\ p.stream = s /\ p.cmd = "LOST"
  BY DEF Lost, Packet
<1>3. /\ e \in Entries /\ TableOK(enc', EncEntries) /\ enc'[s] = e
      /\ \A r \in Streams : r # s => enc'[r] = enc[r]
  BY <1>1, CachedForIs DEF EncodeFails
<1> HIDE DEF p, e
<1>4. /\ chan' = IF enc'[s] = enc[s] THEN chan ELSE Append(chan, p)
      /\ UNCHANGED <<dec, stale>> /\ Len(chan) < MaxChannel
      /\ faults < MaxFaults /\ faults' = faults + 1
  BY DEF EncodeFails, p
<1>5. FusionTyped'
  <2>1. chan' \in Seq(Packet) /\ Len(chan') <= MaxChannel
    BY <1>1, <1>2, <1>4, FusionAssumption
  <2>2. TableOK(dec, MaxEntries)' /\ stale' \subseteq Streams
    BY <1>1, <1>4 DEF FusionTyped, TableOK, InCache
  <2>3. TableOK(enc, EncEntries)'
    BY <1>3 DEF TableOK, InCache
  <2>4. faults' \in 0 .. MaxFaults
    BY <1>1, <1>4, FusionAssumption DEF FusionTyped
  <2> QED  BY <2>1, <2>2, <2>3, <2>4 DEF FusionTyped
<1>6. ASSUME NEW r \in Streams PROVE Led(r)'
  <2>1. enc'[r] \in Entries
    BY <1>3 DEF TableOK
  <2>2. CASE enc'[s] = enc[s]
    <3>1. enc' = enc
      <4>1. enc \in [Streams -> Entries] /\ enc' \in [Streams -> Entries]
        BY <1>1, <1>3 DEF FusionTyped, TableOK
      <4>2. \A q \in Streams : enc'[q] = enc[q]
        BY <1>3, <2>2
      <4> QED  BY <4>1, <4>2
    <3> QED  BY <1>4, <2>2, <3>1, SameLeads
  <2>3. CASE enc'[s] # enc[s]
    <3>1. Step(r, enc[r], p, enc'[r])
      BY <1>2, <1>3 DEF Step
    <3> QED  BY <1>2, <1>4, <2>1, <2>3, <3>1, AppendLeads
  <2> QED  BY <2>2, <2>3
<1> QED  BY <1>5, <1>6, FusionInvFrom

LEMMA SendPastInv ==
  ASSUME FusionInv, NEW s \in Streams, NEW b \in Bodies, SendPast(s, b)
  PROVE  FusionInv'
<1> DEFINE p == [Full(s, b) EXCEPT !.sure = Parsed(b) = NoEntry]
<1>1. FusionTyped /\ chan \in Seq(Packet) /\ Len(chan) \in Nat
  BY DEF FusionInv, FusionTyped
<1>2. /\ p \in Packet /\ p.stream = s /\ p.cmd = "FULL" /\ p.text = b
      /\ p.sure <=> Parsed(b) = NoEntry
  <2> DEFINE u == Parsed(b) = NoEntry
  <2>1. u \in BOOLEAN
    OBVIOUS
  <2> HIDE DEF u
  <2>2. p = [cmd |-> "FULL", stream |-> s, body |-> b, text |-> b, sure |-> u]
    BY DEF Full, u
  <2> HIDE DEF p
  <2>3. p \in Packet /\ p.stream = s /\ p.cmd = "FULL" /\ p.text = b /\ p.sure = u
    BY <2>1, <2>2 DEF Packet
  <2> QED  BY <2>3 DEF u
<1> HIDE DEF p
<1>3. chan' = Append(chan, p) /\ UNCHANGED <<enc, dec, stale>> /\ Len(chan) < MaxChannel
      /\ faults < MaxFaults /\ faults' = faults + 1
  BY DEF SendPast, p
<1>4. FusionTyped'
  <2>1. chan' \in Seq(Packet) /\ Len(chan') <= MaxChannel
    BY <1>1, <1>2, <1>3, FusionAssumption
  <2>2. TableOK(enc, EncEntries)' /\ TableOK(dec, MaxEntries)' /\ stale' \subseteq Streams
    BY <1>1, <1>3 DEF FusionTyped, TableOK, InCache
  <2>3. faults' \in 0 .. MaxFaults
    BY <1>1, <1>3, FusionAssumption DEF FusionTyped
  <2> QED  BY <2>1, <2>2, <2>3 DEF FusionTyped
<1>5. ASSUME NEW r \in Streams PROVE Led(r)'
  <2>1. enc'[r] \in Entries /\ enc'[r] = enc[r]
    BY <1>1, <1>3 DEF FusionTyped, TableOK
  <2>2. Step(r, enc[r], p, enc'[r])
    BY <1>2, <2>1 DEF Step
  <2> QED  BY <1>2, <1>3, <2>1, <2>2, AppendLeads
<1> QED  BY <1>4, <1>5, FusionInvFrom

LEMMA Taken ==
  ASSUME FusionInv, chan # <<>>, chan' = Tail(chan)
  PROVE  /\ chan' \in Seq(Packet) /\ Len(chan') <= MaxChannel
         /\ Head1 \in Packet /\ Head1 = Head(chan)
<1>1. chan \in Seq(Packet) /\ Len(chan) \in Nat /\ Len(chan) <= MaxChannel
  BY DEF FusionInv, FusionTyped
<1>2. Tail(chan) \in Seq(Packet) /\ Len(Tail(chan)) = Len(chan) - 1 /\ Head(chan) \in Packet
  BY <1>1
<1> QED  BY <1>1, <1>2, FusionAssumption DEF Head1

LEMMA DecodeFullInv ==
  ASSUME FusionInv, Receive, DecodeFull
  PROVE  FusionInv'
<1> DEFINE p == Head(chan)
           s == p.stream
           new == Parsed(p.text)
           caching == new # NoEntry /\ Room(dec, s, MaxEntries)
<1>1. chan' \in Seq(Packet) /\ Len(chan') <= MaxChannel /\ p \in Packet /\ Head1 = p
      /\ chan # <<>> /\ chan' = Tail(chan) /\ UNCHANGED enc /\ UNCHANGED faults
  BY Taken DEF Receive
<1>2. p.cmd = "FULL" /\ s \in Streams /\ p.text \in Bodies /\ p.sure \in BOOLEAN
  BY <1>1, PacketParts DEF DecodeFull
<1>3. dec' = IF caching THEN [dec EXCEPT ![s] = new] ELSE dec
  BY <1>1 DEF DecodeFull
<1>4. stale' = IF p.sure THEN IF caching THEN stale \ {s} ELSE stale ELSE stale \cup {s}
  BY <1>1 DEF DecodeFull
<1>5. FusionTyped /\ TableOK(dec, MaxEntries) /\ MaxEntries \in Nat /\ new \in Entries
  BY <1>2, ParsedIs, FusionAssumption DEF FusionInv, FusionTyped
<1> HIDE DEF p, s, new
<1>6. /\ TableOK(dec', MaxEntries)
      /\ \A r \in Streams : r # s => dec'[r] = dec[r]
      /\ caching => dec'[s] = new
  <2>1. CASE caching
    <3>1. dec' = [dec EXCEPT ![s] = new] /\ new # NoEntry /\ Room(dec, s, MaxEntries)
      BY <1>3, <2>1
    <3>2. /\ s \in Streams /\ TableOK(dec, MaxEntries) /\ MaxEntries \in Nat /\ new \in Entries
          /\ new = dec[s] \/ (new # NoEntry /\ Room(dec, s, MaxEntries))
      BY <1>2, <1>5, <3>1
    <3>3. /\ TableOK([dec EXCEPT ![s] = new], MaxEntries)
          /\ [dec EXCEPT ![s] = new][s] = new
          /\ \A r \in Streams : r # s => [dec EXCEPT ![s] = new][r] = dec[r]
      BY <3>2, TableWith
    <3> QED  BY <3>1, <3>3
  <2>2. CASE ~caching
    BY <1>3, <1>5, <2>2
  <2> QED  BY <2>1, <2>2
<1>7. FusionTyped'
  <2>1. stale' \subseteq Streams /\ faults' \in 0 .. MaxFaults
    BY <1>1, <1>2, <1>4, <1>5 DEF FusionTyped
  <2>2. TableOK(enc, EncEntries)'
    BY <1>1, <1>5 DEF FusionTyped, TableOK, InCache
  <2>3. TableOK(dec, MaxEntries)'
    BY <1>6 DEF TableOK, InCache
  <2> QED  BY <1>1, <2>1, <2>2, <2>3 DEF FusionTyped
<1>8. ASSUME NEW r \in Streams PROVE Led(r)'
  <2>1. ASSUME NEW e \in Entries, NEW f \in Entries, Step(r, e, p, f),
               r \notin stale /\ dec[r] # NoEntry => dec[r] = e,
               r \notin stale', dec'[r] # NoEntry
        PROVE  dec'[r] = f
    <3>1. CASE r # s
      BY <1>4, <1>6, <2>1, <3>1 DEF Step, s
    <3>2. CASE r = s
      <4>1. p.sure /\ f = IF new = NoEntry THEN e ELSE new
        BY <1>2, <1>4, <2>1, <3>2 DEF Step, s, new
      <4>2. CASE caching
        BY <1>6, <3>2, <4>1, <4>2
      <4>3. CASE ~caching
        <5>1. dec'[r] = dec[r] /\ r \notin stale
          BY <1>3, <1>4, <2>1, <4>1, <4>3
        <5>2. new = NoEntry
          BY <2>1, <3>2, <4>3, <5>1 DEF Room
        <5> QED  BY <2>1, <4>1, <5>1, <5>2
      <4> QED  BY <4>2, <4>3
    <3> QED  BY <3>1, <3>2
  <2> QED  BY <1>1, <2>1, TakeLeads DEF p
<1> QED  BY <1>7, <1>8, FusionInvFrom

LEMMA DecodeDiffInv ==
  ASSUME FusionInv, Receive, DecodeDiff
  PROVE  FusionInv'
<1> DEFINE p == Head(chan)
           s == p.stream
           e0 == Applied(dec[s], p.changes)
<1>1. chan' \in Seq(Packet) /\ Len(chan') <= MaxChannel /\ p \in Packet /\ Head1 = p
      /\ chan # <<>> /\ chan' = Tail(chan) /\ UNCHANGED enc /\ UNCHANGED faults
  BY Taken DEF Receive
<1>2. p.cmd = "DIFF" /\ s \in Streams /\ p.changes \in Changes /\ p.sure \in BOOLEAN
  BY <1>1, PacketParts DEF DecodeDiff
<1>3. TableOK(dec, MaxEntries) /\ dec \in [Streams -> Entries] /\ MaxEntries \in Nat /\ FusionTyped
  BY FusionAssumption DEF FusionInv, FusionTyped, TableOK
<1>4. CASE dec[s] = NoEntry
  <2>1. UNCHANGED dec /\ UNCHANGED stale
    BY <1>1, <1>4 DEF DecodeDiff
  <2>2. FusionTyped'
    BY <1>1, <1>3, <2>1 DEF FusionTyped, TableOK, InCache
  <2>3. ASSUME NEW r \in Streams PROVE Led(r)'
    <3>1. ASSUME NEW e \in Entries, NEW f \in Entries, Step(r, e, p, f),
                 r \notin stale /\ dec[r] # NoEntry => dec[r] = e,
                 r \notin stale', dec'[r] # NoEntry
          PROVE  dec'[r] = f
      BY <1>4, <2>1, <3>1 DEF Step
    <3> QED  BY <1>1, <3>1, TakeLeads
  <2> QED  BY <2>2, <2>3, FusionInvFrom
<1>5. CASE dec[s] # NoEntry
  <2>1. /\ dec' = [dec EXCEPT ![s] = e0]
        /\ stale' = IF p.sure THEN stale ELSE stale \cup {s}
    BY <1>1, <1>5 DEF DecodeDiff
  <2>2. e0 \in Entries /\ e0 # NoEntry
    <3>1. dec[s] \in CacheEntry
      BY <1>2, <1>3, <1>5 DEF Entries
    <3>2. e0 \in CacheEntry
      BY <1>2, <3>1, AppliedIs
    <3> QED  BY <3>2, NoEntryIs DEF Entries
  <2> HIDE DEF e0, p, s
  <2>3. /\ TableOK(dec', MaxEntries) /\ dec'[s] = e0
        /\ \A r \in Streams : r # s => dec'[r] = dec[r]
    <3>1. Room(dec, s, MaxEntries)
      BY <1>5 DEF Room
    <3> QED  BY <1>2, <1>3, <2>1, <2>2, <3>1, TableWith
  <2>4. FusionTyped'
    <3>1. stale' \subseteq Streams /\ faults' \in 0 .. MaxFaults
      BY <1>1, <1>2, <1>3, <2>1 DEF FusionTyped
    <3>2. TableOK(enc, EncEntries)'
      BY <1>1, <1>3 DEF FusionTyped, TableOK, InCache
    <3>3. TableOK(dec, MaxEntries)'
      BY <2>3 DEF TableOK, InCache
    <3> QED  BY <1>1, <3>1, <3>2, <3>3 DEF FusionTyped
  <2>5. ASSUME NEW r \in Streams PROVE Led(r)'
    <3>1. ASSUME NEW e \in Entries, NEW f \in Entries, Step(r, e, p, f),
                 r \notin stale /\ dec[r] # NoEntry => dec[r] = e,
                 r \notin stale', dec'[r] # NoEntry
          PROVE  dec'[r] = f
      <4>1. CASE r # s
        BY <2>1, <2>3, <3>1, <4>1 DEF Step, s
      <4>2. CASE r = s
        <5>1. p.sure /\ r \notin stale
          BY <1>2, <2>1, <3>1, <4>2
        <5>2. dec[s] = e
          BY <1>5, <3>1, <4>2, <5>1
        <5>3. f = Applied(e, p.changes)
          BY <1>2, <3>1, <4>2, <5>1 DEF Step, s
        <5> QED  BY <2>3, <4>2, <5>2, <5>3 DEF e0
      <4> QED  BY <4>1, <4>2
    <3> QED  BY <1>1, <3>1, TakeLeads DEF p
  <2> QED  BY <2>4, <2>5, FusionInvFrom
<1> QED  BY <1>4, <1>5

\* A step that takes a packet and leaves the decoder's cache alone.
LEMMA PassedInv ==
  ASSUME FusionInv, chan # <<>>, chan' = Tail(chan), UNCHANGED enc, UNCHANGED dec,
         faults' \in 0 .. MaxFaults,
         stale' = IF Head1.cmd = "HEART" THEN stale ELSE stale \cup {Head1.stream}
  PROVE  FusionInv'
<1> DEFINE p == Head(chan)
           s == p.stream
<1>1. chan' \in Seq(Packet) /\ Len(chan') <= MaxChannel /\ p \in Packet /\ Head1 = p
  BY Taken
<1>2. p.stream \in Streams /\ FusionTyped
  BY <1>1, PacketParts DEF FusionInv
<1>3. FusionTyped'
  BY <1>1, <1>2 DEF FusionTyped, TableOK, InCache
<1>4. ASSUME NEW r \in Streams PROVE Led(r)'
  <2>1. ASSUME NEW e \in Entries, NEW f \in Entries, Step(r, e, p, f),
               r \notin stale /\ dec[r] # NoEntry => dec[r] = e,
               r \notin stale', dec'[r] # NoEntry
        PROVE  dec'[r] = f
    <3>1. r \notin stale /\ dec'[r] = e
      BY <1>1, <2>1
    <3>2. r # p.stream \/ p.cmd = "HEART"
      BY <1>1, <2>1
    <3>3. f = e
      BY <2>1, <3>2 DEF Step
    <3> QED  BY <3>1, <3>3
  <2> QED  BY <1>1, <2>1, TakeLeads
<1> QED  BY <1>3, <1>4, FusionInvFrom

LEMMA ReceiveInv ==
  ASSUME FusionInv, Receive
  PROVE  FusionInv'
<1>1. chan # <<>> /\ chan' = Tail(chan) /\ UNCHANGED enc /\ UNCHANGED faults
      /\ faults \in 0 .. MaxFaults
  BY DEF Receive, FusionInv, FusionTyped
<1>2. CASE DecodeFull
  BY <1>2, DecodeFullInv
<1>3. CASE DecodeDiff
  BY <1>3, DecodeDiffInv
<1>4. CASE DecodeHeart
  BY <1>1, <1>4, PassedInv DEF DecodeHeart
<1>5. CASE PassGap
  BY <1>1, <1>5, PassedInv DEF PassGap
<1> QED  BY <1>2, <1>3, <1>4, <1>5 DEF Receive

LEMMA LoseInv ==
  ASSUME FusionInv, Lose
  PROVE  FusionInv'
<1>1. faults' \in 0 .. MaxFaults
  BY FusionAssumption DEF Lose, FusionInv, FusionTyped
<1> QED  BY <1>1, PassedInv DEF Lose

LEMMA RepeatInv ==
  ASSUME FusionInv, Repeat
  PROVE  FusionInv'
<1>1. /\ chan # <<>> /\ Len(chan) < MaxChannel /\ chan' = <<Head(chan)>> \o chan
      /\ faults < MaxFaults /\ faults' = faults + 1
      /\ UNCHANGED enc /\ UNCHANGED dec /\ UNCHANGED stale
  BY DEF Repeat, Head1
<1>2. FusionTyped /\ chan \in Seq(Packet) /\ Len(chan) \in Nat
  BY DEF FusionInv, FusionTyped
<1>3. chan' \in Seq(Packet) /\ Len(chan') = Len(chan) + 1
  <2>1. Head(chan) \in Packet
    BY <1>1, <1>2
  <2> QED  BY <1>1, <1>2, <2>1
<1>4. FusionTyped'
  <2>1. Len(chan') <= MaxChannel /\ faults' \in 0 .. MaxFaults
    BY <1>1, <1>2, <1>3, FusionAssumption DEF FusionTyped
  <2> QED  BY <1>1, <1>2, <1>3, <2>1 DEF FusionTyped, TableOK, InCache
<1>5. ASSUME NEW r \in Streams PROVE Led(r)'
  <2>1. PICK t : Leads(r, t) /\ Tells(r, chan, t)
    BY LedTold
  <2>2. PICK u \in [0 .. Len(chan) + 1 -> Entries] :
          /\ Tells(r, chan', u)
          /\ u[Len(chan) + 1] = t[Len(chan)] /\ u[0] = t[0]
    <3>1. Path(r, chan', t[0], t[Len(chan)])
      BY <1>1, <1>2, <2>1, TellsRepeated
    <3> QED  BY <1>3, <3>1 DEF Path
  <2>3. u \in [0 .. Len(chan') -> Entries] /\ Tells(r, chan', u) /\ u[Len(chan')] = t[Len(chan)]
    BY <1>3, <2>2
  <2>4. t[Len(chan)] = enc'[r] /\ (r \notin stale' /\ dec'[r] # NoEntry => dec'[r] = u[0])
    BY <1>1, <2>1, <2>2 DEF Leads
  <2> QED  BY <2>3, <2>4 DEF Led, Leads
<1> QED  BY <1>4, <1>5, FusionInvFrom

\* What damage makes of a packet is a packet again, and no longer sure.
LEMMA DamagedFullIs ==
  ASSUME NEW p \in Packet, p.cmd = "FULL", NEW b \in Bodies, NEW h,
         h = [[p EXCEPT !.text = b] EXCEPT !.sure = FALSE]
  PROVE  h \in Packet /\ h.cmd = "FULL" /\ h.stream = p.stream /\ h.sure = FALSE
<1>1. p \in [cmd : {"FULL"}, stream : Streams, body : Bodies, text : Bodies, sure : BOOLEAN]
  BY PacketParts
<1>2. h \in [cmd : {"FULL"}, stream : Streams, body : Bodies, text : Bodies, sure : BOOLEAN]
  BY <1>1
<1>3. h.cmd = "FULL" /\ h.stream = p.stream /\ h.sure = FALSE
  BY <1>1
<1> QED  BY <1>2, <1>3 DEF Packet

LEMMA DamagedDiffIs ==
  ASSUME NEW p \in Packet, p.cmd = "DIFF", NEW ch \in Changes, NEW h,
         h = [[p EXCEPT !.changes = ch] EXCEPT !.sure = FALSE]
  PROVE  h \in Packet /\ h.cmd = "DIFF" /\ h.stream = p.stream /\ h.sure = FALSE
<1>1. p \in [cmd : {"DIFF"}, stream : Streams, body : Bodies, changes : Changes, sure : BOOLEAN]
  BY PacketParts
<1>2. h \in [cmd : {"DIFF"}, stream : Streams, body : Bodies, changes : Changes, sure : BOOLEAN]
  BY <1>1
<1>3. h.cmd = "DIFF" /\ h.stream = p.stream /\ h.sure = FALSE
  BY <1>1
<1> QED  BY <1>2, <1>3 DEF Packet

LEMMA NewChangesAre ==
  ASSUME NEW ch \in Changes, NEW b \in Bodies
  PROVE  [j \in DOMAIN ch \cap DOMAIN Parsed(b).vals |-> Parsed(b).vals[j]] \in Changes
<1> DEFINE e == Parsed(b)
           D == DOMAIN ch \cap DOMAIN e.vals
           g == [j \in D |-> e.vals[j]]
<1>1. D \in SUBSET (1 .. 2 * MaxSensors)
  BY DEF Changes
<1>2. \A j \in DOMAIN e.vals : e.vals[j] \in Values
  <2>1. CASE e = NoEntry
    BY <2>1, NoEntryIs
  <2>2. CASE e # NoEntry
    <3>1. e \in CacheEntry
      BY <2>2, ParsedIs
    <3>2. e.vals \in Seq(Values)
      BY <3>1 DEF CacheEntry
    <3> HIDE DEF e
    <3> QED  BY <3>2
  <2> QED  BY <2>1, <2>2
<1>3. g \in [D -> Values]
  BY <1>2
<1> HIDE DEF D
<1> QED  BY <1>1, <1>3 DEF Changes, D

LEMMA DamageInv ==
  ASSUME FusionInv, NEW b \in Bodies, Damage(b)
  PROVE  FusionInv'
<1> DEFINE p == Head(chan)
           ch == [j \in DOMAIN p.changes \cap DOMAIN Parsed(b).vals |-> Parsed(b).vals[j]]
           h == IF p.cmd = "FULL" THEN [[p EXCEPT !.text = b] EXCEPT !.sure = FALSE]
                ELSE [[p EXCEPT !.changes = ch] EXCEPT !.sure = FALSE]
<1>1. /\ chan # <<>> /\ p.cmd \in {"FULL", "DIFF"} /\ chan' = <<h>> \o Tail(chan)
      /\ faults < MaxFaults /\ faults' = faults + 1
      /\ UNCHANGED enc /\ UNCHANGED dec /\ UNCHANGED stale
  BY DEF Damage, Head1
<1>2. FusionTyped /\ chan \in Seq(Packet) /\ Len(chan) \in Nat /\ p \in Packet
  <2>1. FusionTyped /\ chan \in Seq(Packet)
    BY DEF FusionInv, FusionTyped
  <2>2. chan # <<>>
    BY <1>1
  <2> QED  BY <2>1, <2>2
<1>3. h \in Packet /\ h.cmd \in {"FULL", "DIFF"} /\ h.stream = p.stream /\ h.sure = FALSE
  <2>1. CASE p.cmd = "FULL"
    BY <1>2, <2>1, DamagedFullIs
  <2>2. CASE p.cmd = "DIFF"
    <3>1. ch \in Changes
      BY <1>2, <2>2, PacketParts, NewChangesAre
    <3> HIDE DEF ch
    <3> QED  BY <1>2, <2>2, <3>1, DamagedDiffIs
  <2> QED  BY <1>1, <2>1, <2>2
<1> HIDE DEF h, p
<1>4. ASSUME NEW r \in Streams
      PROVE  \E t : /\ Leads(r, t) /\ t \in [0 .. Len(chan) -> Entries]
                    /\ <<h>> \o Tail(chan) \in Seq(Packet) /\ Len(<<h>> \o Tail(chan)) = Len(chan)
                    /\ Tells(r, <<h>> \o Tail(chan), t)
  <2>1. PICK t : Leads(r, t) /\ Tells(r, chan, t) /\ t \in [0 .. Len(chan) -> Entries]
    BY LedTold
  <2>2. Step(r, t[0], p, t[1])
    BY <1>1, <1>2, <2>1, TellsTail DEF p
  <2>3. Step(r, t[0], h, t[1])
    BY <1>3, <2>2 DEF Step
  <2>4. /\ <<h>> \o Tail(chan) \in Seq(Packet) /\ Len(<<h>> \o Tail(chan)) = Len(chan)
        /\ Tells(r, <<h>> \o Tail(chan), t)
    BY <1>1, <1>2, <1>3, <2>1, <2>3, TellsReplaced
  <2> QED  BY <2>1, <2>4
<1>5. ASSUME NEW r \in Streams PROVE Led(r)'
  <2>1. PICK t : /\ Leads(r, t) /\ t \in [0 .. Len(chan) -> Entries]
                 /\ Len(chan') = Len(chan) /\ Tells(r, chan', t)
    BY <1>1, <1>4
  <2> QED  BY <1>1, <2>1 DEF Led, Leads
<1>6. FusionTyped'
  <2>1. chan' \in Seq(Packet) /\ Len(chan') <= MaxChannel
    <3>1. <<h>> \in Seq(Packet) /\ Len(<<h>>) = 1
      BY <1>3
    <3>2. Tail(chan) \in Seq(Packet) /\ Len(Tail(chan)) = Len(chan) - 1
      BY <1>1, <1>2
    <3>3. chan' \in Seq(Packet) /\ Len(chan') = 1 + (Len(chan) - 1)
      BY <1>1, <3>1, <3>2, ConcatProperties
    <3> QED  BY <1>2, <3>3, FusionAssumption DEF FusionTyped
  <2>2. faults' \in 0 .. MaxFaults
    BY <1>1, <1>2, FusionAssumption DEF FusionTyped
  <2> QED  BY <1>1, <1>2, <2>1, <2>2 DEF FusionTyped, TableOK, InCache
<1> QED  BY <1>5, <1>6, FusionInvFrom

LEMMA EmptyTable ==
  ASSUME NEW table, table = [s \in Streams |-> NoEntry], NEW m \in Nat
  PROVE  TableOK(table, m)
<1>1. InCache(table) = {}
  BY DEF InCache
<1>2. IsFiniteSet(InCache(table)) /\ Cardinality(InCache(table)) = 0
  BY <1>1, FS_EmptySet
<1>3. table \in [Streams -> Entries]
  BY DEF Entries
<1> QED  BY <1>2, <1>3 DEF TableOK

LEMMA ResetInv ==
  ASSUME FusionInv, Reset
  PROVE  FusionInv'
<1>1. /\ dec' = [s \in Streams |-> NoEntry] /\ stale' \subseteq Streams
      /\ faults < MaxFaults /\ faults' = faults + 1 /\ UNCHANGED enc /\ UNCHANGED chan
  BY DEF Reset
<1>2. FusionTyped'
  <2>1. TableOK(dec, MaxEntries)'
    <3>1. TableOK(dec', MaxEntries)
      BY <1>1, EmptyTable, FusionAssumption
    <3> QED  BY <3>1 DEF TableOK, InCache
  <2>2. faults' \in 0 .. MaxFaults
    BY <1>1, FusionAssumption DEF FusionInv, FusionTyped
  <2> QED  BY <1>1, <2>1, <2>2 DEF FusionInv, FusionTyped, TableOK, InCache
<1>3. ASSUME NEW r \in Streams PROVE Led(r)'
  BY <1>1, SameLeads
<1> QED  BY <1>2, <1>3, FusionInvFrom
-----------------------------------------------------------------------------
(* The specification *)

LEMMA FusionInit ==
  ASSUME Init
  PROVE  FusionInv
<1>1. Len(<<>>) = 0 /\ <<>> \in Seq(Packet)
  OBVIOUS
<1>2. FusionTyped
  BY <1>1, EmptyTable, FusionAssumption DEF Init, FusionTyped
<1>3. ASSUME NEW s \in Streams PROVE \E t \in [0 .. Len(chan) -> Entries] : Leads(s, t)
  <2> DEFINE t == [i \in 0 .. 0 |-> NoEntry]
  <2>1. t \in [0 .. Len(chan) -> Entries] /\ t[0] = NoEntry /\ Len(chan) = 0
    BY <1>1 DEF Init, Entries
  <2> HIDE DEF t
  <2>2. \A i \in 1 .. Len(chan) : Step(s, t[i - 1], chan[i], t[i])
    BY <2>1
  <2>3. Leads(s, t)
    BY <2>1, <2>2 DEF Leads, Tells, Init
  <2> QED  BY <2>1, <2>3
<1> QED  BY <1>2, <1>3 DEF FusionInv

LEMMA FusionStep ==
  ASSUME FusionInv, Next
  PROVE  FusionInv'
<1>1. ASSUME NEW s \in Streams, NEW c \in Multis[s], MultiAccepted(c)
      PROVE  MultiBody(c) \in Bodies
  BY <1>1 DEF Bodies, Calls
<1>2. ASSUME NEW s \in Streams, NEW r \in Readings[s], AutoAccepted(s, r) \/ PlainAccepted(s, r)
      PROVE  SingleBody(s, r) \in Bodies
  BY <1>2 DEF Bodies, SingleCalls
<1>3. ASSUME NEW s \in Streams, NEW c \in Multis[s], EncodeMulti(s, c) PROVE FusionInv'
  BY <1>1, <1>3, EncodeInv, EncodeFailsInv DEF EncodeMulti
<1>4. ASSUME NEW s \in Streams, NEW c \in Multis[s], DamageTo(c) PROVE FusionInv'
  BY <1>1, <1>4, DamageInv DEF DamageTo
<1>5. ASSUME NEW s \in Streams, NEW r \in Readings[s], EncodeAuto(s, r) PROVE FusionInv'
  BY <1>2, <1>5, EncodeInv, EncodeFailsInv DEF EncodeAuto
<1>6. ASSUME NEW s \in Streams, NEW r \in Readings[s], EncodePlain(s, r) PROVE FusionInv'
  BY <1>2, <1>6, SendPastInv DEF EncodePlain
<1>7. CASE Receive
  BY <1>7, ReceiveInv
<1>8. CASE Lose
  BY <1>8, LoseInv
<1>9. CASE Repeat
  BY <1>9, RepeatInv
<1>10. CASE Reset
  BY <1>10, ResetInv
<1> QED  BY <1>3, <1>4, <1>5, <1>6, <1>7, <1>8, <1>9, <1>10 DEF Next

LEMMA FusionStutter ==
  ASSUME FusionInv, UNCHANGED vars
  PROVE  FusionInv'
<1>1. UNCHANGED enc /\ UNCHANGED dec /\ UNCHANGED chan /\ UNCHANGED stale /\ UNCHANGED faults
  BY DEF vars
<1>2. FusionTyped'
  BY <1>1 DEF FusionInv, FusionTyped, TableOK, InCache
<1>3. ASSUME NEW r \in Streams PROVE Led(r)'
  BY <1>1, SameLeads
<1> QED  BY <1>2, <1>3, FusionInvFrom

\* In every state there is, for every stream, a chain of entries, one after each
\* packet under way, that ends in what osfx_fusion_encode has cached and begins,
\* if osfx_fusion_decode_apply has missed nothing, with what that has cached.
THEOREM FusionInvariant == Spec => []FusionInv
<1>1. Init => FusionInv
  BY FusionInit
<1>2. FusionInv /\ [Next]_vars => FusionInv'
  BY FusionStep, FusionStutter
<1> QED  BY <1>1, <1>2, PTL DEF Spec

\* Neither cache of src/osfx_fusion_state.c ever holds more streams than it has
\* entries, more sensors than an entry has slots, or slots without a tag.
THEOREM FusionTypeCorrect == Spec => []TypeOK
<1>1. FusionInv => TypeOK
  <2> SUFFICES ASSUME FusionInv PROVE TypeOK
    OBVIOUS
  <2>1. FusionTyped
    BY DEF FusionInv
  <2>2. ASSUME NEW e \in Entries PROVE EntryOK(e)
    <3> SUFFICES ASSUME e # NoEntry
                 PROVE  /\ e.header # NoEntry.header
                        /\ Len(e.vals) = 2 * Len(e.tags)
                        /\ Len(e.tags) \in 1 .. MaxSensors
      BY DEF EntryOK
    <3>1. e.header \in Headers /\ Len(e.vals) = 2 * Len(e.tags) /\ Len(e.tags) \in 1 .. MaxSensors
      BY DEF Entries, CacheEntry
    <3>2. e.header # NoEntry.header
      BY <3>1, BodyIs, NoEntryIs DEF Headers
    <3> QED  BY <3>1, <3>2
  <2>3. \A s \in Streams : EntryOK(enc[s]) /\ EntryOK(dec[s])
    BY <2>1, <2>2 DEF FusionTyped, TableOK
  <2> QED  BY <2>1, <2>3 DEF TypeOK, FusionTyped, TableOK, InCache
<1> QED  BY <1>1, FusionInvariant, PTL

\* When no packet of a stream is under way and the decoder missed none, its entry
\* is the encoder's, however often packets were lost, repeated, damaged, refused
\* or sent past the cache before the FULL that made the two agree again.
THEOREM CachesStayTogether == Spec => []CachesAgree
<1>1. FusionInv => CachesAgree
  <2> SUFFICES ASSUME FusionInv, NEW s \in Streams, s \notin stale, dec[s] # NoEntry,
                      \A i \in 1 .. Len(chan) : chan[i].stream # s
               PROVE  dec[s] = enc[s]
    BY DEF CachesAgree
  <2>1. PICK t : Leads(s, t) /\ Tells(s, chan, t)
    BY LedTold
  <2>2. chan \in Seq(Packet)
    BY DEF FusionInv, FusionTyped
  <2>3. t[0] = t[Len(chan)]
    BY <2>1, <2>2, Settled
  <2> QED  BY <2>1, <2>3 DEF Leads
<1> QED  BY <1>1, FusionInvariant, PTL

\* A DIFF or HEART that the decoder can know hands on, rebuilt from its cache,
\* the sensors that osfx_fusion_encode kept of the body it was called with: the
\* ones that fit its slots, with the texts of that call and no other.
BodiesComeBack ==
  [][ got'.cmd \in {"DIFF", "HEART"} /\ got'.stream \notin stale'
      => got'.out = Rebuilt(Parsed(got'.in)) ]_vars

\* The first packet under way does to a cache that missed nothing what was done
\* to the encoder's.
LEMMA HeadTells ==
  ASSUME FusionInv, chan # <<>>, Head(chan).stream \notin stale, dec[Head(chan).stream] # NoEntry
  PROVE  /\ Head(chan) \in Packet
         /\ \E f \in Entries : Step(Head(chan).stream, dec[Head(chan).stream], Head(chan), f)
<1> DEFINE s == Head(chan).stream
<1>1. chan \in Seq(Packet) /\ Head(chan) \in Packet
  <2>1. chan \in Seq(Packet)
    BY DEF FusionInv, FusionTyped
  <2> QED  BY <2>1
<1>2. s \in Streams
  BY <1>1, PacketParts
<1>3. PICK t : Leads(s, t) /\ Tells(s, chan, t) /\ t \in [0 .. Len(chan) -> Entries]
  BY <1>2, LedTold
<1>4. Step(s, t[0], Head(chan), t[1])
  BY <1>1, <1>3, TellsTail
<1>5. t[0] = dec[s]
  BY <1>3 DEF Leads
<1>6. t[1] \in Entries
  <2>1. Len(chan) \in Nat /\ Len(chan) >= 1
    BY <1>1, EmptySeq
  <2> QED  BY <1>3, <2>1
<1> QED  BY <1>1, <1>4, <1>5, <1>6

LEMMA ReceiveComesBack ==
  ASSUME FusionInv, Receive, got'.cmd \in {"DIFF", "HEART"}, got'.stream \notin stale'
  PROVE  /\ got'.in \in Bodies /\ Parsed(got'.in) # NoEntry
         /\ got'.out = Rebuilt(Parsed(got'.in))
<1> DEFINE p == Head(chan)
           s == p.stream
<1>1. chan # <<>> /\ Head1 = p /\ p \in Packet
  BY Taken DEF Receive
<1>2. Nothing.cmd = "NONE"
  BY DEF Nothing
<1>3. CASE DecodeFull
  BY <1>3 DEF DecodeFull
<1>4. CASE DecodeDiff
  <2>1. p.cmd = "DIFF" /\ p.sure \in BOOLEAN
    BY <1>1, <1>4, PacketParts DEF DecodeDiff
  <2>2. dec[s] # NoEntry
    BY <1>1, <1>2, <1>4 DEF DecodeDiff
  <2>3. /\ dec' = [dec EXCEPT ![s] = Applied(@, p.changes)]
        /\ stale' = IF p.sure THEN stale ELSE stale \cup {s}
        /\ got' = [cmd |-> "DIFF", stream |-> s, in |-> p.body, out |-> Rebuilt(dec'[s])]
    BY <1>1, <1>4, <2>2 DEF DecodeDiff
  <2>4. s \in Streams /\ dec \in [Streams -> Entries]
    BY <1>1, PacketParts DEF FusionInv, FusionTyped, TableOK
  <2>5. dec'[s] = Applied(dec[s], p.changes)
    BY <2>3, <2>4
  <2> HIDE DEF p, s
  <2>6. got'.stream = s /\ got'.in = p.body /\ got'.out = Rebuilt(dec'[s])
    BY <2>3
  <2>7. p.sure /\ s \notin stale
    BY <2>1, <2>3, <2>6
  <2>8. PICK f \in Entries : Step(s, dec[s], p, f)
    BY <1>1, <2>2, <2>7, HeadTells DEF p, s
  <2>9. dec'[s] = Parsed(p.body)
    BY <2>1, <2>5, <2>7, <2>8 DEF Step, s
  <2>10. p.body \in Bodies /\ p.changes \in Changes
    BY <1>1, <2>1, PacketParts
  <2>11. dec[s] \in CacheEntry
    BY <2>2, <2>4 DEF Entries
  <2>12. Applied(dec[s], p.changes) # NoEntry
    BY <2>10, <2>11, AppliedIs, NoEntryIs
  <2> QED  BY <2>5, <2>6, <2>9, <2>10, <2>12
<1>5. CASE DecodeHeart
  <2>1. p.cmd = "HEART"
    BY <1>1, <1>5 DEF DecodeHeart
  <2>2. dec[s] # NoEntry
    BY <1>1, <1>2, <1>5 DEF DecodeHeart
  <2>3. /\ stale' = stale
        /\ got' = [cmd |-> "HEART", stream |-> s, in |-> p.body, out |-> Rebuilt(dec[s])]
    BY <1>1, <1>5, <2>2 DEF DecodeHeart
  <2> HIDE DEF p, s
  <2>4. got'.stream = s /\ got'.in = p.body /\ got'.out = Rebuilt(dec[s])
    BY <2>3
  <2>5. PICK f \in Entries : Step(s, dec[s], p, f)
    BY <1>1, <2>2, <2>3, <2>4, HeadTells DEF p, s
  <2>6. dec[s] = Parsed(p.body)
    BY <2>1, <2>5 DEF Step, s
  <2>7. p.body \in Bodies
    BY <1>1, <2>1, PacketParts
  <2> QED  BY <2>2, <2>4, <2>6, <2>7
<1>6. CASE PassGap
  BY <1>2, <1>6 DEF PassGap
<1> QED  BY <1>3, <1>4, <1>5, <1>6 DEF Receive

THEOREM BodiesAreRebuilt == Spec => BodiesComeBack
<1>1. FusionInv /\ [Next]_vars
      => [ got'.cmd \in {"DIFF", "HEART"} /\ got'.stream \notin stale'
           => got'.out = Rebuilt(Parsed(got'.in)) ]_vars
  <2> SUFFICES ASSUME FusionInv, Next, got'.cmd \in {"DIFF", "HEART"}, got'.stream \notin stale'
               PROVE  got'.out = Rebuilt(Parsed(got'.in))
    OBVIOUS
  <2>1. got' # Nothing
    BY DEF Nothing
  <2>2. Receive
    BY <2>1 DEF Next, EncodeMulti, EncodeAuto, EncodePlain, DamageTo, Encode, EncodeFails,
                SendPast, Damage, Lose, Repeat, Reset
  <2> QED  BY <2>2, ReceiveComesBack
<1> QED  BY <1>1, FusionInvariant, PTL DEF Spec, BodiesComeBack
-----------------------------------------------------------------------------
(* Numbers one after the other, and functions computed from smaller numbers *)

\* What holds of 0, and of n + 1 if of n, holds of every number.  A least number
\* of which it does not hold would have one before it.
LEMMA EveryNumber ==
  ASSUME NEW T, 0 \in T, \A n \in Nat : n \in T => n + 1 \in T
  PROVE  Nat \subseteq T
<1> SUFFICES ASSUME NEW x \in Nat, x \notin T PROVE FALSE
  OBVIOUS
<1> DEFINE S == {y \in 1 .. x : y \notin T}
<1>1. S \in SUBSET (1 .. x) /\ x \in S
  OBVIOUS
<1>2. PICK r \in S : \A q \in S : r <= q
  <2> HIDE DEF S
  <2> QED  BY <1>1, LowestSlot
<1>3. r \in 1 .. x /\ r \notin T
  OBVIOUS
<1>4. r - 1 \in T
  <2>1. r - 1 \notin S
    BY <1>1, <1>2, <1>3
  <2>2. CASE r = 1
    BY <2>2
  <2>3. CASE r # 1
    BY <1>3, <2>1, <2>3
  <2> QED  BY <2>2, <2>3
<1> QED  BY <1>3, <1>4

\* What holds of n if it holds of all smaller numbers holds of every number.
LEMMA EveryNumberBelow ==
  ASSUME NEW T, \A n \in Nat : (\A k \in 0 .. n - 1 : k \in T) => n \in T
  PROVE  Nat \subseteq T
<1> DEFINE U == {n \in Nat : \A k \in 0 .. n : k \in T}
<1>1. 0 \in U
  <2>1. 0 \in T
    OBVIOUS
  <2> QED  BY <2>1
<1>2. ASSUME NEW n \in Nat, n \in U PROVE n + 1 \in U
  <2>1. \A k \in 0 .. n : k \in T
    BY <1>2
  <2>2. n + 1 \in T
    BY <2>1
  <2> QED  BY <2>1, <2>2
<1> HIDE DEF U
<1>3. Nat \subseteq U
  BY <1>1, <1>2, EveryNumber
<1> QED  BY <1>3 DEF U


\* How a function of the numbers to S is computed: its values on given are first's,
\* and any other is had of the value at a smaller number.
Rule(S) ==
  {r \in [given : SUBSET Nat, first : [Nat -> S], prev : [Nat -> Nat], step : [Nat \X S -> S]] :
     \A n \in Nat \ r.given : r.prev[n] < n}

Follows(r, f, n) == f[n] = IF n \in r.given THEN r.first[n] ELSE r.step[<<n, f[r.prev[n]]>>]

Prefixes(r, S, n) == {g \in [0 .. n -> S] : \A k \in 0 .. n : Follows(r, g, k)}

LEMMA RuleIs ==
  ASSUME NEW S, NEW r \in Rule(S)
  PROVE  /\ r.first \in [Nat -> S] /\ r.prev \in [Nat -> Nat] /\ r.step \in [Nat \X S -> S]
         /\ \A n \in Nat \ r.given : r.prev[n] \in 0 .. n - 1
<1>1. r.first \in [Nat -> S] /\ r.prev \in [Nat -> Nat] /\ r.step \in [Nat \X S -> S]
  BY DEF Rule
<1>2. ASSUME NEW n \in Nat \ r.given PROVE r.prev[n] \in 0 .. n - 1
  <2>1. r.prev[n] \in Nat /\ r.prev[n] < n
    BY <1>1 DEF Rule
  <2> QED  BY <2>1
<1> QED  BY <1>1, <1>2

LEMMA PrefixExists ==
  ASSUME NEW S, NEW r \in Rule(S), NEW n \in Nat
  PROVE  Prefixes(r, S, n) # {}
<1>0. /\ r.first \in [Nat -> S] /\ r.prev \in [Nat -> Nat] /\ r.step \in [Nat \X S -> S]
      /\ \A k \in Nat : k \notin r.given => r.prev[k] \in 0 .. k - 1
  BY RuleIs
<1> DEFINE T == {m \in Nat : Prefixes(r, S, m) # {}}
<1>1. 0 \in T
  <2> DEFINE g == [k \in 0 .. 0 |-> r.first[0]]
  <2>1. 0 \in r.given
    <3>1. ~(r.prev[0] \in 0 .. 0 - 1)
      OBVIOUS
    <3> QED  BY <3>1, <1>0
  <2>2. g \in [0 .. 0 -> S] /\ g[0] = r.first[0]
    BY <1>0
  <2> HIDE DEF g
  <2>3. g \in Prefixes(r, S, 0)
    BY <2>1, <2>2 DEF Prefixes, Follows
  <2> QED  BY <2>3
<1>2. ASSUME NEW m \in Nat, m \in T PROVE m + 1 \in T
  <2>1. PICK g \in [0 .. m -> S] : \A k \in 0 .. m : Follows(r, g, k)
    BY <1>2 DEF Prefixes
  <2> DEFINE v == IF m + 1 \in r.given THEN r.first[m + 1]
                  ELSE r.step[<<m + 1, g[r.prev[m + 1]]>>]
             h == [k \in 0 .. m + 1 |-> IF k <= m THEN g[k] ELSE v]
  <2>2. v \in S
    <3>1. CASE m + 1 \in r.given
      BY <3>1, <1>0
    <3>2. CASE m + 1 \notin r.given
      <4>1. r.prev[m + 1] \in 0 .. m
        BY <3>2, <1>0
      <4>2. g[r.prev[m + 1]] \in S
        BY <4>1
      <4>3. <<m + 1, g[r.prev[m + 1]]>> \in Nat \X S
        BY <4>2
      <4> HIDE DEF v
      <4>4. \A x \in Nat \X S : r.step[x] \in S
        BY <1>0
      <4> QED  BY <3>2, <4>3, <4>4 DEF v
    <3> QED  BY <3>1, <3>2
  <2>3. h \in [0 .. m + 1 -> S] /\ h[m + 1] = v /\ \A k \in 0 .. m : h[k] = g[k]
    <3> HIDE DEF v
    <3> QED  BY <2>2
  <2> HIDE DEF h
  <2>4. ASSUME NEW k \in 0 .. m + 1 PROVE Follows(r, h, k)
    <3>1. ASSUME k \notin r.given PROVE r.prev[k] \in 0 .. k - 1
      <4>1. k \in Nat
        OBVIOUS
      <4>2. k \in Nat \ r.given
        BY <3>1, <4>1
      <4>3. r.prev[k] < k
        BY <1>0, <4>2
      <4>4. r.prev[k] \in Nat
        BY <1>0, <4>1
      <4> QED  BY <4>1, <4>3, <4>4
    <3>2. CASE k \in 0 .. m
      <4>1. h[k] = g[k] /\ (k \notin r.given => h[r.prev[k]] = g[r.prev[k]])
        <5>1. k \notin r.given => r.prev[k] \in 0 .. m
          BY <3>1, <3>2
        <5> QED  BY <2>3, <3>2, <5>1
      <4> QED  BY <2>1, <3>2, <4>1 DEF Follows
    <3>3. CASE k = m + 1
      BY <2>3, <3>1, <3>3 DEF Follows
    <3> QED  BY <3>2, <3>3
  <2>5. h \in Prefixes(r, S, m + 1)
    BY <2>3, <2>4 DEF Prefixes
  <2> QED  BY <2>5
<1> HIDE DEF T
<1>3. n \in T
  BY <1>1, <1>2, EveryNumber
<1> QED  BY <1>3 DEF T

LEMMA PrefixesAgree ==
  ASSUME NEW S, NEW r \in Rule(S), NEW m \in Nat, NEW n \in Nat,
         NEW g \in Prefixes(r, S, m), NEW h \in Prefixes(r, S, n),
         NEW k \in Nat, k <= m, k <= n
  PROVE  g[k] = h[k]
<1>0. /\ r.first \in [Nat -> S] /\ r.prev \in [Nat -> Nat] /\ r.step \in [Nat \X S -> S]
      /\ \A j \in Nat : j \notin r.given => r.prev[j] \in 0 .. j - 1
  BY RuleIs
<1> DEFINE T == {i \in Nat : i <= m /\ i <= n => g[i] = h[i]}
<1>1. ASSUME NEW i \in Nat, \A j \in 0 .. i - 1 : j \in T PROVE i \in T
  <2> SUFFICES ASSUME i <= m, i <= n PROVE g[i] = h[i]
    OBVIOUS
  <2>1. Follows(r, g, i) /\ Follows(r, h, i)
    BY DEF Prefixes
  <2>2. CASE i \in r.given
    BY <2>1, <2>2 DEF Follows
  <2>3. CASE i \notin r.given
    <3>1. r.prev[i] \in 0 .. i - 1
      BY <2>3, <1>0
    <3>2. g[r.prev[i]] = h[r.prev[i]]
      BY <1>1, <3>1
    <3> QED  BY <2>1, <2>3, <3>2 DEF Follows
  <2> QED  BY <2>2, <2>3
<1> HIDE DEF T
<1>2. k \in T
  BY <1>1, EveryNumberBelow
<1> QED  BY <1>2 DEF T

\* A rule is followed by a function.
LEMMA RecursiveFunction ==
  ASSUME NEW S, NEW r \in Rule(S)
  PROVE  \E f \in [Nat -> S] : \A n \in Nat : Follows(r, f, n)
<1>0. /\ r.first \in [Nat -> S] /\ r.prev \in [Nat -> Nat] /\ r.step \in [Nat \X S -> S]
      /\ \A k \in Nat : k \notin r.given => r.prev[k] \in 0 .. k - 1
  BY RuleIs
<1> DEFINE upto == [n \in Nat |-> CHOOSE g \in Prefixes(r, S, n) : TRUE]
           f == [n \in Nat |-> upto[n][n]]
<1>1. \A n \in Nat : upto[n] \in Prefixes(r, S, n)
  BY PrefixExists
<1> HIDE DEF upto
<1>2. \A n \in Nat : upto[n] \in [0 .. n -> S] /\ \A k \in 0 .. n : Follows(r, upto[n], k)
  BY <1>1 DEF Prefixes
<1>3. f \in [Nat -> S] /\ \A n \in Nat : f[n] = upto[n][n]
  BY <1>2
<1> HIDE DEF f
<1>4. ASSUME NEW n \in Nat PROVE Follows(r, f, n)
  <2>1. Follows(r, upto[n], n)
    BY <1>2
  <2>2. CASE n \in r.given
    BY <1>3, <2>1, <2>2 DEF Follows
  <2>3. CASE n \notin r.given
    <3> DEFINE i == r.prev[n]
    <3>1. i \in 0 .. n - 1
      BY <1>0, <2>3
    <3>2. upto[i][i] = upto[n][i]
      <4> HIDE DEF i
      <4>1. i \in Nat /\ i <= i /\ i <= n
        BY <3>1
      <4> QED  BY <1>1, <4>1, PrefixesAgree
    <3> QED  BY <1>3, <2>1, <2>3, <3>1, <3>2 DEF Follows
  <2> QED  BY <2>2, <2>3
<1> QED  BY <1>3, <1>4
-----------------------------------------------------------------------------
(* Loops, and base 62 *)

\* f has the values of a variable that starts at start and that round i of a loop
\* of n rounds changes by next.
Loops(f, n, start, next) == f[0] = start /\ \A i \in 1 .. n : f[i] = next[<<i, f[i - 1]>>]

LEMMA LoopFunction ==
  ASSUME NEW S, NEW n \in Nat, NEW start \in S, NEW next \in [(1 .. n) \X S -> S]
  PROVE  \E f \in [0 .. n -> S] : Loops(f, n, start, next)
<1> DEFINE first == [i \in Nat |-> start]
           prev == [i \in Nat |-> IF i = 0 THEN 0 ELSE i - 1]
           step == [x \in Nat \X S |-> IF x[1] \in 1 .. n THEN next[x] ELSE start]
           r == [given |-> {0}, first |-> first, prev |-> prev, step |-> step]
<1>1. first \in [Nat -> S] /\ prev \in [Nat -> Nat] /\ \A i \in Nat \ {0} : prev[i] = i - 1
  OBVIOUS
<1>2. step \in [Nat \X S -> S]
  <2>1. ASSUME NEW x \in Nat \X S, x[1] \in 1 .. n PROVE next[x] \in S
    <3>1. x \in (1 .. n) \X S
      BY <2>1
    <3> QED  BY <3>1
  <2> QED  BY <2>1
<1>3. \A i \in 1 .. n : \A y \in S : step[<<i, y>>] = next[<<i, y>>]
  OBVIOUS
<1> HIDE DEF first, prev, step
<1>4. r \in Rule(S)
  <2>1. \A i \in Nat \ {0} : prev[i] < i
    BY <1>1
  <2> QED  BY <1>1, <1>2, <2>1 DEF Rule
<1>5. PICK f \in [Nat -> S] : \A i \in Nat : Follows(r, f, i)
  <2> HIDE DEF r
  <2> QED  BY <1>4, RecursiveFunction
<1>6. \A i \in Nat : f[i] = IF i = 0 THEN first[i] ELSE step[<<i, f[prev[i]]>>]
  BY <1>5 DEF Follows
<1>7. ASSUME NEW i \in 1 .. n PROVE f[i] = next[<<i, f[i - 1]>>]
  <2>1. i # 0 /\ i \in Nat /\ i - 1 \in Nat /\ f[i - 1] \in S
    OBVIOUS
  <2> QED  BY <1>1, <1>3, <1>6, <2>1
<1>8. f[0] = start
  BY <1>6 DEF first
<1> DEFINE g == [i \in 0 .. n |-> f[i]]
<1>9. g \in [0 .. n -> S] /\ \A i \in 0 .. n : g[i] = f[i]
  OBVIOUS
<1> HIDE DEF g
<1>10. g[0] = start /\ \A i \in 1 .. n : g[i] = next[<<i, g[i - 1]>>]
  <2>1. \A i \in 1 .. n : i \in 0 .. n /\ i - 1 \in 0 .. n
    OBVIOUS
  <2>2. 0 \in 0 .. n
    OBVIOUS
  <2> QED  BY <1>7, <1>8, <1>9, <2>1, <2>2
<1> QED  BY <1>9, <1>10 DEF Loops

\* osfx_b62_encode_i64 writes the last digit of a number after those of the rest.
LEMMA DigitsIs ==
  ASSUME NEW n \in Nat
  PROVE  /\ Digits[n] \in Seq(Nat)
         /\ Digits[n] = IF n < 62 THEN <<n>> ELSE Append(Digits[n \div 62], n % 62)
<1> DEFINE S == Seq(Nat)
           first == [i \in Nat |-> <<i>>]
           prev == [i \in Nat |-> i \div 62]
           step == [x \in Nat \X S |-> Append(x[2], x[1] % 62)]
           r == [given |-> 0 .. 61, first |-> first, prev |-> prev, step |-> step]
<1>1. first \in [Nat -> S] /\ prev \in [Nat -> Nat]
  OBVIOUS
<1>2. step \in [Nat \X S -> S]
  <2>1. ASSUME NEW x \in Nat \X S PROVE Append(x[2], x[1] % 62) \in S
    <3>1. x[2] \in Seq(Nat) /\ x[1] % 62 \in Nat
      OBVIOUS
    <3> QED  BY <3>1
  <2> QED  BY <2>1
<1>3. \A i \in Nat : i \notin 0 .. 61 => prev[i] < i
  OBVIOUS
<1>4. \A i \in Nat, y \in S : step[<<i, y>>] = Append(y, i % 62)
  OBVIOUS
<1>5. \A i \in Nat : first[i] = <<i>> /\ prev[i] = i \div 62
  OBVIOUS
<1> HIDE DEF first, prev, step, S
<1>6. r \in Rule(S)
  <2>1. 0 .. 61 \in SUBSET Nat
    OBVIOUS
  <2> QED  BY <1>1, <1>2, <1>3, <2>1 DEF Rule
<1>7. PICK f \in [Nat -> S] : \A i \in Nat : Follows(r, f, i)
  <2> HIDE DEF r
  <2> QED  BY <1>6, RecursiveFunction
<1>8. ASSUME NEW i \in Nat PROVE f[i] = IF i < 62 THEN <<i>> ELSE Append(f[i \div 62], i % 62)
  <2>1. f[i] = IF i \in 0 .. 61 THEN first[i] ELSE step[<<i, f[prev[i]]>>]
    BY <1>7 DEF Follows
  <2>2. i \div 62 \in Nat /\ f[i \div 62] \in S
    <3>1. i \div 62 \in Nat
      OBVIOUS
    <3> QED  BY <3>1
  <2>3. CASE i < 62
    BY <1>5, <2>1, <2>3
  <2>4. CASE ~(i < 62)
    <3>1. f[i] = step[<<i, f[i \div 62]>>]
      BY <1>5, <2>1, <2>4
    <3> QED  BY <1>4, <2>2, <2>4, <3>1
  <2> QED  BY <2>3, <2>4
<1>9. f = [i \in Nat |-> IF i < 62 THEN <<i>> ELSE Append(f[i \div 62], i % 62)]
  BY <1>8
<1>10. Digits = [i \in Nat |-> IF i < 62 THEN <<i>> ELSE Append(Digits[i \div 62], i % 62)]
  BY <1>9 DEF Digits
<1>11. Digits[n] = IF n < 62 THEN <<n>> ELSE Append(Digits[n \div 62], n % 62)
  BY <1>10
<1> DEFINE T == {i \in Nat : Digits[i] \in Seq(Nat)}
<1>12. ASSUME NEW i \in Nat, \A j \in 0 .. i - 1 : j \in T PROVE i \in T
  <2>1. Digits[i] = IF i < 62 THEN <<i>> ELSE Append(Digits[i \div 62], i % 62)
    BY <1>10
  <2>2. CASE i < 62
    <3>1. <<i>> \in Seq(Nat)
      OBVIOUS
    <3> QED  BY <2>1, <2>2, <3>1
  <2>3. CASE ~(i < 62)
    <3>1. i \div 62 \in 0 .. i - 1 /\ i % 62 \in Nat
      BY <2>3
    <3>2. Digits[i \div 62] \in Seq(Nat)
      BY <1>12, <3>1
    <3>3. Append(Digits[i \div 62], i % 62) \in Seq(Nat)
      BY <3>1, <3>2, AppendProperties
    <3> QED  BY <2>1, <2>3, <3>3
  <2> QED  BY <2>2, <2>3
<1> HIDE DEF T
<1>13. n \in T
  BY <1>12, EveryNumberBelow
<1> QED  BY <1>11, <1>13 DEF T

\* osfx_b62_decode_i64 shifts in one digit after the other.
LEMMA ReadDigitsIs ==
  ASSUME NEW ds \in Seq(Nat)
  PROVE  /\ ReadDigits(ds) \in [0 .. Len(ds) -> Nat]
         /\ ReadDigits(ds)[0] = 0
         /\ \A i \in 1 .. Len(ds) : ReadDigits(ds)[i] = ReadDigits(ds)[i - 1] * 62 + ds[i]
<1> DEFINE n == Len(ds)
           next == [x \in (1 .. n) \X Nat |-> x[2] * 62 + ds[x[1]]]
<1>1. n \in Nat /\ \A i \in 1 .. n : ds[i] \in Nat
  OBVIOUS
<1>2. next \in [(1 .. n) \X Nat -> Nat]
  <2>1. ASSUME NEW x \in (1 .. n) \X Nat PROVE x[2] * 62 + ds[x[1]] \in Nat
    <3>1. x[2] \in Nat /\ ds[x[1]] \in Nat
      OBVIOUS
    <3> QED  BY <3>1
  <2> QED  BY <2>1
<1>3. \A i \in 1 .. n, y \in Nat : next[<<i, y>>] = y * 62 + ds[i]
  OBVIOUS
<1> HIDE DEF next, n
<1>4. PICK f \in [0 .. n -> Nat] : Loops(f, n, 0, next)
  BY <1>1, <1>2, LoopFunction
<1>5. ASSUME NEW i \in 0 .. n PROVE f[i] = IF i = 0 THEN 0 ELSE f[i - 1] * 62 + ds[i]
  <2>1. CASE i = 0
    BY <1>4, <2>1 DEF Loops
  <2>2. CASE i # 0
    <3>1. i \in 1 .. n /\ f[i - 1] \in Nat
      BY <1>1, <2>2
    <3> QED  BY <1>3, <1>4, <2>2, <3>1 DEF Loops
  <2> QED  BY <2>1, <2>2
<1>6. f = [i \in 0 .. n |-> IF i = 0 THEN 0 ELSE f[i - 1] * 62 + ds[i]]
  BY <1>5
<1>7. ReadDigits(ds) = [i \in 0 .. n |-> IF i = 0 THEN 0 ELSE ReadDigits(ds)[i - 1] * 62 + ds[i]]
  BY <1>6 DEF ReadDigits, n
<1> DEFINE g == ReadDigits(ds)
           T == {i \in Nat : i <= n => g[i] \in Nat}
<1> HIDE DEF g
<1>8. g = [i \in 0 .. n |-> IF i = 0 THEN 0 ELSE g[i - 1] * 62 + ds[i]]
  BY <1>7 DEF g
<1>9. \A i \in 0 .. n : g[i] = IF i = 0 THEN 0 ELSE g[i - 1] * 62 + ds[i]
  BY <1>8
<1>10. 0 \in T
  BY <1>1, <1>9
<1>11. ASSUME NEW i \in Nat, i \in T PROVE i + 1 \in T
  <2> SUFFICES ASSUME i + 1 <= n PROVE g[i + 1] \in Nat
    OBVIOUS
  <2>1. i + 1 \in 1 .. n /\ i + 1 \in 0 .. n /\ (i + 1) - 1 = i /\ i + 1 # 0 /\ i <= n
    BY <1>1
  <2>2. g[i] \in Nat /\ ds[i + 1] \in Nat /\ g[i + 1] = g[i] * 62 + ds[i + 1]
    BY <1>1, <1>9, <1>11, <2>1
  <2> QED  BY <2>2
<1> HIDE DEF T
<1>12. Nat \subseteq T
  BY <1>10, <1>11, EveryNumber
<1>13. g \in [0 .. n -> Nat]
  <2>1. \A i \in 0 .. n : g[i] \in Nat
    BY <1>1, <1>12 DEF T
  <2>2. g = [i \in 0 .. n |-> g[i]]
    BY <1>8
  <2> QED  BY <2>1, <2>2
<1> QED  BY <1>1, <1>9, <1>13 DEF g, n

LEMMA ReadAppended ==
  ASSUME NEW ds \in Seq(Nat), NEW d \in Nat
  PROVE  ReadDigits(Append(ds, d))[Len(ds) + 1] = ReadDigits(ds)[Len(ds)] * 62 + d
<1> DEFINE n == Len(ds)
           es == Append(ds, d)
           T == {i \in Nat : i <= n => ReadDigits(es)[i] = ReadDigits(ds)[i]}
<1>1. /\ n \in Nat /\ es \in Seq(Nat) /\ Len(es) = n + 1 /\ es[n + 1] = d
      /\ \A i \in 1 .. n : es[i] = ds[i]
  BY AppendProperties, LenProperties
<1> HIDE DEF n, es
<1>2. /\ ReadDigits(es)[0] = 0
      /\ \A i \in 1 .. n + 1 : ReadDigits(es)[i] = ReadDigits(es)[i - 1] * 62 + es[i]
  BY <1>1, ReadDigitsIs
<1>3. /\ ReadDigits(ds)[0] = 0
      /\ \A i \in 1 .. n : ReadDigits(ds)[i] = ReadDigits(ds)[i - 1] * 62 + ds[i]
  BY ReadDigitsIs DEF n
<1>4. 0 \in T
  BY <1>2, <1>3
<1>5. ASSUME NEW i \in Nat, i \in T PROVE i + 1 \in T
  <2> SUFFICES ASSUME i + 1 <= n PROVE ReadDigits(es)[i + 1] = ReadDigits(ds)[i + 1]
    OBVIOUS
  <2>1. i + 1 \in 1 .. n /\ i + 1 \in 1 .. n + 1 /\ (i + 1) - 1 = i /\ i <= n
    BY <1>1
  <2>2. ReadDigits(es)[i] = ReadDigits(ds)[i]
    BY <1>5, <2>1
  <2>3. ReadDigits(es)[i + 1] = ReadDigits(es)[i] * 62 + es[i + 1]
    BY <1>2, <2>1
  <2>4. ReadDigits(ds)[i + 1] = ReadDigits(ds)[i] * 62 + ds[i + 1]
    BY <1>3, <2>1
  <2>5. es[i + 1] = ds[i + 1]
    BY <1>1, <2>1
  <2> QED  BY <2>2, <2>3, <2>4, <2>5
<1> HIDE DEF T
<1>6. n \in T
  BY <1>1, <1>4, <1>5, EveryNumber
<1>7. ReadDigits(es)[n] = ReadDigits(ds)[n]
  BY <1>1, <1>6 DEF T
<1>8. ReadDigits(es)[n + 1] = ReadDigits(es)[n] * 62 + d
  <2>1. n + 1 \in 1 .. n + 1 /\ (n + 1) - 1 = n
    BY <1>1
  <2> QED  BY <1>1, <1>2, <2>1
<1> QED  BY <1>7, <1>8 DEF n, es

LEMMA DigitsAreRead ==
  ASSUME NEW n \in Nat
  PROVE  ReadDigits(Digits[n])[Len(Digits[n])] = n
<1> DEFINE T == {i \in Nat : ReadDigits(Digits[i])[Len(Digits[i])] = i}
<1>1. ASSUME NEW i \in Nat, \A j \in 0 .. i - 1 : j \in T PROVE i \in T
  <2>1. CASE i < 62
    <3>1. Digits[i] = <<i>> /\ <<i>> \in Seq(Nat) /\ Len(<<i>>) = 1 /\ <<i>>[1] = i
      BY <2>1, DigitsIs
    <3>2. ReadDigits(<<i>>)[0] = 0 /\ ReadDigits(<<i>>)[1] = ReadDigits(<<i>>)[0] * 62 + i
      <4>1. 1 \in 1 .. 1 /\ 1 - 1 = 0
        OBVIOUS
      <4> QED  BY <3>1, <4>1, ReadDigitsIs
    <3>3. ReadDigits(Digits[i])[Len(Digits[i])] = i
      BY <3>1, <3>2
    <3> QED  BY <3>3
  <2>2. CASE ~(i < 62)
    <3> DEFINE q == i \div 62
               m == i % 62
    <3>1. q \in 0 .. i - 1 /\ q \in Nat /\ m \in Nat /\ i = q * 62 + m
      BY <2>2
    <3>2. ReadDigits(Digits[q])[Len(Digits[q])] = q
      BY <1>1, <3>1
    <3>3. Digits[i] = Append(Digits[q], m)
      BY <2>2, DigitsIs
    <3> HIDE DEF q, m, T
    <3>4. Digits[q] \in Seq(Nat)
      BY <3>1, DigitsIs
    <3>5. Len(Append(Digits[q], m)) = Len(Digits[q]) + 1
      BY <3>1, <3>4, AppendProperties
    <3>6. ReadDigits(Append(Digits[q], m))[Len(Digits[q]) + 1] = q * 62 + m
      BY <3>1, <3>2, <3>4, ReadAppended
    <3>7. ReadDigits(Digits[i])[Len(Digits[i])] = i
      BY <3>1, <3>3, <3>5, <3>6
    <3> QED  BY <3>7 DEF T
  <2> QED  BY <2>1, <2>2
<1> HIDE DEF T
<1>2. n \in T
  BY <1>1, EveryNumberBelow
<1> QED  BY <1>2 DEF T

\* What osfx_b62_encode_i64 writes osfx_b62_decode_i64 reads: every integer comes
\* back, however many digits it takes.
THEOREM B62IsRead ==
  ASSUME NEW n \in Int
  PROVE  FromB62(B62(n)) = n
<1>1. Abs(n) \in Nat /\ n = IF n < 0 THEN -Abs(n) ELSE Abs(n)
  BY DEF Abs
<1>2. ReadDigits(Digits[Abs(n)])[Len(Digits[Abs(n)])] = Abs(n)
  BY <1>1, DigitsAreRead
<1>3. B62(n).digits = Digits[Abs(n)] /\ B62(n).neg = (n < 0)
  BY DEF B62
<1> QED  BY <1>1, <1>2, <1>3 DEF FromB62

LEMMA Division ==
  ASSUME NEW a \in Nat, NEW d \in Nat \ {0}
  PROVE  /\ a \div d \in Nat
         /\ (a \div d) * d <= a /\ a < (a \div d + 1) * d
OBVIOUS

\* The scaled value is less than one unit of the last decimal off.
LEMMA ScaledIsNear ==
  ASSUME NEW v \in Int
  PROVE  Scaled(v) \in Int /\ Near(Scaled(v), v)
<1>1. Fine \in Nat \ {0}
  BY StreamAssumption
<1>2. CASE v < 0
  <2> DEFINE a == -v
             q == a \div Fine
  <2>1. a \in Nat
    BY <1>2
  <2>2. q \in Nat /\ q * Fine <= a /\ a < (q + 1) * Fine
    <3> HIDE DEF a
    <3> QED  BY <1>1, <2>1, Division
  <2>3. Scaled(v) = -q /\ v = -a
    BY <1>2 DEF Scaled
  <2> HIDE DEF q
  <2>4. (-q) * v >= 0
    <3>1. (-q) * v = q * a
      BY <2>2
    <3> HIDE DEF a
    <3>2. q * a >= 0
      BY <2>1, <2>2
    <3> QED  BY <3>1, <3>2
  <2> HIDE DEF a
  <2>5. Abs(v - (-q) * Fine) < Fine
    <3> DEFINE x == q * Fine
    <3>1. x \in Nat /\ (q + 1) * Fine = x + Fine /\ (-q) * Fine = -x
      BY <1>1, <2>2
    <3>2. x <= a /\ a < x + Fine
      BY <2>2, <3>1
    <3> HIDE DEF x
    <3>3. v - (-q) * Fine = -a - (-x)
      BY <2>3, <3>1
    <3>4. -a - (-x) \in Int /\ (-a - (-x) < 0 => -(-a - (-x)) < Fine) /\ -a - (-x) < Fine
      BY <1>1, <2>1, <3>1, <3>2
    <3> QED  BY <3>3, <3>4 DEF Abs
  <2> QED  BY <2>2, <2>3, <2>4, <2>5 DEF Near
<1>3. CASE ~(v < 0)
  <2> DEFINE q == v \div Fine
  <2>1. v \in Nat
    BY <1>3
  <2>2. q \in Nat /\ q * Fine <= v /\ v < (q + 1) * Fine
    BY <1>1, <2>1, Division
  <2>3. Scaled(v) = q
    BY <1>3 DEF Scaled
  <2> HIDE DEF q
  <2>4. q * v >= 0
    BY <2>1, <2>2
  <2>5. Abs(v - q * Fine) < Fine
    <3> DEFINE x == q * Fine
    <3>1. x \in Nat /\ (q + 1) * Fine = x + Fine
      BY <1>1, <2>2
    <3>2. x <= v /\ v < x + Fine
      BY <2>2, <3>1
    <3> HIDE DEF x
    <3>3. v - x \in Nat /\ v - x < Fine
      BY <1>1, <2>1, <3>1, <3>2
    <3> QED  BY <3>3 DEF Abs, x
  <2> QED  BY <2>2, <2>3, <2>4, <2>5 DEF Near
<1> QED  BY <1>2, <1>3
-----------------------------------------------------------------------------
(* What becomes of a call *)

LEMMA ConversionIs ==
  ASSUME NEW unit \in UnitNames
  PROVE  BaseUnit(unit) \in Texts /\ Conversion(unit).factor \in Int /\ Conversion(unit).offset \in Int
<1>1. ASSUME NEW u \in DOMAIN Units
      PROVE  /\ Units[u] = [base |-> Units[u].base, factor |-> Units[u].factor,
                            offset |-> Units[u].offset,
                            can_take_prefix |-> Units[u].can_take_prefix]
             /\ Units[u].base \in Texts /\ Units[u].factor \in Int /\ Units[u].offset \in Int
  BY CatalogAssumption
<1>2. CASE unit \in DOMAIN Units
  BY <1>1, <1>2 DEF Conversion, BaseUnit
<1>3. CASE unit \notin DOMAIN Units /\ Ways(unit) # {}
  <2> DEFINE n == Len(Spelling[unit])
             way == Spelling[unit][NthSlot(Ways(unit), 1)]
  <2>1. /\ unit \in DOMAIN Spelling
        /\ Spelling[unit] \in Seq([prefix : DOMAIN Prefix, rest : STRING])
    BY <1>3, CatalogAssumption DEF UnitNames
  <2>2. n \in Nat /\ Ways(unit) \in SUBSET (1 .. n)
    BY <2>1 DEF Ways
  <2>3. 1 \in 1 .. Cardinality(Ways(unit))
    <3>1. PICK w \in Ways(unit) : TRUE
      BY <1>3
    <3>2. Place(Ways(unit), w) \in 1 .. Cardinality(Ways(unit)) /\ Cardinality(Ways(unit)) \in Nat
      <4> HIDE DEF n
      <4> QED  BY <2>2, PlaceIn, CountOf
    <3> QED  BY <3>2
  <2>4. NthSlot(Ways(unit), 1) \in Ways(unit)
    <3> HIDE DEF n
    <3> QED  BY <2>2, <2>3, NthSlotIs
  <2>5. way.rest \in DOMAIN Units /\ way.prefix \in DOMAIN Prefix
    <3>1. way \in [prefix : DOMAIN Prefix, rest : STRING]
      <4>1. NthSlot(Ways(unit), 1) \in 1 .. Len(Spelling[unit])
        BY <2>2, <2>4
      <4> QED  BY Zenon, <2>1, <4>1, ElementOfSeq
    <3>2. way.rest \in DOMAIN Units
      BY Zenon, <2>4 DEF Ways
    <3> QED  BY <3>1, <3>2
  <2>6. Conversion(unit) = [Units[way.rest] EXCEPT !.factor = @ * Prefix[way.prefix]]
    BY <1>3 DEF Conversion
  <2> HIDE DEF way
  <2>7. Prefix[way.prefix] \in Int
    BY <2>5, CatalogAssumption
  <2>8. /\ Conversion(unit).base = Units[way.rest].base
        /\ Conversion(unit).factor = Units[way.rest].factor * Prefix[way.prefix]
        /\ Conversion(unit).offset = Units[way.rest].offset
    BY <1>1, <2>5, <2>6
  <2> QED  BY <1>1, <2>5, <2>7, <2>8 DEF BaseUnit
<1>4. CASE unit \notin DOMAIN Units /\ Ways(unit) = {}
  <2>1. Conversion(unit) = [base |-> unit, factor |-> 1, offset |-> 0]
    BY <1>4 DEF Conversion
  <2>2. unit \in Texts
    BY TextAssumption
  <2> QED  BY <2>1, <2>2 DEF BaseUnit
<1> QED  BY <1>2, <1>3, <1>4

LEMMA StandardIs ==
  ASSUME NEW unit \in UnitNames, NEW value \in Int
  PROVE  Standard(value, unit) \in Int
<1>1. Conversion(unit).factor \in Int /\ Conversion(unit).offset \in Int
  BY ConversionIs
<1> QED  BY <1>1 DEF Standard

\* The body grows with each sensor by the width of its segment.
LEMMA WrittenIs ==
  ASSUME NEW b, NEW n \in Nat, n = Len(b.sensors), MetaWidth(b.header) \in Nat,
         \A i \in 1 .. n : SegmentWidth(b.sensors[i]) \in Nat
  PROVE  /\ Written(b) \in [0 .. n -> Nat]
         /\ Written(b)[0] = MetaWidth(b.header) + TsWidth + 2
         /\ \A i \in 1 .. n : Written(b)[i] = Written(b)[i - 1] + SegmentWidth(b.sensors[i])
<1> DEFINE start == MetaWidth(b.header) + TsWidth + 2
           next == [x \in (1 .. n) \X Nat |-> x[2] + SegmentWidth(b.sensors[x[1]])]
<1>1. start \in Nat
  BY DEF TsWidth
<1>2. next \in [(1 .. n) \X Nat -> Nat]
  <2>1. ASSUME NEW x \in (1 .. n) \X Nat PROVE x[2] + SegmentWidth(b.sensors[x[1]]) \in Nat
    <3>1. x[2] \in Nat /\ SegmentWidth(b.sensors[x[1]]) \in Nat
      OBVIOUS
    <3> QED  BY <3>1
  <2> QED  BY <2>1
<1>3. \A i \in 1 .. n, y \in Nat : next[<<i, y>>] = y + SegmentWidth(b.sensors[i])
  OBVIOUS
<1> HIDE DEF next, start
<1>4. PICK f \in [0 .. n -> Nat] : Loops(f, n, start, next)
  BY <1>1, <1>2, LoopFunction
<1>5. ASSUME NEW i \in 0 .. n
      PROVE  f[i] = IF i = 0 THEN start ELSE f[i - 1] + SegmentWidth(b.sensors[i])
  <2>1. CASE i = 0
    BY <1>4, <2>1 DEF Loops
  <2>2. CASE i # 0
    <3>1. i \in 1 .. n /\ i - 1 \in 0 .. n
      BY <2>2
    <3>2. f[i - 1] \in Nat
      BY <3>1
    <3> QED  BY <1>3, <1>4, <2>2, <3>1, <3>2 DEF Loops
  <2> QED  BY <2>1, <2>2
<1>6. f = [i \in 0 .. n |-> IF i = 0 THEN start ELSE f[i - 1] + SegmentWidth(b.sensors[i])]
  BY <1>5
<1> DEFINE g == Written(b)
           T == {i \in Nat : i <= n => g[i] \in Nat}
<1>7. g = [i \in 0 .. n |-> IF i = 0 THEN start ELSE g[i - 1] + SegmentWidth(b.sensors[i])]
  BY <1>6 DEF Written, start
<1> HIDE DEF g
<1>8. \A i \in 0 .. n : g[i] = IF i = 0 THEN start ELSE g[i - 1] + SegmentWidth(b.sensors[i])
  BY <1>7
<1>9. 0 \in T
  BY <1>1, <1>8
<1>10. ASSUME NEW i \in Nat, i \in T PROVE i + 1 \in T
  <2> SUFFICES ASSUME i + 1 <= n PROVE g[i + 1] \in Nat
    OBVIOUS
  <2>1. i + 1 \in 1 .. n /\ i + 1 \in 0 .. n /\ (i + 1) - 1 = i /\ i + 1 # 0 /\ i <= n
    OBVIOUS
  <2>2. g[i] \in Nat /\ g[i + 1] = g[i] + SegmentWidth(b.sensors[i + 1])
        /\ SegmentWidth(b.sensors[i + 1]) \in Nat
    BY <1>8, <1>10, <2>1
  <2> QED  BY <2>2
<1> HIDE DEF T
<1>11. Nat \subseteq T
  BY <1>9, <1>10, EveryNumber
<1>12. g \in [0 .. n -> Nat]
  <2>1. \A i \in 0 .. n : g[i] \in Nat
    BY <1>11 DEF T
  <2>2. g = [i \in 0 .. n |-> g[i]]
    BY <1>7
  <2> QED  BY <2>1, <2>2
<1> QED  BY <1>8, <1>12 DEF g, start

HowMany(sensors) ==
  IF Cardinality(Fitting(sensors)) < MaxSensors THEN Cardinality(Fitting(sensors)) ELSE MaxSensors

Restored(x) == [tag |-> x.tag, meta |-> x.meta, val |-> x.val, fits |-> TRUE]

\* The n-th sensor that is rebuilt is the n-th that fits.
LEMMA RebuiltIs ==
  ASSUME NEW b \in Bodies, Parsed(b) # NoEntry, NEW o, o = Rebuilt(Parsed(b)),
         NEW F, F = Fitting(b.sensors), NEW m, m = HowMany(b.sensors)
  PROVE  /\ m \in 1 .. MaxSensors /\ m <= Cardinality(F)
         /\ o.header = b.header /\ b.fits
         /\ o.sensors = [i \in 1 .. m |-> o.sensors[i]] /\ Len(o.sensors) = m
         /\ \A i \in 1 .. m : o.sensors[i] = Restored(b.sensors[NthSlot(F, i)])
<1> DEFINE kept == Slots(b.sensors)
           tags == [i \in 1 .. Len(kept) |-> kept[i].tag]
           vals == [j \in 1 .. 2 * Len(kept) |->
                        IF j % 2 = 1 THEN kept[(j + 1) \div 2].meta ELSE kept[j \div 2].val]
           e == [header |-> b.header, tags |-> tags, vals |-> vals]
<1>1. b.fits /\ kept # <<>> /\ Parsed(b) = e
  BY DEF Parsed
<1>2. F \in SUBSET (1 .. Len(b.sensors)) /\ Len(b.sensors) \in Nat
  BY BodyIs DEF Fitting
<1>3. Cardinality(F) \in Nat
  BY <1>2, CountOf
<1>4. m \in 0 .. MaxSensors /\ m <= Cardinality(F)
  BY <1>3, FusionAssumption DEF HowMany
<1>5. kept = [i \in 1 .. m |-> b.sensors[NthSlot(F, i)]]
  BY DEF Slots, FirstFitting, HowMany
<1>6. Len(kept) = m
  <2>1. kept = [i \in 1 .. m |-> kept[i]] /\ m \in Nat
    BY <1>4, <1>5
  <2> HIDE DEF kept
  <2> QED  BY <2>1, LenIs
<1>7. m # 0
  <2>1. ASSUME m = 0 PROVE kept = <<>>
    <3>1. 1 .. m = {}
      BY <2>1
    <3> HIDE DEF kept
    <3> QED  BY <1>5, <3>1
  <2> QED  BY <1>1, <2>1
<1>8. m \in 1 .. MaxSensors
  BY <1>4, <1>7
<1> HIDE DEF kept
<1>9. Len(tags) = m
  <2>1. tags = [i \in 1 .. m |-> tags[i]] /\ m \in Nat
    BY <1>4, <1>6
  <2> HIDE DEF tags
  <2> QED  BY <2>1, LenIs
<1>10. ASSUME NEW i \in 1 .. m
       PROVE  /\ tags[i] = kept[i].tag
              /\ vals[2 * i - 1] = kept[i].meta
              /\ vals[2 * i] = kept[i].val
  <2>1. /\ 2 * i - 1 \in 1 .. 2 * m /\ 2 * i \in 1 .. 2 * m
        /\ (2 * i - 1) % 2 = 1 /\ ((2 * i - 1) + 1) \div 2 = i
        /\ (2 * i) % 2 # 1 /\ (2 * i) \div 2 = i
    BY <1>8
  <2> QED  BY <1>6, <2>1
<1> HIDE DEF tags, vals
<1>11. /\ o.header = b.header
       /\ o.sensors = [i \in 1 .. m |->
                         [tag |-> tags[i], meta |-> vals[2 * i - 1], val |-> vals[2 * i],
                          fits |-> TRUE]]
  BY <1>1, <1>9 DEF Rebuilt
<1>12. o.sensors = [i \in 1 .. m |-> o.sensors[i]] /\ Len(o.sensors) = m
  <2>1. o.sensors = [i \in 1 .. m |-> o.sensors[i]] /\ m \in Nat
    BY <1>8, <1>11
  <2> QED  BY <2>1, LenIs
<1>13. ASSUME NEW i \in 1 .. m PROVE o.sensors[i] = Restored(b.sensors[NthSlot(F, i)])
  <2>1. kept[i] = b.sensors[NthSlot(F, i)]
    BY <1>5
  <2>2. o.sensors[i] = [tag |-> tags[i], meta |-> vals[2 * i - 1], val |-> vals[2 * i],
                        fits |-> TRUE]
    BY <1>11
  <2>3. o.sensors[i] = [tag |-> kept[i].tag, meta |-> kept[i].meta, val |-> kept[i].val,
                        fits |-> TRUE]
    BY <1>10, <2>2
  <2> QED  BY <2>1, <2>3 DEF Restored
<1> QED  BY <1>1, <1>4, <1>8, <1>11, <1>12, <1>13

\* What the decoder hands on, of a call that was accepted.
LEMMA ToldIs ==
  ASSUME FusionInv, Next, Told
  PROVE  /\ got'.in \in Bodies
         /\ got'.cmd = "FULL" => got'.out = got'.in
         /\ got'.cmd # "FULL" => got'.out = Rebuilt(Parsed(got'.in)) /\ Parsed(got'.in) # NoEntry
<1>1. got' # Nothing
  BY DEF Told
<1>2. Receive
  BY <1>1 DEF Next, EncodeMulti, EncodeAuto, EncodePlain, DamageTo, Encode, EncodeFails,
              SendPast, Damage, Lose, Repeat, Reset
<1>3. Head1 \in Packet
  BY <1>2, Taken DEF Receive
<1>4. CASE DecodeFull
  <2>1. Head1.cmd = "FULL" /\ Head1.body \in Bodies
    BY <1>3, <1>4, PacketParts DEF DecodeFull
  <2>2. got' = [cmd |-> "FULL", stream |-> Head1.stream, in |-> Head1.body, out |-> Head1.text,
                whole |-> Head1.text = Head1.body]
    BY <1>4 DEF DecodeFull
  <2>3. got'.cmd = "FULL" /\ got'.in = Head1.body /\ got'.out = Head1.text
        /\ got'.whole = (Head1.text = Head1.body)
    BY <2>2
  <2>4. Head1.text = Head1.body
    BY <2>3 DEF Told
  <2> QED  BY <2>1, <2>3, <2>4
<1>5. CASE DecodeDiff \/ DecodeHeart
  <2>1. got'.cmd \in {"DIFF", "HEART"}
    BY <1>1, <1>5 DEF DecodeDiff, DecodeHeart
  <2>2. got'.stream \notin stale'
    BY <2>1 DEF Told
  <2> QED  BY <1>2, <2>1, <2>2, ReceiveComesBack
<1>6. CASE PassGap
  BY <1>1, <1>6 DEF PassGap
<1> QED  BY <1>2, <1>4, <1>5, <1>6 DEF Receive

LEMMA PairIs ==
  ASSUME NEW x, NEW y
  PROVE  /\ <<x, y>>[1] = x /\ <<x, y>>[2] = y
         /\ MetaWidth(<<x, y>>) = Width[x] + 1 + Width[y]
<1>1. <<x, y>>[1] = x /\ <<x, y>>[2] = y
  OBVIOUS
<1> QED  BY <1>1 DEF MetaWidth

LEMMA ValueWidthIs ==
  ASSUME NEW val, NEW n \in Int, val.b62 = B62(n), val.msg \in Texts
  PROVE  ValueWidth(val) \in Nat
<1>1. Len(val.b62.digits) \in Nat
  <2>1. Abs(n) \in Nat
    BY DEF Abs
  <2>2. Digits[Abs(n)] \in Seq(Nat)
    BY <2>1, DigitsIs
  <2> QED  BY <2>2 DEF B62
<1> DEFINE sign == IF val.b62.neg THEN 1 ELSE 0
           note == IF val.msg = NoText THEN 0 ELSE 1 + Width[val.msg]
<1>2. sign \in Nat
  OBVIOUS
<1>3. note \in Nat
  BY TextAssumption
<1>4. ValueWidth(val) = Len(val.b62.digits) + sign + note
  BY DEF ValueWidth
<1> HIDE DEF sign, note
<1> QED  BY <1>1, <1>2, <1>3, <1>4

\* The segment y is the segment g: whether it was kept does not matter.
SameSegment(y, g) == y.tag = g.tag /\ y.meta = g.meta /\ y.val = g.val

LEMMA SameSegmentIs ==
  ASSUME NEW y, NEW g, SameSegment(y, g)
  PROVE  /\ CopyOK(y) <=> CopyOK(g)
         /\ SegmentWidth(y) = SegmentWidth(g)
         /\ Output(y) = Output(g)
BY DEF SameSegment, CopyOK, SegmentWidth, Output
-----------------------------------------------------------------------------
(* A single reading comes back *)

LEMMA SingleIs ==
  ASSUME NEW b \in Bodies, b.kind = "single"
  PROVE  \E s \in Streams : \E r \in SingleCalls(s) : b = SingleBody(s, r) /\ b.of = r
<1>1. ASSUME NEW c \in Calls, b = MultiBody(c) PROVE FALSE
  BY <1>1 DEF MultiBody, Body
<1>2. ASSUME NEW s \in Streams, NEW r \in SingleCalls(s), b = SingleBody(s, r) PROVE b.of = r
  BY <1>2 DEF SingleBody, Body
<1> QED  BY <1>1, <1>2 DEF Bodies

\* o carries the reading r of stream s.
HoldsReading(o, s, r) ==
  /\ o.header = <<s, "U">>
  /\ Len(o.sensors) = 1 /\ DOMAIN o.sensors = 1 .. 1
  /\ o.sensors[1].tag = r.id
  /\ o.sensors[1].meta = <<"U", BaseUnit(r.unit)>>
  /\ o.sensors[1].val = [b62 |-> B62(Scaled(Standard(r.value, r.unit))), msg |-> NoText]

LEMMA SingleCarries ==
  ASSUME NEW s \in Streams, NEW r \in SingleCalls(s)
  PROVE  /\ HoldsReading(SingleBody(s, r), s, r)
         /\ Parsed(SingleBody(s, r)) # NoEntry => HoldsReading(Rebuilt(Parsed(SingleBody(s, r))), s, r)
<1> DEFINE b == SingleBody(s, r)
           x == Segment(r.id, <<"U", BaseUnit(r.unit)>>,
                        [b62 |-> B62(Scaled(Standard(r.value, r.unit))), msg |-> NoText])
           o == Rebuilt(Parsed(b))
           F == Fitting(b.sensors)
<1>1. /\ x.tag = r.id /\ x.meta = <<"U", BaseUnit(r.unit)>>
      /\ x.val = [b62 |-> B62(Scaled(Standard(r.value, r.unit))), msg |-> NoText]
  BY DEF Segment
<1> HIDE DEF x
<1>2. b.header = <<s, "U">> /\ b.sensors = <<x>>
  BY DEF SingleBody, Body, x
<1>3. Len(<<x>>) = 1 /\ DOMAIN <<x>> = 1 .. 1 /\ <<x>>[1] = x
  OBVIOUS
<1>4. HoldsReading(b, s, r)
  BY <1>1, <1>2, <1>3 DEF HoldsReading
<1>5. b \in Bodies
  BY DEF Bodies
<1> HIDE DEF b
<1>6. ASSUME Parsed(b) # NoEntry PROVE HoldsReading(o, s, r)
  <2> DEFINE m == HowMany(b.sensors)
  <2> HIDE DEF m, o, F
  <2>1. /\ m \in 1 .. MaxSensors /\ m <= Cardinality(F) /\ o.header = b.header
        /\ o.sensors = [i \in 1 .. m |-> o.sensors[i]] /\ Len(o.sensors) = m
        /\ \A i \in 1 .. m : o.sensors[i] = Restored(b.sensors[NthSlot(F, i)])
    <3>1. o = Rebuilt(Parsed(b)) /\ F = Fitting(b.sensors) /\ m = HowMany(b.sensors)
      BY DEF m, o, F
    <3> QED  BY <1>5, <1>6, <3>1, RebuiltIs
  <2>2. 1 \in Nat /\ F \in SUBSET (1 .. 1)
    BY <1>2, <1>3 DEF F, Fitting
  <2>3. Cardinality(F) \in Nat /\ Cardinality(F) <= 1
    BY <2>2, CountOf
  <2>4. m = 1 /\ 1 \in 1 .. Cardinality(F)
    BY <2>1, <2>3
  <2>5. NthSlot(F, 1) = 1
    <3>1. NthSlot(F, 1) \in F
      BY <2>2, <2>4, NthSlotIs
    <3>2. 1 .. 1 = {1}
      OBVIOUS
    <3> QED  BY <2>2, <3>1, <3>2
  <2>6. o.sensors[1] = Restored(x)
    BY <1>2, <1>3, <2>1, <2>4, <2>5
  <2>7. o.sensors[1].tag = x.tag /\ o.sensors[1].meta = x.meta /\ o.sensors[1].val = x.val
    BY <2>6 DEF Restored
  <2>8. DOMAIN o.sensors = 1 .. 1
    BY <2>1, <2>4
  <2> QED  BY <1>1, <1>2, <2>1, <2>4, <2>7, <2>8 DEF HoldsReading
<1> QED  BY <1>4, <1>6 DEF b

\* The decoders' results, of a body that carries a reading.
LEMMA CarriedSingle ==
  ASSUME NEW s \in Streams, NEW r \in SingleCalls(s), NEW o, HoldsReading(o, s, r)
  PROVE  LET base  == BaseUnit(r.unit)
             auto  == AutoResult(o)
             plain == PlainResult(o, IdMax)
         IN  /\ auto = Refused <=> Width[r.id] >= IdMax \/ Width[base] >= UnitMax
             /\ auto # Refused =>
                  /\ auto.id = r.id /\ auto.unit = base
                  /\ Near(auto.value, Standard(r.value, r.unit))
             /\ plain = IF Width[r.id] = 0 \/ Width[base] = 0 THEN Refused ELSE auto
             /\ SecureResult(o, IdMax) # plain => BodyWidth(SingleBody(s, r)) > SecureMax
<1> DEFINE b == SingleBody(s, r)
           base == BaseUnit(r.unit)
           v == Standard(r.value, r.unit)
           x == o.sensors[1]
           y == b.sensors[1]
           out == Output(x)
<1>1. r \in [id : Texts, unit : UnitNames, value : Int]
  BY StreamAssumption DEF SingleCalls
<1>2. base \in Texts /\ v \in Int /\ r.id \in Texts
  BY <1>1, ConversionIs, StandardIs
<1>3. /\ Width[r.id] \in Nat /\ Width[base] \in Nat /\ Width[s] \in Nat /\ Width[s] < IdMax
      /\ Width["U"] = 1 /\ Width[NoText] = 0
  BY <1>2, TextAssumption
<1>4. HoldsReading(b, s, r)
  BY SingleCarries
<1> HIDE DEF b, base, v
<1>5. /\ o.header = <<s, "U">> /\ Len(o.sensors) = 1 /\ DOMAIN o.sensors = 1 .. 1
      /\ x.tag = r.id /\ x.meta = <<"U", base>> /\ x.val = [b62 |-> B62(Scaled(v)), msg |-> NoText]
  BY DEF HoldsReading, base, v
<1>6. /\ b.header = <<s, "U">> /\ Len(b.sensors) = 1
      /\ y.tag = r.id /\ y.meta = <<"U", base>> /\ y.val = [b62 |-> B62(Scaled(v)), msg |-> NoText]
  BY <1>4 DEF HoldsReading, base, v
<1> HIDE DEF x, y
<1>7. Scaled(v) \in Int /\ Near(Scaled(v), v) /\ FromB62(B62(Scaled(v))) = Scaled(v)
  BY <1>2, ScaledIsNear, B62IsRead
<1>8. /\ out.id = r.id /\ out.unit = base /\ out.value = Scaled(v)
      /\ out # Refused
  <2>1. out = [id |-> r.id, state |-> "U", unit |-> base, msg |-> NoText, value |-> Scaled(v)]
    <3>1. x.meta[1] = "U" /\ x.meta[2] = base
      BY <1>5, PairIs
    <3>2. x.val.b62 = B62(Scaled(v)) /\ x.val.msg = NoText
      BY <1>5
    <3> QED  BY <1>5, <1>7, <3>1, <3>2 DEF Output
  <2>2. out # Refused
    <3>1. "id" \in DOMAIN out /\ "id" \notin DOMAIN Refused
      BY <2>1 DEF Refused
    <3> QED  BY <3>1
  <2> HIDE DEF out
  <2> QED  BY <2>1, <2>2
<1> HIDE DEF out
<1>9. SegmentWidth(x) \in Nat /\ SegmentWidth(y) = SegmentWidth(x)
  <2>1. x.val.b62 = B62(Scaled(v)) /\ x.val.msg = NoText /\ NoText \in Texts
    BY <1>5, TextAssumption
  <2>2. ValueWidth(x.val) \in Nat
    BY <1>7, <2>1, ValueWidthIs
  <2>3. MetaWidth(x.meta) \in Nat
    BY <1>3, <1>5, PairIs
  <2>4. Width[x.tag] \in Nat
    BY <1>3, <1>5
  <2>5. SegmentWidth(x) \in Nat
    BY <2>2, <2>3, <2>4 DEF SegmentWidth
  <2>6. SameSegment(y, x)
    BY <1>5, <1>6 DEF SameSegment
  <2>7. SegmentWidth(y) = SegmentWidth(x)
    BY <2>6, SameSegmentIs
  <2> QED  BY <2>5, <2>7
<1>10. BodyWidth(o) = BodyWidth(b) /\ BodyWidth(b) \in Nat
  <2>1. MetaWidth(<<s, "U">>) \in Nat
    BY <1>3, PairIs
  <2>2. ASSUME NEW c, c.header = <<s, "U">>, Len(c.sensors) = 1,
               SegmentWidth(c.sensors[1]) = SegmentWidth(x)
        PROVE  /\ BodyWidth(c) \in Nat
               /\ BodyWidth(c) = MetaWidth(<<s, "U">>) + TsWidth + 2 + SegmentWidth(x)
    <3>1. \A i \in 1 .. 1 : SegmentWidth(c.sensors[i]) \in Nat
      BY <1>9, <2>2
    <3>2. 1 \in Nat /\ 1 = Len(c.sensors) /\ MetaWidth(c.header) \in Nat
      BY <2>1, <2>2
    <3>3. /\ Written(c) \in [0 .. 1 -> Nat]
          /\ Written(c)[0] = MetaWidth(c.header) + TsWidth + 2
          /\ \A i \in 1 .. 1 : Written(c)[i] = Written(c)[i - 1] + SegmentWidth(c.sensors[i])
      BY <3>1, <3>2, WrittenIs
    <3>4. 1 \in 1 .. 1 /\ 1 \in 0 .. 1 /\ 1 - 1 = 0
      OBVIOUS
    <3>5. Written(c)[1] \in Nat /\ Written(c)[1] = Written(c)[0] + SegmentWidth(c.sensors[1])
      BY <3>3, <3>4
    <3> QED  BY <2>2, <3>3, <3>5 DEF BodyWidth
  <2>3. BodyWidth(o) = MetaWidth(<<s, "U">>) + TsWidth + 2 + SegmentWidth(x)
    BY <1>5, <2>2 DEF x
  <2>4. /\ BodyWidth(b) = MetaWidth(<<s, "U">>) + TsWidth + 2 + SegmentWidth(x)
        /\ BodyWidth(b) \in Nat
    BY <1>6, <1>9, <2>2 DEF y
  <2> QED  BY <2>3, <2>4
<1>11. BodyWidth(b) < SingleMax
  BY DEF SingleCalls, AutoAccepted, PlainAccepted, b
<1>12. CopyOK(x) <=> Width[r.id] < IdMax /\ Width[base] < UnitMax
  <2>1. x.meta[1] = "U" /\ x.meta[2] = base /\ x.val.msg = NoText
    BY <1>5, PairIs
  <2> QED  BY <1>3, <1>5, <2>1 DEF CopyOK, StateMax, MsgMax
<1>13. Readable(o) <=> CopyOK(x)
  <2>1. (\A i \in DOMAIN o.sensors : CopyOK(o.sensors[i])) <=> CopyOK(x)
    <3>1. 1 .. 1 = {1}
      OBVIOUS
    <3> QED  BY <1>5, <3>1 DEF x
  <2>2. o.header[1] = s /\ o.header[2] = "U"
    BY <1>5, PairIs
  <2>3. Len(o.sensors) <= TmplMax
    BY <1>5, StreamAssumption
  <2> QED  BY <1>3, <2>1, <2>2, <2>3 DEF Readable, StateMax
<1>14. o.sensors # <<>>
  <2>1. Len(<<>>) = 0 /\ 0 # 1
    OBVIOUS
  <2>2. Len(o.sensors) = 1
    BY <1>5
  <2> QED  BY <2>1, <2>2
<1>15. AutoResult(o) = IF Width[r.id] < IdMax /\ Width[base] < UnitMax THEN out ELSE Refused
  BY <1>10, <1>11, <1>12, <1>13, <1>14 DEF AutoResult, out, x
<1>16. PlainResult(o, IdMax) = IF Width[r.id] \in 1 .. IdMax - 1 /\ Width[base] \in 1 .. IdMax - 1
                              THEN out ELSE Refused
  <2>1. x.meta[2] = base /\ x.val.msg = NoText
    BY <1>5, PairIs
  <2> QED  BY <1>5, <1>14, <2>1 DEF PlainResult, out, x
<1>17. Width[base] < UnitMax
  BY <1>3, <1>6, PairIs DEF SingleCalls, AutoAccepted, PlainAccepted, CopyOK, b, y, base, UnitMax
<1>18. SecureResult(o, IdMax) # PlainResult(o, IdMax) => BodyWidth(b) > SecureMax
  BY <1>10 DEF SecureResult, SecureMax
<1>19. /\ AutoResult(o) = Refused <=> Width[r.id] >= IdMax \/ Width[base] >= UnitMax
       /\ AutoResult(o) # Refused => AutoResult(o) = out
  BY <1>3, <1>8, <1>15 DEF IdMax, UnitMax
<1>20. PlainResult(o, IdMax) = IF Width[r.id] = 0 \/ Width[base] = 0 THEN Refused ELSE AutoResult(o)
  BY <1>3, <1>15, <1>16, <1>17 DEF IdMax, UnitMax
<1> QED  BY <1>7, <1>8, <1>18, <1>19, <1>20 DEF b, base, v

\* SinglesArrive of a body and of what it is handed on as.
SingleBack(in, out) ==
  LET r     == in.of
      base  == BaseUnit(r.unit)
      auto  == AutoResult(out)
      plain == PlainResult(out, IdMax)
  IN  /\ auto = Refused <=> Width[r.id] >= IdMax \/ Width[base] >= UnitMax
      /\ auto # Refused =>
           /\ auto.id = r.id /\ auto.unit = base
           /\ Near(auto.value, Standard(r.value, r.unit))
      /\ plain = IF Width[r.id] = 0 \/ Width[base] = 0 THEN Refused ELSE auto
      /\ SecureResult(out, IdMax) # plain => BodyWidth(in) > SecureMax

\* A single reading whose packet was not damaged comes back as it was given, its
\* value within 1/10000, from each decoder that takes it.
THEOREM SinglesComeBack == Spec => SinglesArrive
<1>1. ASSUME FusionInv, Next, Told, got'.in.kind = "single"
      PROVE  SingleBack(got'.in, got'.out)
  <2>1. /\ got'.in \in Bodies
        /\ got'.cmd = "FULL" => got'.out = got'.in
        /\ got'.cmd # "FULL" => got'.out = Rebuilt(Parsed(got'.in)) /\ Parsed(got'.in) # NoEntry
    BY <1>1, ToldIs
  <2>2. PICK s \in Streams : \E r \in SingleCalls(s) : got'.in = SingleBody(s, r) /\ got'.in.of = r
    BY <1>1, <2>1, SingleIs
  <2>3. PICK r \in SingleCalls(s) : got'.in = SingleBody(s, r) /\ got'.in.of = r
    BY <2>2
  <2>4. HoldsReading(got'.out, s, r)
    BY <2>1, <2>3, SingleCarries
  <2> QED  BY <2>3, <2>4, CarriedSingle DEF SingleBack
<1>2. FusionInv /\ [Next]_vars => [ Told /\ got'.in.kind = "single" => SingleBack(got'.in, got'.out) ]_vars
  BY <1>1
<1>3. [][ Told /\ got'.in.kind = "single" => SingleBack(got'.in, got'.out) ]_vars <=> SinglesArrive
  BY DEF SinglesArrive, SingleBack
<1> QED  BY <1>2, <1>3, FusionInvariant, PTL DEF Spec
-----------------------------------------------------------------------------
(* The readings of a multi-sensor call come back *)

LEMMA ShownIs ==
  ASSUME NEW S, NEW switch, NEW text \in S, NEW fallback \in S
  PROVE  Shown(switch, text, fallback) \in S
BY DEF Shown

\* What the multi-sensor encoder writes of a reading.
LEMMA MultiSegmentIs ==
  ASSUME NEW x \in SensorInput, NEW g, g = MultiSegment(x)
  PROVE  /\ g.tag = Shown("SENSOR_ID", x.id, "S")
         /\ g.meta[1] = Shown("SENSOR_STATUS", x.state, "NA")
         /\ g.meta[2] = Shown("PHYSICAL_ATTRIBUTE", BaseUnit(x.unit), "NA")
         /\ g.val.msg = Shown("SUPPLEMENTARY_MESSAGE", x.msg, NoText)
         /\ "NORMALIZED_VALUE" \in Payload => Near(FromB62(g.val.b62), Standard(x.value, x.unit))
         /\ SegmentWidth(g) \in Nat
<1>1. x \in [id : Texts, state : Texts, unit : UnitNames, value : Int, msg : Texts]
  BY DEF SensorInput
<1>2. x.id \in Texts /\ x.state \in Texts /\ x.unit \in UnitNames /\ x.value \in Int /\ x.msg \in Texts
  BY <1>1
<1>3. BaseUnit(x.unit) \in Texts /\ Standard(x.value, x.unit) \in Int
  BY <1>2, ConversionIs, StandardIs
<1> DEFINE n == IF "NORMALIZED_VALUE" \in Payload THEN Scaled(Standard(x.value, x.unit)) ELSE 0
           id == Shown("SENSOR_ID", x.id, "S")
           st == Shown("SENSOR_STATUS", x.state, "NA")
           un == Shown("PHYSICAL_ATTRIBUTE", BaseUnit(x.unit), "NA")
           ms == Shown("SUPPLEMENTARY_MESSAGE", x.msg, NoText)
           val == [b62 |-> B62(n), msg |-> ms]
<1>4. id \in Texts /\ st \in Texts /\ un \in Texts /\ ms \in Texts
  <2>1. {NoText, "S", "NA"} \subseteq Texts
    BY TextAssumption
  <2> QED  BY <1>2, <1>3, <2>1, ShownIs
<1>5. /\ Scaled(Standard(x.value, x.unit)) \in Int
      /\ Near(Scaled(Standard(x.value, x.unit)), Standard(x.value, x.unit))
  BY <1>3, ScaledIsNear
<1>6. n \in Int
  BY <1>5
<1>7. g = Segment(id, <<st, un>>, val)
  <2>1. B62(n) = IF "NORMALIZED_VALUE" \in Payload
                 THEN B62(Scaled(Standard(x.value, x.unit))) ELSE B62(0)
    OBVIOUS
  <2> QED  BY <2>1 DEF MultiSegment
<1>8. "NORMALIZED_VALUE" \in Payload => n = Scaled(Standard(x.value, x.unit))
  OBVIOUS
<1> HIDE DEF n, id, st, un, ms
<1>9. val.b62 = B62(n) /\ val.msg = ms
  OBVIOUS
<1> HIDE DEF val
<1>10. g.tag = id /\ g.meta = <<st, un>> /\ g.val = val
  BY <1>7 DEF Segment
<1>11. g.meta[1] = st /\ g.meta[2] = un /\ MetaWidth(g.meta) = Width[st] + 1 + Width[un]
  BY <1>10, PairIs
<1>12. FromB62(g.val.b62) = n
  BY <1>6, <1>9, <1>10, B62IsRead
<1>13. SegmentWidth(g) \in Nat
  <2>1. ValueWidth(g.val) \in Nat
    BY <1>4, <1>6, <1>9, <1>10, ValueWidthIs
  <2>2. Width[id] \in Nat /\ Width[st] \in Nat /\ Width[un] \in Nat
    BY <1>4, TextAssumption
  <2>3. MetaWidth(g.meta) \in Nat
    BY <1>11, <2>2
  <2> QED  BY <1>10, <2>1, <2>2, <2>3 DEF SegmentWidth
<1> QED  BY <1>5, <1>8, <1>9, <1>10, <1>11, <1>12, <1>13 DEF id, st, un, ms

LEMMA OutputIs ==
  ASSUME NEW x \in SensorInput
  PROVE  Carried(Output(MultiSegment(x)), x)
<1> DEFINE g == MultiSegment(x)
           out == Output(g)
<1>1. /\ g.tag = Shown("SENSOR_ID", x.id, "S")
      /\ g.meta[1] = Shown("SENSOR_STATUS", x.state, "NA")
      /\ g.meta[2] = Shown("PHYSICAL_ATTRIBUTE", BaseUnit(x.unit), "NA")
      /\ g.val.msg = Shown("SUPPLEMENTARY_MESSAGE", x.msg, NoText)
      /\ "NORMALIZED_VALUE" \in Payload => Near(FromB62(g.val.b62), Standard(x.value, x.unit))
  BY MultiSegmentIs
<1> HIDE DEF g
<1>2. out = [id |-> g.tag, state |-> g.meta[1], unit |-> g.meta[2], msg |-> g.val.msg,
             value |-> FromB62(g.val.b62)]
  BY DEF Output
<1> HIDE DEF out
<1>3. /\ out.id = g.tag /\ out.state = g.meta[1] /\ out.unit = g.meta[2] /\ out.msg = g.val.msg
      /\ out.value = FromB62(g.val.b62)
  BY <1>2
<1>4. Carried(out, x)
  BY <1>1, <1>3 DEF Carried
<1> QED  BY <1>4 DEF out, g

\* The slots K of the body b, in their order, are the body o.
PartOf(o, b, K) ==
  /\ o.header = b.header
  /\ Len(o.sensors) = Cardinality(K) /\ DOMAIN o.sensors = 1 .. Cardinality(K)
  /\ \A i \in K : SameSegment(o.sensors[Place(K, i)], b.sensors[i])

\* A part of a body is no longer than it.
LEMMA PartIsShorter ==
  ASSUME NEW b, NEW o, NEW n \in Nat, n = Len(b.sensors), NEW K \in SUBSET (1 .. n), PartOf(o, b, K),
         MetaWidth(b.header) \in Nat, \A i \in 1 .. n : SegmentWidth(b.sensors[i]) \in Nat
  PROVE  BodyWidth(o) \in Nat /\ BodyWidth(b) \in Nat /\ BodyWidth(o) <= BodyWidth(b)
<1> DEFINE m == Cardinality(K)
           f == Written(b)
           g == Written(o)
<1>1. m \in Nat /\ m <= n
  BY CountOf
<1>2. m = Len(o.sensors) /\ MetaWidth(o.header) = MetaWidth(b.header)
  BY DEF PartOf
<1> HIDE DEF m
<1>3. ASSUME NEW i \in K PROVE SegmentWidth(o.sensors[Place(K, i)]) = SegmentWidth(b.sensors[i])
  BY SameSegmentIs DEF PartOf
<1>4. ASSUME NEW j \in 1 .. m PROVE SegmentWidth(o.sensors[j]) \in Nat
  <2>1. PICK i \in K : Place(K, i) = j
    BY PlaceTaken DEF m
  <2>2. i \in 1 .. n
    OBVIOUS
  <2> QED  BY <1>3, <2>1, <2>2
<1>5. /\ f \in [0 .. n -> Nat] /\ f[0] = MetaWidth(b.header) + TsWidth + 2
      /\ \A i \in 1 .. n : f[i] = f[i - 1] + SegmentWidth(b.sensors[i])
  BY WrittenIs
<1>6. /\ g \in [0 .. m -> Nat] /\ g[0] = MetaWidth(b.header) + TsWidth + 2
      /\ \A j \in 1 .. m : g[j] = g[j - 1] + SegmentWidth(o.sensors[j])
  BY <1>1, <1>2, <1>4, WrittenIs
<1>7. BodyWidth(b) = f[n] /\ BodyWidth(o) = g[m]
  BY <1>2 DEF BodyWidth
<1> HIDE DEF f, g
<1> DEFINE T == {i \in Nat : i <= n => g[Place(K, i)] <= f[i]}
<1>8. Place(K, 0) = 0 /\ Place(K, n) = m
  BY PlaceEnds DEF m
<1>9. 0 \in T
  <2>1. f[0] \in Nat
    BY <1>5
  <2> QED  BY <1>5, <1>6, <1>8, <2>1
<1>10. ASSUME NEW i \in Nat, i \in T PROVE i + 1 \in T
  <2> SUFFICES ASSUME i + 1 <= n PROVE g[Place(K, i + 1)] <= f[i + 1]
    OBVIOUS
  <2> DEFINE p == Place(K, i)
  <2>1. i + 1 \in 1 .. n /\ i \in 0 .. n /\ i + 1 \in 0 .. n /\ (i + 1) - 1 = i /\ i <= n
    OBVIOUS
  <2>2. p \in Nat /\ p <= m
    <3>1. i \in Int /\ n \in Int /\ i <= n
      BY <2>1
    <3> QED  BY <1>8, <3>1, PlaceUpTo
  <2>3. Place(K, i + 1) = IF i + 1 \in K THEN p + 1 ELSE p
    BY PlaceNext
  <2>4. g[p] <= f[i]
    BY <1>10, <2>1
  <2> HIDE DEF p
  <2>5. /\ f[i] \in Nat /\ g[p] \in Nat /\ SegmentWidth(b.sensors[i + 1]) \in Nat
        /\ f[i + 1] = f[i] + SegmentWidth(b.sensors[i + 1])
    <3>1. p \in 0 .. m
      BY <2>2
    <3> QED  BY <1>5, <1>6, <2>1, <3>1
  <2>6. CASE i + 1 \in K
    <3>1. Place(K, i + 1) = p + 1
      BY <2>3, <2>6
    <3>2. p + 1 \in 1 .. m
      BY <2>6, <3>1, PlaceIn DEF m
    <3>3. (p + 1) - 1 = p
      BY <2>2
    <3>4. g[p + 1] = g[p] + SegmentWidth(o.sensors[p + 1])
      BY <1>6, <3>2, <3>3
    <3>5. SegmentWidth(o.sensors[p + 1]) = SegmentWidth(b.sensors[i + 1])
      BY <1>3, <2>6, <3>1
    <3> QED  BY <2>4, <2>5, <3>1, <3>4, <3>5
  <2>7. CASE i + 1 \notin K
    BY <2>3, <2>4, <2>5, <2>7
  <2> QED  BY <2>6, <2>7
<1> HIDE DEF T
<1>11. n \in T
  BY <1>9, <1>10, EveryNumber
<1>12. g[m] <= f[n]
  BY <1>8, <1>11 DEF T
<1>13. g[m] \in Nat /\ f[n] \in Nat
  BY <1>1, <1>5, <1>6
<1> QED  BY <1>7, <1>12, <1>13

LEMMA MultiIs ==
  ASSUME NEW b \in Bodies, b.kind = "multi"
  PROVE  \E c \in Calls : b = MultiBody(c) /\ b.of = c
<1>1. ASSUME NEW s \in Streams, NEW r \in SingleCalls(s), b = SingleBody(s, r) PROVE FALSE
  BY <1>1 DEF SingleBody, Body
<1>2. ASSUME NEW c \in Calls, b = MultiBody(c) PROVE b.of = c
  BY <1>2 DEF MultiBody, Body
<1> QED  BY <1>1, <1>2 DEF Bodies

LEMMA MultiBodyIs ==
  ASSUME NEW c \in Calls, NEW b, b = MultiBody(c), NEW n, n = Len(c.sensors)
  PROVE  /\ b \in Bodies /\ n \in Nat /\ DOMAIN c.sensors = 1 .. n /\ c.node \in Texts /\ c.state \in Texts
         /\ b.header = <<Shown("DEVICE_ID", c.node, "NODE"), Shown("DEVICE_STATUS", c.state, "NA")>>
         /\ Len(b.sensors) = n /\ DOMAIN b.sensors = 1 .. n
         /\ \A i \in 1 .. n : c.sensors[i] \in SensorInput /\ b.sensors[i] = MultiSegment(c.sensors[i])
<1> DEFINE segments == [i \in DOMAIN c.sensors |-> MultiSegment(c.sensors[i])]
           header == <<Shown("DEVICE_ID", c.node, "NODE"), Shown("DEVICE_STATUS", c.state, "NA")>>
<1>1. c.sensors \in Seq(SensorInput) /\ c.node \in Texts /\ c.state \in Texts
  BY CallIs
<1>2. n \in Nat /\ DOMAIN c.sensors = 1 .. n
  BY <1>1, LenProperties
<1>3. b.sensors = segments /\ b.header = header
  BY DEF MultiBody, Body
<1>4. ASSUME NEW i \in 1 .. n
      PROVE  c.sensors[i] \in SensorInput /\ segments[i] = MultiSegment(c.sensors[i])
  BY <1>1, <1>2
<1>5. segments = [i \in 1 .. n |-> segments[i]] /\ DOMAIN segments = 1 .. n
  BY <1>2
<1>6. b \in Bodies
  BY DEF Bodies
<1> HIDE DEF segments, header
<1>7. Len(segments) = n
  BY <1>2, <1>5, LenIs
<1> QED  BY <1>1, <1>2, <1>3, <1>4, <1>5, <1>6, <1>7 DEF header

\* The sensors that a receiver of the call gets.
Kept(c, cmd) ==
  LET fit == {i \in DOMAIN c.sensors : MultiSegment(c.sensors[i]).fits}
  IN  IF cmd = "FULL" THEN DOMAIN c.sensors ELSE {i \in fit : Place(fit, i) <= MaxSensors}

LEMMA AllIsPart ==
  ASSUME NEW c \in Calls, NEW b, b = MultiBody(c)
  PROVE  PartOf(b, b, Kept(c, "FULL"))
<1> DEFINE n == Len(c.sensors)
<1>1. /\ n \in Nat /\ DOMAIN c.sensors = 1 .. n /\ Len(b.sensors) = n /\ DOMAIN b.sensors = 1 .. n
  BY MultiBodyIs
<1> HIDE DEF n
<1>2. Kept(c, "FULL") = 1 .. n
  BY <1>1 DEF Kept
<1>3. Cardinality(1 .. n) = n /\ \A i \in 1 .. n : Place(1 .. n, i) = i
  BY <1>1, PlaceOfAll
<1> QED  BY <1>1, <1>2, <1>3 DEF PartOf, SameSegment

LEMMA RebuiltIsPart ==
  ASSUME NEW c \in Calls, NEW b, b = MultiBody(c), Parsed(b) # NoEntry, NEW cmd, cmd # "FULL"
  PROVE  PartOf(Rebuilt(Parsed(b)), b, Kept(c, cmd))
<1> DEFINE n == Len(c.sensors)
           o == Rebuilt(Parsed(b))
           F == Fitting(b.sensors)
           m == HowMany(b.sensors)
           K == Kept(c, cmd)
<1>1. /\ b \in Bodies /\ n \in Nat /\ DOMAIN c.sensors = 1 .. n
      /\ Len(b.sensors) = n /\ DOMAIN b.sensors = 1 .. n
      /\ \A i \in 1 .. n : b.sensors[i] = MultiSegment(c.sensors[i])
  BY MultiBodyIs
<1>2. F \in SUBSET (1 .. n) /\ F = {i \in DOMAIN c.sensors : MultiSegment(c.sensors[i]).fits}
  BY <1>1 DEF Fitting
<1>3. K = {i \in F : Place(F, i) <= MaxSensors} /\ K = FirstOf(F, MaxSensors)
  BY <1>2 DEF Kept, FirstOf
<1> HIDE DEF n, F, m, K, o
<1>4. /\ m \in 1 .. MaxSensors /\ o.header = b.header
      /\ o.sensors = [i \in 1 .. m |-> o.sensors[i]] /\ Len(o.sensors) = m
      /\ \A i \in 1 .. m : o.sensors[i] = Restored(b.sensors[NthSlot(F, i)])
  <2>1. o = Rebuilt(Parsed(b)) /\ F = Fitting(b.sensors) /\ m = HowMany(b.sensors)
    BY DEF o, F, m
  <2> QED  BY <1>1, <2>1, RebuiltIs
<1>5. /\ \A i \in K : Place(K, i) = Place(F, i)
      /\ Cardinality(K) = IF Cardinality(F) < MaxSensors THEN Cardinality(F) ELSE MaxSensors
  <2>1. MaxSensors \in Nat /\ n \in Nat /\ F \in SUBSET (1 .. n)
    BY <1>1, <1>2, FusionAssumption
  <2> QED  BY <1>3, <2>1, PlaceKept
<1>6. Cardinality(K) = m
  BY <1>5 DEF m, F, HowMany
<1>7. ASSUME NEW i \in K PROVE SameSegment(o.sensors[Place(K, i)], b.sensors[i])
  <2>1. i \in F /\ Place(K, i) = Place(F, i)
    BY <1>3, <1>5
  <2>2. NthSlot(F, Place(F, i)) = i
    BY <1>1, <1>2, <2>1, SlotAtItsPlace
  <2>3. Place(K, i) \in 1 .. m
    <3>1. K \in SUBSET (1 .. n)
      BY <1>2, <1>3
    <3> QED  BY <1>1, <1>6, <3>1, PlaceIn
  <2>4. o.sensors[Place(K, i)] = Restored(b.sensors[i])
    BY <1>4, <2>1, <2>2, <2>3
  <2> QED  BY <2>4 DEF SameSegment, Restored
<1>8. DOMAIN o.sensors = 1 .. Cardinality(K)
  BY <1>4, <1>6
<1> QED  BY <1>4, <1>6, <1>7, <1>8 DEF PartOf, o, K

\* ReadingsArrive of a call and of what its body is handed on as.
CallBack(c, out, kept) ==
  LET node  == Shown("DEVICE_ID", c.node, "NODE")
      state == Shown("DEVICE_STATUS", c.state, "NA")
      r     == MultiResult(out, TmplMax)
  IN  /\ r = Refused <=> Width[node] >= IdMax \/ Width[state] >= StateMax
      /\ r # Refused =>
           /\ r.node = node /\ r.state = state
           /\ Len(r.sensors) = Cardinality(kept)
           /\ \A i \in kept : Carried(r.sensors[Place(kept, i)], c.sensors[i])

LEMMA PartComesBack ==
  ASSUME NEW c \in Calls, NEW b, b = MultiBody(c), NEW K \in SUBSET (DOMAIN c.sensors),
         NEW o, PartOf(o, b, K)
  PROVE  CallBack(c, o, K)
<1> DEFINE n == Len(c.sensors)
           m == Cardinality(K)
           node == Shown("DEVICE_ID", c.node, "NODE")
           state == Shown("DEVICE_STATUS", c.state, "NA")
           r == MultiResult(o, TmplMax)
           full == [node |-> node, state |-> state, sensors |-> [j \in 1 .. m |-> Output(o.sensors[j])]]
<1>1. /\ b \in Bodies /\ n \in Nat /\ DOMAIN c.sensors = 1 .. n /\ c.node \in Texts /\ c.state \in Texts
      /\ b.header = <<node, state>>
      /\ Len(b.sensors) = n /\ DOMAIN b.sensors = 1 .. n
      /\ \A i \in 1 .. n : c.sensors[i] \in SensorInput /\ b.sensors[i] = MultiSegment(c.sensors[i])
  <2> HIDE DEF n
  <2>1. n = Len(c.sensors)
    BY DEF n
  <2> QED  BY <2>1, MultiBodyIs
<1>2. /\ n \in 1 .. TmplMax /\ \A i \in 1 .. n : CopyOK(b.sensors[i])
      /\ BodyWidth(b) < MultiMax
  BY <1>1, CallIs DEF MultiAccepted
<1>3. node \in Texts /\ state \in Texts
  <2>1. {"NODE", "NA"} \subseteq Texts
    BY TextAssumption
  <2> QED  BY <1>1, <2>1, ShownIs
<1> HIDE DEF n, node, state, r
<1>4. Width[node] \in Nat /\ Width[state] \in Nat
  BY <1>3, TextAssumption
<1>5. o.header = <<node, state>> /\ o.header[1] = node /\ o.header[2] = state
      /\ MetaWidth(b.header) \in Nat
  <2>1. MetaWidth(<<node, state>>) = Width[node] + 1 + Width[state]
    BY PairIs
  <2> QED  BY <1>1, <1>4, <2>1, PairIs DEF PartOf
<1>6. K \in SUBSET (1 .. n)
  BY <1>1
<1>7. m \in Nat /\ m <= n
  BY <1>1, <1>6, CountOf
<1>8. \A i \in 1 .. n : SegmentWidth(b.sensors[i]) \in Nat
  BY <1>1, MultiSegmentIs
<1>9. BodyWidth(o) < MultiMax
  <2>1. BodyWidth(o) \in Nat /\ BodyWidth(b) \in Nat /\ BodyWidth(o) <= BodyWidth(b)
    BY <1>1, <1>5, <1>6, <1>8, PartIsShorter
  <2> QED  BY <1>2, <2>1 DEF MultiMax
<1>10. /\ Len(o.sensors) = m /\ DOMAIN o.sensors = 1 .. m
       /\ \A i \in K : SameSegment(o.sensors[Place(K, i)], b.sensors[i])
  BY DEF PartOf
<1> HIDE DEF m
<1>11. ASSUME NEW j \in 1 .. m PROVE CopyOK(o.sensors[j])
  <2>1. PICK i \in K : Place(K, i) = j
    BY <1>1, <1>6, PlaceTaken DEF m
  <2> QED  BY <1>2, <1>6, <1>10, <2>1, SameSegmentIs
<1>12. m <= TmplMax
  BY <1>2, <1>7, StreamAssumption
<1>13. Readable(o) <=> Width[node] < IdMax /\ Width[state] < StateMax
  BY <1>5, <1>10, <1>11, <1>12 DEF Readable
<1>14. r = IF Width[node] < IdMax /\ Width[state] < StateMax THEN full ELSE Refused
  BY <1>5, <1>9, <1>10, <1>12, <1>13 DEF r, MultiResult
<1>15. full # Refused
  <2>1. "node" \in DOMAIN full /\ "node" \notin DOMAIN Refused
    BY DEF Refused
  <2> QED  BY <2>1
<1>16. r = Refused <=> Width[node] >= IdMax \/ Width[state] >= StateMax
  BY <1>4, <1>14, <1>15 DEF IdMax, StateMax
<1>17. full.node = node /\ full.state = state
       /\ full.sensors = [j \in 1 .. m |-> Output(o.sensors[j])]
  OBVIOUS
<1> HIDE DEF full
<1>18. Len(full.sensors) = m
  <2>1. full.sensors = [j \in 1 .. m |-> full.sensors[j]]
    BY <1>17
  <2> QED  BY <1>7, <2>1, LenIs
<1>19. ASSUME NEW i \in K PROVE Carried(full.sensors[Place(K, i)], c.sensors[i])
  <2>1. Place(K, i) \in 1 .. m
    BY <1>1, <1>6, PlaceIn DEF m
  <2>2. full.sensors[Place(K, i)] = Output(o.sensors[Place(K, i)])
    BY <1>17, <2>1
  <2>3. i \in 1 .. n
    BY <1>6
  <2>4. Output(o.sensors[Place(K, i)]) = Output(MultiSegment(c.sensors[i]))
    BY <1>1, <1>10, <2>3, SameSegmentIs
  <2> QED  BY <1>1, <2>2, <2>3, <2>4, OutputIs
<1>20. r # Refused => /\ r.node = node /\ r.state = state
                      /\ Len(r.sensors) = m
                      /\ \A i \in K : Carried(r.sensors[Place(K, i)], c.sensors[i])
  BY <1>14, <1>17, <1>18, <1>19
<1> QED  BY <1>16, <1>20 DEF CallBack, r, node, state, m

\* The readings of a multi-sensor call that was received undamaged come back in
\* order, each within 1/10000: all of them, or those that the cache has room for.
THEOREM ReadingsComeBack == Spec => ReadingsArrive
<1>1. ASSUME FusionInv, Next, Told, got'.in.kind = "multi"
      PROVE  CallBack(got'.in.of, got'.out, Kept(got'.in.of, got'.cmd))
  <2>1. /\ got'.in \in Bodies
        /\ got'.cmd = "FULL" => got'.out = got'.in
        /\ got'.cmd # "FULL" => got'.out = Rebuilt(Parsed(got'.in)) /\ Parsed(got'.in) # NoEntry
    BY <1>1, ToldIs
  <2>2. PICK c \in Calls : got'.in = MultiBody(c) /\ got'.in.of = c
    BY <1>1, <2>1, MultiIs
  <2>3. PartOf(got'.out, MultiBody(c), Kept(c, got'.cmd))
    BY <2>1, <2>2, AllIsPart, RebuiltIsPart
  <2>4. Kept(c, got'.cmd) \in SUBSET (DOMAIN c.sensors)
    BY DEF Kept
  <2> QED  BY <2>2, <2>3, <2>4, PartComesBack
<1>2. FusionInv /\ [Next]_vars
      => [ Told /\ got'.in.kind = "multi"
           => CallBack(got'.in.of, got'.out, Kept(got'.in.of, got'.cmd)) ]_vars
  BY <1>1
<1>3. [][ Told /\ got'.in.kind = "multi"
          => CallBack(got'.in.of, got'.out, Kept(got'.in.of, got'.cmd)) ]_vars <=> ReadingsArrive
  BY DEF ReadingsArrive, CallBack, Kept
<1> QED  BY <1>2, <1>3, FusionInvariant, PTL DEF Spec
-----------------------------------------------------------------------------
(* The transport: the lowest slot, the best slot, and the chunks of a payload *)

LEMMA LowestIs ==
  ASSUME NEW n \in Nat, NEW S \in SUBSET (1 .. n), S # {}
  PROVE  Min(S) \in S /\ \A q \in S : Min(S) <= q
<1>1. \E r \in S : \A q \in S : r <= q
  BY LowestSlot
<1> QED  BY <1>1 DEF Min

LEMMA LesserIs ==
  ASSUME NEW a \in Int, NEW b \in Int
  PROVE  Min({a, b}) = IF a <= b THEN a ELSE b
<1> DEFINE m == IF a <= b THEN a ELSE b
<1>1. m \in {a, b} /\ \A y \in {a, b} : m <= y
  OBVIOUS
<1>2. \A x \in {a, b} : (\A y \in {a, b} : x <= y) => x = m
  OBVIOUS
<1> HIDE DEF m
<1>3. Min({a, b}) = m
  BY <1>1, <1>2 DEF Min
<1> QED  BY <1>3 DEF m

\* Of the slots with the greatest value there is a first.
LEMMA BestSlotIs ==
  ASSUME NEW n \in Nat, NEW S \in SUBSET (1 .. n), S # {}, NEW f \in [S -> Int]
  PROVE  \E s \in S : \A t \in S : f[t] < f[s] \/ (f[t] = f[s] /\ s <= t)
<1> DEFINE over(s) == {t \in S : f[s] < f[t] \/ (f[t] = f[s] /\ t < s)}
           rank(s) == Cardinality(over(s)) + 1
           T == {rank(s) : s \in S}
<1>1. ASSUME NEW s \in S
      PROVE  IsFiniteSet(over(s)) /\ Cardinality(over(s)) \in Nat /\ rank(s) \in 1 .. n
  <2>1. over(s) \in SUBSET (1 .. n) /\ over(s) \in SUBSET ((1 .. n) \ {s})
    <3>1. ASSUME NEW t \in over(s) PROVE t \in (1 .. n) \ {s}
      <4>1. f[s] < f[t] \/ (f[t] = f[s] /\ t < s)
        OBVIOUS
      <4>2. t \in 1 .. n /\ s \in 1 .. n /\ f[s] \in Int
        OBVIOUS
      <4> QED  BY <4>1, <4>2
    <3> HIDE DEF over
    <3> QED  BY <3>1
  <2> HIDE DEF over
  <2>2. IsFiniteSet(over(s)) /\ Cardinality(over(s)) \in Nat
    BY <2>1, CountOf
  <2>3. Cardinality(over(s)) <= n - 1
    <3>1. IsFiniteSet(1 .. n) /\ Cardinality(1 .. n) = n
      BY FS_Interval
    <3>2. IsFiniteSet((1 .. n) \ {s}) /\ Cardinality((1 .. n) \ {s}) = n - 1
      BY <3>1, FS_RemoveElement
    <3> QED  BY <2>1, <3>2, FS_Subset
  <2> QED  BY <2>2, <2>3
<1>2. T \in SUBSET (1 .. n) /\ T # {}
  BY <1>1
<1>3. PICK r \in T : \A q \in T : r <= q
  <2> HIDE DEF T
  <2> QED  BY <1>2, LowestSlot
<1>4. PICK s \in S : rank(s) = r
  BY <1>3
<1>5. ASSUME NEW t \in S, t \in over(s) PROVE FALSE
  <2>1. t \notin over(t)
    OBVIOUS
  <2>2. ASSUME NEW x \in over(t) PROVE x \in over(s)
    <3>1. /\ x \in S /\ x \in Int /\ t \in Int /\ s \in Int
          /\ f[x] \in Int /\ f[t] \in Int /\ f[s] \in Int
      OBVIOUS
    <3>2. f[t] < f[x] \/ (f[x] = f[t] /\ x < t)
      OBVIOUS
    <3>3. f[s] < f[t] \/ (f[t] = f[s] /\ t < s)
      BY <1>5
    <3>4. f[s] < f[x] \/ (f[x] = f[s] /\ x < s)
      BY <3>1, <3>2, <3>3
    <3> QED  BY <3>1, <3>4
  <2>3. rank(t) \in T /\ r <= rank(t)
    BY <1>3
  <2> HIDE DEF over
  <2>4. over(t) \in SUBSET over(s) /\ over(t) # over(s)
    BY <1>5, <2>1, <2>2
  <2>5. Cardinality(over(t)) <= Cardinality(over(s)) /\ Cardinality(over(t)) # Cardinality(over(s))
    BY <1>1, <2>4, FS_Subset
  <2> QED  BY <1>1, <1>4, <2>3, <2>5
<1>6. ASSUME NEW t \in S PROVE f[t] < f[s] \/ (f[t] = f[s] /\ s <= t)
  <2>1. ~(f[s] < f[t] \/ (f[t] = f[s] /\ t < s))
    BY <1>5
  <2> QED  BY <2>1
<1> QED  BY <1>6

LEMMA ChunksBefore ==
  ASSUME NEW a \in Nat, NEW b \in Nat, NEW c \in Nat \ {0}
  PROVE  /\ a * c \in Nat /\ (a + 1) * c = a * c + c
         /\ a <= b => a * c <= b * c
         /\ a * c < b * c => a < b
<1>1. a * c \in Nat /\ (a + 1) * c = a * c + c
  OBVIOUS
<1>2. ASSUME a <= b PROVE a * c <= b * c
  <2>1. (b - a) * c >= 0 /\ (b - a) * c = b * c - a * c
    BY <1>2
  <2> QED  BY <1>1, <2>1
<1>3. ASSUME ~(a < b) PROVE b * c <= a * c
  <2>1. (a - b) * c >= 0 /\ (a - b) * c = a * c - b * c
    BY <1>3
  <2> QED  BY <1>1, <2>1
<1> QED  BY <1>1, <1>2, <1>3

LEMMA ChunkOf ==
  ASSUME NEW x \in Nat, NEW c \in Nat \ {0}
  PROVE  x \div c \in Nat /\ (x \div c) * c <= x /\ x < (x \div c) * c + c
<1>1. x \div c \in Int /\ x = c * (x \div c) + (x % c) /\ x % c \in 0 .. c - 1
  OBVIOUS
<1>2. x \div c >= 0
  BY <1>1
<1> QED  BY <1>1, <1>2
-----------------------------------------------------------------------------
(* The driver table *)

Driver == [used : {TRUE}, enabled : BOOLEAN, name : Protos \cup {NoName},
           priority : Int, proto : Protos, retries : Nat]

\* Every slot is free or a driver, and no two drivers have one name.
TableHolds(table) ==
  /\ table \in [DriverSlots -> {Free} \cup Driver]
  /\ \A n \in Protos : \A s, t \in Named(table, n) : s = t

LEMMA DriverIs ==
  ASSUME NEW table, TableHolds(table), NEW s \in DriverSlots
  PROVE  /\ table[s].used \in BOOLEAN
         /\ table[s].used => table[s] \in Driver /\ table[s] # Free
         /\ ~table[s].used => table[s] = Free
<1>1. table[s] \in {Free} \cup Driver
  BY DEF TableHolds
<1>2. Free.used = FALSE
  BY DEF Free
<1>3. table[s] \in Driver => table[s].used = TRUE
  BY DEF Driver
<1> QED  BY <1>1, <1>2, <1>3

LEMMA DriverWith ==
  ASSUME NEW table, TableHolds(table), NEW s \in DriverSlots, NEW d \in Driver,
         d.name = NoName \/ (\A q \in Named(table, d.name) : q = s)
  PROVE  TableHolds([table EXCEPT ![s] = d])
<1> DEFINE u == [table EXCEPT ![s] = d]
<1>1. table \in [DriverSlots -> {Free} \cup Driver]
  BY DEF TableHolds
<1>2. /\ u \in [DriverSlots -> {Free} \cup Driver] /\ u[s] = d
      /\ \A q \in DriverSlots : q # s => u[q] = table[q]
  BY <1>1
<1> HIDE DEF u
<1>3. ASSUME NEW n \in Protos, NEW q \in Named(u, n), NEW r \in Named(u, n) PROVE q = r
  <2>1. n # NoName
    BY DEF Protos, NoName
  <2>2. ASSUME NEW x \in Named(u, n), x # s PROVE x \in Named(table, n)
    BY <1>2, <2>2 DEF Named
  <2>3. ASSUME s \in Named(u, n), NEW x \in Named(u, n) PROVE x = s
    <3>1. d.name = n
      BY <1>2, <2>3 DEF Named
    <3> QED  BY <2>1, <2>2, <2>3, <3>1
  <2>4. CASE q # s /\ r # s
    <3>1. q \in Named(table, n) /\ r \in Named(table, n)
      BY <2>2, <2>4
    <3> QED  BY <3>1 DEF TableHolds
  <2> QED  BY <2>3, <2>4
<1> QED  BY <1>2, <1>3 DEF TableHolds, u

LEMMA RegisteredIs ==
  ASSUME NEW table, TableHolds(table), NEW n \in Protos, HasRoom(table, n),
         NEW priority \in Int, NEW proto \in Protos
  PROVE  TableHolds(Registered(table, n, priority, proto))
<1> DEFINE found == Named(table, n) # {}
           s == IF found THEN Min(Named(table, n)) ELSE Min(FreeSlots(table))
           retries == IF found THEN table[s].retries ELSE 0
           d == [used |-> TRUE, enabled |-> TRUE, name |-> n, priority |-> priority,
                 proto |-> proto, retries |-> retries]
<1>1. MaxDrivers \in Nat /\ Named(table, n) \in SUBSET (1 .. MaxDrivers)
      /\ FreeSlots(table) \in SUBSET (1 .. MaxDrivers)
  BY TransportAssumption DEF Named, FreeSlots, DriverSlots
<1>2. s \in DriverSlots /\ (found => s \in Named(table, n))
  <2>1. CASE found
    BY <1>1, <2>1, LowestIs DEF DriverSlots
  <2>2. CASE ~found
    BY <1>1, <2>2, LowestIs DEF DriverSlots, HasRoom
  <2> QED  BY <2>1, <2>2
<1> HIDE DEF s
<1>3. retries \in Nat
  <2>1. CASE found
    <3>1. table[s] \in Driver
      BY <1>2, <2>1, DriverIs DEF Named
    <3> QED  BY <2>1, <3>1 DEF Driver
  <2> QED  BY <2>1
<1> HIDE DEF retries
<1>4. d \in Driver /\ d.name = n
  BY <1>3 DEF Driver
<1>5. \A q \in Named(table, n) : q = s
  BY <1>2 DEF TableHolds
<1> HIDE DEF d
<1>6. TableHolds([table EXCEPT ![s] = d])
  BY <1>2, <1>4, <1>5, DriverWith
<1> QED  BY <1>6 DEF Registered, d, s, retries

LEMMA RetriedIs ==
  ASSUME NEW table, TableHolds(table), NEW n \in Protos, NEW retries \in Nat
  PROVE  TableHolds(Retried(table, n, retries))
<1> DEFINE u == Retried(table, n, retries)
<1>1. ASSUME NEW s \in DriverSlots
      PROVE  /\ u[s] \in {Free} \cup Driver
             /\ u[s].used = table[s].used
             /\ u[s].used => u[s].name = table[s].name
  <2>1. CASE s \in Named(table, n)
    <3>1. table[s] \in Driver
      BY <2>1, DriverIs DEF Named
    <3>2. u[s] = [table[s] EXCEPT !.retries = retries]
      BY <2>1 DEF Retried
    <3> HIDE DEF u
    <3> QED  BY <3>1, <3>2 DEF Driver
  <2>2. CASE s \notin Named(table, n)
    <3>1. u[s] = table[s]
      BY <2>2 DEF Retried
    <3> QED  BY <3>1 DEF TableHolds
  <2> QED  BY <2>1, <2>2
<1>2. u = [s \in DriverSlots |-> u[s]]
  BY DEF Retried
<1> HIDE DEF u
<1>3. u \in [DriverSlots -> {Free} \cup Driver]
  BY <1>1, <1>2
<1>4. \A m \in Protos : Named(u, m) = Named(table, m)
  BY <1>1 DEF Named
<1> QED  BY <1>3, <1>4 DEF TableHolds, u

LEMMA WithDefaultIs ==
  ASSUME NEW acc, TableHolds(acc.table), NEW n \in Protos, NEW priority \in Int, NEW retries \in Nat
  PROVE  TableHolds(WithDefault(acc, Default(n, priority, retries)).table)
<1> DEFINE d == Default(n, priority, retries)
<1>1. d.name = n /\ d.priority = priority /\ d.retries = retries
  BY DEF Default
<1> HIDE DEF d
<1>2. CASE HasRoom(acc.table, n)
  <2> DEFINE u == Registered(acc.table, n, priority, n)
  <2>1. TableHolds(u)
    BY <1>2, RegisteredIs
  <2> HIDE DEF u
  <2>2. TableHolds(Retried(u, n, retries))
    BY <2>1, RetriedIs
  <2> QED  BY <1>1, <2>2 DEF WithDefault, d, u
<1>3. CASE ~HasRoom(acc.table, n)
  BY <1>1, <1>3 DEF WithDefault, d
<1> QED  BY <1>2, <1>3

LEMMA DefaultsAre ==
  ASSUME TableHolds(drivers), RegisterDefaults
  PROVE  TableHolds(drivers')
<1> DEFINE none == [table |-> drivers, going |-> TRUE]
           udp  == WithDefault(none, Default("udp", 40, 0))
           tcp  == WithDefault(udp, Default("tcp", 35, 1))
           uart == WithDefault(tcp, Default("uart", 20, 1))
           can  == WithDefault(uart, Default("can", 15, 0))
<1>1. {"udp", "tcp", "uart", "can"} \subseteq Protos
  BY DEF Protos
<1>2. drivers' = can.table
  BY DEF RegisterDefaults
<1>3. TableHolds(none.table)
  OBVIOUS
<1> HIDE DEF none
<1>4. TableHolds(udp.table)
  BY <1>1, <1>3, WithDefaultIs
<1> HIDE DEF udp
<1>5. TableHolds(tcp.table)
  BY <1>1, <1>4, WithDefaultIs
<1> HIDE DEF tcp
<1>6. TableHolds(uart.table)
  BY <1>1, <1>5, WithDefaultIs
<1> HIDE DEF uart
<1>7. TableHolds(can.table)
  BY <1>1, <1>6, WithDefaultIs
<1> QED  BY <1>2, <1>7

LEMMA ConfiguredIs ==
  ASSUME TableHolds(drivers), Configure
  PROVE  TableHolds(drivers') /\ UNCHANGED call
<1>1. ASSUME NEW n \in Protos, NEW priority \in Priorities, Register(n, priority)
      PROVE  TableHolds(drivers')
  <2>1. priority \in Int
    BY TransportAssumption
  <2> QED  BY <1>1, <2>1, RegisteredIs DEF Register
<1>2. ASSUME NEW n \in Protos, NEW priority \in Priorities, RegisterLong(n, priority)
      PROVE  TableHolds(drivers')
  <2> DEFINE s == Min(FreeSlots(drivers))
             d == [used |-> TRUE, enabled |-> TRUE, name |-> NoName, priority |-> priority,
                   proto |-> n, retries |-> 0]
  <2>1. s \in DriverSlots
    BY <1>2, LowestIs, TransportAssumption DEF RegisterLong, FreeSlots, DriverSlots
  <2>2. d \in Driver /\ d.name = NoName
    BY TransportAssumption DEF Driver
  <2>3. drivers' = [drivers EXCEPT ![s] = d]
    BY <1>2 DEF RegisterLong
  <2> HIDE DEF s, d
  <2> QED  BY <2>1, <2>2, <2>3, DriverWith
<1>3. ASSUME RegisterDefaults PROVE TableHolds(drivers')
  BY <1>3, DefaultsAre
<1>4. ASSUME NEW n \in Protos, NEW e \in BOOLEAN, SetEnabled(n, e)
      PROVE  TableHolds(drivers')
  <2> DEFINE s == Min(Named(drivers, n))
             d == [drivers[s] EXCEPT !.enabled = e]
  <2>1. s \in Named(drivers, n) /\ s \in DriverSlots
    BY <1>4, LowestIs, TransportAssumption DEF SetEnabled, Named, DriverSlots
  <2>2. drivers' = [drivers EXCEPT ![s] = d]
    BY <1>4 DEF SetEnabled
  <2> HIDE DEF s
  <2>3. drivers[s] \in Driver /\ drivers[s].name = n
    BY <2>1, DriverIs DEF Named
  <2>4. d \in Driver /\ d.name = n
    BY <2>3 DEF Driver
  <2>5. \A q \in Named(drivers, n) : q = s
    BY <2>1 DEF TableHolds
  <2> HIDE DEF d
  <2> QED  BY <2>1, <2>2, <2>4, <2>5, DriverWith
<1>5. ASSUME NEW n \in Protos, NEW retries \in Retries, SetRetry(n, retries)
      PROVE  TableHolds(drivers')
  <2>1. retries \in Nat
    BY TransportAssumption
  <2> QED  BY <1>5, <2>1, RetriedIs DEF SetRetry
<1>6. UNCHANGED call
  BY DEF Configure, Register, RegisterLong, RegisterDefaults, SetEnabled, SetRetry
<1> QED  BY <1>1, <1>2, <1>3, <1>4, <1>5, <1>6 DEF Configure
-----------------------------------------------------------------------------
(* The dispatch under way *)

Frame == [index : Nat, from : Nat, bytes : Nat]

Call ==
  [phase : {"busy", "ok", "failed"}, auto : BOOLEAN, len : Lengths, at : 0 .. MaxDrivers,
   rest : SUBSET DriverSlots, made : [DriverSlots -> Nat], frames : Seq(Frame)]

CallHolds ==
  /\ call \in Call
  /\ call.rest \subseteq Eligible
  /\ Busy => call.at \in Eligible \ call.rest

\* The tries that are left: all of each driver still to come, some of the one
\* that is being tried and, of an automatic dispatch, none of any other.
TriesHold ==
  /\ \A s \in Eligible : call.made[s] <= Tries(s)
  /\ \A s \in call.rest : call.made[s] = 0
  /\ Busy => call.made[call.at] < Tries(call.at)
  /\ Busy /\ call.auto =>
       \A s \in Eligible \ (call.rest \cup {call.at}) : call.made[s] = Tries(s)
  /\ call.auto /\ call.phase = "failed" =>
       \/ \A s \in Eligible : call.made[s] = Tries(s)
       \/ \A s \in Eligible : drivers[s].priority <= Floor /\ call.made[s] = 0

Highest(t) ==
  t \in Eligible /\ \A u \in Eligible : drivers[u].priority <= drivers[t].priority

\* The best driver is the only one that was tried, or has used up its tries.
OrderHolds ==
  call.auto =>
    \/ call.phase = "failed" /\ \A s \in DriverSlots : call.made[s] = 0
    \/ \E t : /\ Highest(t)
              /\ \/ call.made[t] = Tries(t)
                 \/ call.at = t /\ \A s \in DriverSlots \ {t} : call.made[s] = 0

\* The frames of a CAN attempt: every one but the last is full.
InChunks(frames, len) ==
  \A i \in 1 .. Len(frames) :
    /\ frames[i].index = (i - 1) % IndexRange
    /\ frames[i].from = (i - 1) * ChunkSize
    /\ frames[i].bytes \in 1 .. ChunkSize
    /\ frames[i].from + frames[i].bytes <= len
    /\ \/ frames[i].bytes = ChunkSize
       \/ i = Len(frames) /\ frames[i].from + frames[i].bytes = len

Whole(len) == <<[index |-> 0, from |-> 0, bytes |-> len]>>

FramesHold ==
  /\ Busy => /\ InChunks(call.frames, call.len)
             /\ call.frames # <<>> => Sender.proto = "can"
  /\ call.phase = "ok" =>
       \/ call.frames = Whole(call.len)
       \/ InChunks(call.frames, call.len) /\ Offset(call.frames) = call.len

TransportInv ==
  /\ TableHolds(drivers)
  /\ call = NoCall \/ (CallHolds /\ TriesHold /\ OrderHolds /\ FramesHold)

LEMMA EligibleIs ==
  ASSUME TableHolds(drivers), NEW s \in Eligible
  PROVE  s \in DriverSlots /\ drivers[s] \in Driver /\ Tries(s) = 1 + drivers[s].retries
         /\ drivers[s].retries \in Nat /\ drivers[s].priority \in Int
<1>1. s \in DriverSlots /\ drivers[s] \in Driver
  BY DriverIs DEF Eligible
<1> QED  BY <1>1 DEF Driver, Tries

LEMMA MadeIs ==
  ASSUME TableHolds(drivers), CallHolds, Busy
  PROVE  /\ call.at \in Eligible /\ call.at \in DriverSlots /\ call.at \notin call.rest
         /\ Made \in [DriverSlots -> Nat]
         /\ Made[call.at] = call.made[call.at] + 1
         /\ \A s \in DriverSlots : s # call.at => Made[s] = call.made[s]
         /\ \A s \in DriverSlots : call.made[s] \in Nat
<1>1. call.at \in DriverSlots /\ call.made \in [DriverSlots -> Nat]
  BY DEF CallHolds, Call, Eligible
<1> QED  BY <1>1 DEF CallHolds, Made

LEMMA Begun ==
  ASSUME TableHolds(drivers), NEW len \in Lengths, NEW first \in SUBSET Eligible,
         NEW rest \in SUBSET Eligible, NEW auto \in BOOLEAN, first \cap rest = {},
         \A s, t \in first : s = t, Begin(len, first, rest, auto)
  PROVE  /\ UNCHANGED drivers /\ call'.auto = auto /\ call'.rest = rest
         /\ call'.phase = (IF first = {} THEN "failed" ELSE "busy")
         /\ first # {} => first = {call'.at} /\ call'.at \in Eligible
         /\ \A s \in DriverSlots : call'.made[s] = 0
         /\ CallHolds' /\ FramesHold'
<1> DEFINE at == IF first = {} THEN 0 ELSE Min(first)
           made == [s \in DriverSlots |-> 0]
           phase == IF first = {} THEN "failed" ELSE "busy"
<1>1. call' = [phase |-> phase, auto |-> auto, len |-> len, at |-> at, rest |-> rest,
               made |-> made, frames |-> <<>>]
      /\ UNCHANGED drivers
  BY DEF Begin
<1>2. Eligible \in SUBSET DriverSlots /\ MaxDrivers \in Nat \ {0}
  BY TransportAssumption DEF Eligible
<1>3. first # {} => first = {at}
  <2> SUFFICES ASSUME first # {} PROVE first = {at}
    OBVIOUS
  <2>1. first \in SUBSET (1 .. MaxDrivers)
    BY <1>2 DEF DriverSlots
  <2>2. at \in first
    BY <1>2, <2>1, LowestIs
  <2> QED  BY <2>2
<1>4. at \in 0 .. MaxDrivers
  <2>1. CASE first = {}
    BY <1>2, <2>1
  <2>2. CASE first # {}
    <3>1. at \in DriverSlots
      BY <1>2, <1>3, <2>2
    <3> QED  BY <1>2, <3>1 DEF DriverSlots
  <2> QED  BY <2>1, <2>2
<1>5. made \in [DriverSlots -> Nat] /\ \A s \in DriverSlots : made[s] = 0
  OBVIOUS
<1>6. phase \in {"busy", "ok", "failed"} /\ (phase = "busy" <=> first # {}) /\ phase # "ok"
  OBVIOUS
<1> HIDE DEF at, made, phase
<1>7. /\ call'.phase = phase /\ call'.auto = auto /\ call'.len = len /\ call'.at = at
      /\ call'.rest = rest /\ call'.made = made /\ call'.frames = <<>>
  BY <1>1
<1>8. call' \in Call
  <2>1. <<>> \in Seq(Frame)
    OBVIOUS
  <2>2. rest \in SUBSET DriverSlots
    BY <1>2
  <2> QED  BY <1>1, <1>4, <1>5, <1>6, <2>1, <2>2 DEF Call
<1>9. Eligible' = Eligible
  BY <1>1 DEF Eligible
<1>10. CallHolds'
  BY <1>3, <1>6, <1>7, <1>8, <1>9 DEF CallHolds, Busy
<1>11. FramesHold'
  <2>1. InChunks(<<>>, len)
    BY DEF InChunks
  <2>2. call'.phase # "ok" /\ InChunks(call'.frames, call'.len)
    BY <1>6, <1>7, <2>1
  <2> QED  BY <1>7, <2>2 DEF FramesHold, InChunks
<1> QED  BY <1>1, <1>3, <1>5, <1>7, <1>10, <1>11 DEF phase

LEMMA BestIs ==
  ASSUME TableHolds(drivers)
  PROVE  /\ Best \in SUBSET Eligible
         /\ \A s, t \in Best : s = t
         /\ \A s \in Best : Highest(s)
         /\ Best = {} => \A s \in Eligible : drivers[s].priority <= Floor
<1>1. \A s \in Eligible : s \in 1 .. MaxDrivers /\ drivers[s].priority \in Int
  BY EligibleIs DEF DriverSlots
<1>2. Best \in SUBSET Eligible
  BY DEF Best
<1>3. ASSUME NEW s \in Best, NEW t \in Best PROVE s = t
  <2>1. s \in Eligible /\ t \in Eligible
    BY <1>2
  <2>2. drivers[t].priority < drivers[s].priority
        \/ (drivers[t].priority = drivers[s].priority /\ s <= t)
    BY <2>1 DEF Best
  <2>3. drivers[s].priority < drivers[t].priority
        \/ (drivers[s].priority = drivers[t].priority /\ t <= s)
    BY <2>1 DEF Best
  <2> QED  BY <1>1, <2>1, <2>2, <2>3
<1>4. ASSUME NEW s \in Best PROVE Highest(s)
  <2>1. s \in Eligible
    BY <1>2
  <2>2. ASSUME NEW t \in Eligible PROVE drivers[t].priority <= drivers[s].priority
    <3>1. drivers[t].priority < drivers[s].priority \/ drivers[t].priority = drivers[s].priority
      BY DEF Best
    <3> QED  BY <1>1, <2>1, <3>1
  <2> QED  BY <2>1, <2>2 DEF Highest
<1>5. ASSUME NEW s \in Eligible, drivers[s].priority > Floor PROVE Best # {}
  <2> DEFINE f == [t \in Eligible |-> drivers[t].priority]
  <2>1. f \in [Eligible -> Int] /\ Eligible \in SUBSET (1 .. MaxDrivers) /\ MaxDrivers \in Nat
    BY <1>1, TransportAssumption
  <2>2. \A t \in Eligible : f[t] = drivers[t].priority
    OBVIOUS
  <2> HIDE DEF f
  <2>3. PICK r \in Eligible : \A t \in Eligible : f[t] < f[r] \/ (f[t] = f[r] /\ r <= t)
    BY <2>1, <1>5, BestSlotIs
  <2>4. drivers[r].priority > Floor
    <3>1. drivers[s].priority <= drivers[r].priority
      BY <1>1, <2>2, <2>3
    <3> QED  BY <1>1, <1>5, <3>1, TransportAssumption
  <2>5. r \in Best
    BY <2>2, <2>3, <2>4 DEF Best
  <2> QED  BY <2>5
<1>6. Best = {} => \A s \in Eligible : drivers[s].priority <= Floor
  BY <1>1, <1>5, TransportAssumption
<1> QED  BY <1>2, <1>3, <1>4, <1>6

LEMMA AutoHolds ==
  ASSUME TableHolds(drivers), NEW len \in Lengths, DispatchAuto(len)
  PROVE  TransportInv'
<1> DEFINE rest == Eligible \ Best
<1>1. /\ Best \in SUBSET Eligible /\ rest \in SUBSET Eligible /\ Best \cap rest = {}
      /\ \A s, t \in Best : s = t
  BY BestIs
<1>2. Begin(len, Best, rest, TRUE)
  BY DEF DispatchAuto
<1> HIDE DEF rest
<1>3. /\ UNCHANGED drivers /\ call'.auto = TRUE /\ call'.rest = rest
      /\ call'.phase = (IF Best = {} THEN "failed" ELSE "busy")
      /\ Best # {} => Best = {call'.at} /\ call'.at \in Eligible
      /\ \A s \in DriverSlots : call'.made[s] = 0
      /\ CallHolds' /\ FramesHold'
  BY <1>1, <1>2, Begun
<1>4. /\ Eligible' = Eligible /\ \A s \in Eligible : Tries(s)' = Tries(s)
      /\ \A t : Highest(t)' <=> Highest(t)
  BY <1>3 DEF Eligible, Tries, Highest
<1>5. ASSUME NEW s \in Eligible
      PROVE  call'.made[s] = 0 /\ 0 < Tries(s) /\ 0 <= Tries(s)
  BY <1>3, EligibleIs
<1>6. TriesHold'
  <2>1. \A s \in Eligible' : call'.made[s] <= Tries(s)'
    BY <1>4, <1>5
  <2>2. \A s \in call'.rest : call'.made[s] = 0
    BY <1>1, <1>3, <1>5
  <2>3. Busy' => call'.made[call'.at] < Tries(call.at)'
    BY <1>3, <1>5 DEF Busy, Tries
  <2>4. Busy' => \A s \in Eligible' \ (call'.rest \cup {call'.at}) : FALSE
    BY <1>3, <1>4 DEF Busy, rest
  <2>5. call'.phase = "failed" => \A s \in Eligible' : drivers'[s].priority <= Floor /\ call'.made[s] = 0
    BY <1>3, <1>4, <1>5, BestIs
  <2> QED  BY <2>1, <2>2, <2>3, <2>4, <2>5 DEF TriesHold, Tries
<1>7. OrderHolds'
  <2>1. CASE Best = {}
    BY <1>3, <2>1 DEF OrderHolds
  <2>2. CASE Best # {}
    <3>1. Highest(call'.at)
      BY <1>3, <2>2, BestIs
    <3>2. Highest(call.at)'
      BY <1>3, <1>4, <3>1 DEF Highest
    <3> QED  BY <1>3, <3>2 DEF OrderHolds
  <2> QED  BY <2>1, <2>2
<1>8. TableHolds(drivers)'
  BY <1>3 DEF TableHolds, Named
<1> QED  BY <1>3, <1>6, <1>7, <1>8 DEF TransportInv

LEMMA NamedHolds ==
  ASSUME TableHolds(drivers), NEW n \in Protos, NEW len \in Lengths, DispatchNamed(n, len)
  PROVE  TransportInv'
<1> DEFINE first == Named(drivers, n) \cap Eligible
<1>1. first \in SUBSET Eligible /\ \A s, t \in first : s = t
  BY DEF TableHolds
<1>2. Begin(len, first, {}, FALSE)
  BY DEF DispatchNamed
<1> HIDE DEF first
<1>3. /\ UNCHANGED drivers /\ call'.auto = FALSE /\ call'.rest = {}
      /\ call'.phase = (IF first = {} THEN "failed" ELSE "busy")
      /\ first # {} => first = {call'.at} /\ call'.at \in Eligible
      /\ \A s \in DriverSlots : call'.made[s] = 0
      /\ CallHolds' /\ FramesHold'
  BY <1>1, <1>2, Begun
<1>4. Eligible' = Eligible /\ \A s \in Eligible : Tries(s)' = Tries(s)
  BY <1>3 DEF Eligible, Tries
<1>5. ASSUME NEW s \in Eligible
      PROVE  call'.made[s] = 0 /\ 0 < Tries(s) /\ 0 <= Tries(s)
  BY <1>3, EligibleIs
<1>6. TriesHold'
  <2>1. \A s \in Eligible' : call'.made[s] <= Tries(s)'
    BY <1>4, <1>5
  <2>2. Busy' => call'.made[call'.at] < Tries(call.at)'
    BY <1>3, <1>5 DEF Busy, Tries
  <2> QED  BY <1>3, <2>1, <2>2 DEF TriesHold, Tries
<1>7. OrderHolds'
  BY <1>3 DEF OrderHolds
<1>8. TableHolds(drivers)'
  BY <1>3 DEF TableHolds, Named
<1> QED  BY <1>3, <1>6, <1>7, <1>8 DEF TransportInv

LEMMA SucceedsHolds ==
  ASSUME TransportInv, Busy, UNCHANGED drivers, NEW frames \in Seq(Frame), AttemptSucceeds(frames),
         frames = Whole(call.len) \/ (InChunks(frames, call.len) /\ Offset(frames) = call.len)
  PROVE  TransportInv'
<1>1. TableHolds(drivers) /\ CallHolds /\ TriesHold /\ OrderHolds
  <2>1. call # NoCall
    BY DEF Busy, NoCall
  <2> QED  BY <2>1 DEF TransportInv
<1>2. call \in Call
  BY <1>1 DEF CallHolds
<1> DEFINE at == call.at
           made == Made
<1>3. /\ at \in Eligible /\ at \in DriverSlots /\ at \notin call.rest
      /\ made \in [DriverSlots -> Nat] /\ made[at] = call.made[at] + 1
      /\ \A s \in DriverSlots : s # at => made[s] = call.made[s]
      /\ \A s \in DriverSlots : call.made[s] \in Nat
  BY <1>1, MadeIs
<1> HIDE DEF made
<1>4. /\ call' \in Call /\ call'.phase = "ok" /\ call'.auto = call.auto /\ call'.len = call.len
      /\ call'.at = at /\ call'.rest = call.rest /\ call'.made = made /\ call'.frames = frames
  <2>1. call' = [call EXCEPT !.phase = "ok", !.made = made, !.frames = frames]
    BY DEF AttemptSucceeds, made
  <2>2. call' = [phase |-> "ok", auto |-> call.auto, len |-> call.len, at |-> call.at,
                 rest |-> call.rest, made |-> made, frames |-> frames]
    BY <1>2, <2>1 DEF Call
  <2> QED  BY <1>2, <1>3, <2>2 DEF Call
<1>5. /\ Eligible' = Eligible /\ \A s : Tries(s)' = Tries(s)
      /\ \A t : Highest(t)' <=> Highest(t)
  BY DEF Eligible, Tries, Highest
<1>6. CallHolds'
  BY <1>1, <1>4, <1>5 DEF CallHolds, Busy
<1>7. TriesHold'
  <2>1. ASSUME NEW s \in Eligible PROVE made[s] <= Tries(s)
    <3>1. s \in DriverSlots /\ Tries(s) \in Nat
      BY <1>1, EligibleIs
    <3>2. call.made[at] < Tries(at) /\ call.made[s] <= Tries(s)
      BY <1>1 DEF TriesHold
    <3> QED  BY <1>3, <3>1, <3>2
  <2>2. ASSUME NEW s \in call.rest PROVE made[s] = 0
    <3>1. s \in DriverSlots /\ s # at /\ call.made[s] = 0
      BY <1>1, <1>2, <1>3 DEF Call, TriesHold
    <3> QED  BY <1>3, <3>1
  <2>3. \A s \in Eligible' : call'.made[s] <= Tries(s)'
    BY <1>4, <1>5, <2>1
  <2>4. \A s \in call'.rest : call'.made[s] = 0
    BY <1>4, <2>2
  <2> QED  BY <1>4, <2>3, <2>4 DEF TriesHold, Busy, Tries
<1>8. OrderHolds'
  <2> SUFFICES ASSUME call.auto
               PROVE  \E t : /\ Highest(t)
                             /\ \/ made[t] = Tries(t)
                                \/ at = t /\ \A s \in DriverSlots \ {t} : made[s] = 0
    BY <1>4, <1>5 DEF OrderHolds, Tries
  <2>1. PICK t : /\ Highest(t)
                 /\ \/ call.made[t] = Tries(t)
                    \/ at = t /\ \A s \in DriverSlots \ {t} : call.made[s] = 0
    BY <1>1 DEF OrderHolds, Busy
  <2>2. t \in DriverSlots
    BY <1>1, <2>1, EligibleIs DEF Highest
  <2>3. CASE t = at
    <3>1. call.made[at] < Tries(at) /\ Tries(at) \in Nat /\ call.made[at] \in Nat
      BY <1>1, <1>3, EligibleIs DEF TriesHold
    <3>2. \A s \in DriverSlots \ {t} : call.made[s] = 0
      BY <2>1, <2>3, <3>1
    <3> QED  BY <1>3, <2>1, <2>3, <3>2
  <2>4. CASE t # at
    BY <1>3, <2>1, <2>2, <2>4
  <2> QED  BY <2>3, <2>4
<1>9. FramesHold'
  BY <1>4 DEF FramesHold, Busy, Offset, InChunks
<1>10. TableHolds(drivers)'
  BY <1>1 DEF TableHolds, Named
<1> QED  BY <1>6, <1>7, <1>8, <1>9, <1>10 DEF TransportInv

\* What a failed attempt leads to: the same driver again, the end, or the next.
LEMMA FailsTo ==
  ASSUME TransportInv, Busy, UNCHANGED drivers, AttemptFails
  PROVE  /\ call' \in Call /\ call'.auto = call.auto /\ call'.len = call.len
         /\ call'.made = Made /\ call'.frames = <<>>
         /\ \/ /\ Made[call.at] < Tries(call.at)
               /\ call'.phase = "busy" /\ call'.at = call.at /\ call'.rest = call.rest
            \/ /\ Made[call.at] = Tries(call.at) /\ call.rest = {}
               /\ call'.phase = "failed" /\ call'.at = call.at /\ call'.rest = {}
            \/ /\ Made[call.at] = Tries(call.at)
               /\ call'.phase = "busy" /\ call'.at \in call.rest /\ call'.rest = call.rest \ {call'.at}
<1>1. TableHolds(drivers) /\ CallHolds /\ TriesHold
  <2>1. call # NoCall
    BY DEF Busy, NoCall
  <2> QED  BY <2>1 DEF TransportInv
<1>2. call \in Call
  BY <1>1 DEF CallHolds
<1> DEFINE at == call.at
           made == Made
<1>3. /\ at \in Eligible /\ made \in [DriverSlots -> Nat] /\ made[at] = call.made[at] + 1
      /\ call.made[at] \in Nat /\ call.made[at] < Tries(at) /\ Tries(at) = 1 + drivers[at].retries
      /\ drivers[at].retries \in Nat
  <2>1. /\ at \in Eligible /\ made \in [DriverSlots -> Nat] /\ made[at] = call.made[at] + 1
        /\ call.made[at] \in Nat
    BY <1>1, MadeIs
  <2> QED  BY <1>1, <2>1, EligibleIs DEF TriesHold
<1> HIDE DEF made
<1> DEFINE failed == [call EXCEPT !.made = made, !.frames = <<>>]
<1>4. call' = IF made[at] <= drivers[at].retries THEN failed
              ELSE IF call.rest = {} THEN [failed EXCEPT !.phase = "failed"]
              ELSE [failed EXCEPT !.at = Min(call.rest), !.rest = @ \ {Min(call.rest)}]
  BY DEF AttemptFails, Sender, made
<1>5. failed = [phase |-> "busy", auto |-> call.auto, len |-> call.len, at |-> at,
                rest |-> call.rest, made |-> made, frames |-> <<>>]
  <2>1. ASSUME NEW c, c = [call EXCEPT !.made = made, !.frames = <<>>]
        PROVE  c = [phase |-> call.phase, auto |-> call.auto, len |-> call.len, at |-> call.at,
                    rest |-> call.rest, made |-> made, frames |-> <<>>]
    BY <1>2, <2>1 DEF Call
  <2>2. failed = [phase |-> call.phase, auto |-> call.auto, len |-> call.len, at |-> call.at,
                  rest |-> call.rest, made |-> made, frames |-> <<>>]
    BY <2>1
  <2> HIDE DEF failed
  <2> QED  BY <2>2 DEF Busy
<1>6. /\ call.auto \in BOOLEAN /\ call.len \in Lengths /\ at \in 0 .. MaxDrivers
      /\ call.rest \in SUBSET DriverSlots /\ <<>> \in Seq(Frame)
  BY <1>2 DEF Call
<1> HIDE DEF failed, at
<1>7. CASE made[at] <= drivers[at].retries
  <2>1. call' = failed
    BY <1>4, <1>7
  <2>2. call' \in Call
    BY <1>3, <1>5, <1>6, <2>1 DEF Call
  <2>3. made[at] < Tries(at)
    BY <1>3, <1>7
  <2> QED  BY <1>5, <2>1, <2>2, <2>3 DEF at, made
<1>8. CASE ~(made[at] <= drivers[at].retries) /\ call.rest = {}
  <2>1. call' = [phase |-> "failed", auto |-> call.auto, len |-> call.len, at |-> at,
                 rest |-> call.rest, made |-> made, frames |-> <<>>]
    BY <1>4, <1>5, <1>8
  <2>2. call' \in Call
    BY <1>3, <1>6, <2>1 DEF Call
  <2>3. made[at] = Tries(at)
    BY <1>3, <1>8
  <2> QED  BY <1>8, <2>1, <2>2, <2>3 DEF at, made
<1>9. CASE ~(made[at] <= drivers[at].retries) /\ call.rest # {}
  <2> DEFINE next == Min(call.rest)
  <2>1. next \in call.rest /\ next \in 0 .. MaxDrivers
    <3>1. MaxDrivers \in Nat /\ call.rest \in SUBSET (1 .. MaxDrivers) /\ call.rest # {}
      BY <1>6, <1>9, TransportAssumption DEF DriverSlots
    <3>2. next \in call.rest
      BY <3>1, LowestIs
    <3> QED  BY <3>1, <3>2
  <2> HIDE DEF next
  <2>2. call' = [phase |-> "busy", auto |-> call.auto, len |-> call.len, at |-> next,
                 rest |-> call.rest \ {next}, made |-> made, frames |-> <<>>]
    BY <1>4, <1>5, <1>9 DEF next
  <2>3. call.rest \ {next} \in SUBSET DriverSlots
    BY <1>6
  <2>4. call' \in Call
    BY <1>3, <1>6, <2>1, <2>2, <2>3 DEF Call
  <2>5. made[at] = Tries(at)
    BY <1>3, <1>9
  <2>6. call'.at = next /\ call'.rest = call.rest \ {next} /\ call'.phase = "busy"
        /\ call'.auto = call.auto /\ call'.len = call.len /\ call'.made = made /\ call'.frames = <<>>
    BY <2>2
  <2> QED  BY <2>1, <2>4, <2>5, <2>6 DEF at, made
<1> QED  BY <1>7, <1>8, <1>9

LEMMA FailsHolds ==
  ASSUME TransportInv, Busy, UNCHANGED drivers, AttemptFails
  PROVE  TransportInv'
<1>1. TableHolds(drivers) /\ CallHolds /\ TriesHold /\ OrderHolds
  <2>1. call # NoCall
    BY DEF Busy, NoCall
  <2> QED  BY <2>1 DEF TransportInv
<1> DEFINE at == call.at
           made == Made
           again == /\ made[at] < Tries(at)
                    /\ call'.phase = "busy" /\ call'.at = at /\ call'.rest = call.rest
           end == /\ made[at] = Tries(at) /\ call.rest = {}
                  /\ call'.phase = "failed" /\ call'.at = at /\ call'.rest = {}
           next == /\ made[at] = Tries(at)
                   /\ call'.phase = "busy" /\ call'.at \in call.rest /\ call'.rest = call.rest \ {call'.at}
<1>2. /\ call' \in Call /\ call'.auto = call.auto /\ call'.len = call.len
      /\ call'.made = made /\ call'.frames = <<>>
      /\ again \/ end \/ next
  BY FailsTo
<1>3. /\ at \in Eligible /\ at \in DriverSlots /\ at \notin call.rest
      /\ made[at] = call.made[at] + 1
      /\ \A s \in DriverSlots : s # at => made[s] = call.made[s]
      /\ \A s \in DriverSlots : call.made[s] \in Nat
  BY <1>1, MadeIs
<1> HIDE DEF made
<1>4. /\ Eligible' = Eligible /\ \A s : Tries(s)' = Tries(s)
      /\ \A t : Highest(t)' <=> Highest(t)
  BY DEF Eligible, Tries, Highest
<1>5. /\ call.rest \subseteq Eligible
      /\ \A s \in Eligible : s \in DriverSlots /\ Tries(s) \in Nat /\ Tries(s) > 0
  BY <1>1, EligibleIs DEF CallHolds
<1>6. CallHolds'
  BY <1>1, <1>2, <1>3, <1>4, <1>5 DEF CallHolds, Busy
<1>7. TriesHold'
  <2>1. ASSUME NEW s \in Eligible PROVE made[s] <= Tries(s)
    <3>1. call.made[s] <= Tries(s) /\ made[at] <= Tries(at)
      BY <1>1, <1>2, <1>3, <1>5 DEF TriesHold
    <3> QED  BY <1>3, <1>5, <3>1
  <2>2. ASSUME NEW s \in call.rest PROVE made[s] = 0
    <3>1. s \in DriverSlots /\ s # at /\ call.made[s] = 0
      BY <1>1, <1>3, <1>5 DEF TriesHold
    <3> QED  BY <1>3, <3>1
  <2>3. \A s \in Eligible' : call'.made[s] <= Tries(s)'
    BY <1>2, <1>4, <2>1
  <2>4. \A s \in call'.rest : call'.made[s] = 0
    BY <1>2, <2>2
  <2>5. call'.phase = "busy" => call'.made[call'.at] < Tries(call'.at)
    <3>1. CASE again
      BY <1>2, <3>1
    <3>2. CASE next
      BY <1>2, <1>5, <2>2, <3>2
    <3> QED  BY <1>2, <3>1, <3>2
  <2>6. ASSUME call.auto, NEW s \in Eligible, s \notin call.rest, s # at
        PROVE  made[s] = Tries(s)
    BY <1>1, <1>3, <1>5, <2>6 DEF TriesHold
  <2>7. ASSUME call'.phase = "busy", call'.auto, NEW s \in Eligible,
               s \notin call'.rest, s # call'.at
        PROVE  call'.made[s] = Tries(s)
    <3>1. CASE again
      BY <1>2, <2>6, <2>7, <3>1
    <3>2. CASE next
      <4>1. CASE s = at
        BY <1>2, <3>2, <4>1
      <4>2. CASE s # at
        BY <1>2, <2>6, <2>7, <3>2, <4>2
      <4> QED  BY <4>1, <4>2
    <3> QED  BY <1>2, <2>7, <3>1, <3>2
  <2>8. ASSUME call'.phase = "failed", call'.auto, NEW s \in Eligible
        PROVE  call'.made[s] = Tries(s)
    <3>1. end
      BY <1>2, <2>8
    <3>2. CASE s = at
      BY <1>2, <3>1, <3>2
    <3>3. CASE s # at
      BY <1>2, <2>6, <2>8, <3>1, <3>3
    <3> QED  BY <3>2, <3>3
  <2>9. Busy' => call'.made[call'.at] < Tries(call.at)'
    BY <2>5 DEF Busy, Tries
  <2>10. Busy' /\ call'.auto =>
           \A s \in Eligible' \ (call'.rest \cup {call'.at}) : call'.made[s] = Tries(s)'
    BY <1>4, <2>7 DEF Busy
  <2>11. call'.auto /\ call'.phase = "failed" => \A s \in Eligible' : call'.made[s] = Tries(s)'
    BY <1>4, <2>8
  <2> QED  BY <2>3, <2>4, <2>9, <2>10, <2>11 DEF TriesHold
<1>8. OrderHolds'
  <2> SUFFICES ASSUME call.auto
               PROVE  \E t : /\ Highest(t)
                             /\ \/ made[t] = Tries(t)
                                \/ call'.at = t /\ \A s \in DriverSlots \ {t} : made[s] = 0
    BY <1>2, <1>4 DEF OrderHolds
  <2>1. PICK t : /\ Highest(t)
                 /\ \/ call.made[t] = Tries(t)
                    \/ at = t /\ \A s \in DriverSlots \ {t} : call.made[s] = 0
    BY <1>1 DEF OrderHolds, Busy
  <2>2. t \in Eligible /\ t \in DriverSlots
    BY <1>5, <2>1 DEF Highest
  <2>3. CASE t = at
    <3>1. call.made[at] < Tries(at) /\ Tries(at) \in Nat /\ call.made[at] \in Nat
      BY <1>1, <1>3, <1>5 DEF TriesHold
    <3>2. \A s \in DriverSlots \ {t} : call.made[s] = 0
      BY <2>1, <2>3, <3>1
    <3>3. \A s \in DriverSlots \ {t} : made[s] = 0
      BY <1>3, <2>3, <3>2
    <3>4. made[t] = Tries(t) \/ call'.at = t
      BY <1>2, <2>3
    <3> QED  BY <2>1, <3>3, <3>4
  <2>4. CASE t # at
    BY <1>3, <2>1, <2>2, <2>4
  <2> QED  BY <2>3, <2>4
<1>9. FramesHold'
  <2>1. InChunks(<<>>, call.len)
    BY DEF InChunks
  <2>2. call'.phase # "ok" /\ InChunks(call'.frames, call'.len)
    BY <1>2, <2>1
  <2> QED  BY <1>2, <2>2 DEF FramesHold, InChunks
<1>10. TableHolds(drivers)'
  BY <1>1 DEF TableHolds, Named
<1> QED  BY <1>6, <1>7, <1>8, <1>9, <1>10 DEF TransportInv

\* Where the next chunk starts: after as many whole ones as there are frames,
\* unless all has been sent.
LEMMA OffsetIs ==
  ASSUME NEW frames \in Seq(Frame), NEW len \in Nat, InChunks(frames, len)
  PROVE  /\ Offset(frames) \in 0 .. len
         /\ Offset(frames) # len => Offset(frames) = Len(frames) * ChunkSize
<1> DEFINE n == Len(frames)
<1>1. n \in Nat /\ ChunkSize \in Nat \ {0}
  BY TransportAssumption
<1>2. CASE frames = <<>>
  <2>1. Offset(frames) = 0 /\ n = 0 /\ 0 * ChunkSize = 0
    BY <1>1, <1>2 DEF Offset
  <2> QED  BY <2>1
<1>3. CASE frames # <<>>
  <2>1. n \in 1 .. n /\ n - 1 \in Nat
    BY <1>1, <1>3, EmptySeq
  <2> DEFINE f == frames[n]
  <2>2. Offset(frames) = f.from + f.bytes
    BY <1>3 DEF Offset
  <2>3. /\ f.from = (n - 1) * ChunkSize /\ f.bytes \in 1 .. ChunkSize
        /\ f.from + f.bytes <= len
        /\ f.bytes = ChunkSize \/ f.from + f.bytes = len
    BY <2>1 DEF InChunks
  <2>4. (n - 1) * ChunkSize \in Nat /\ (n - 1 + 1) * ChunkSize = (n - 1) * ChunkSize + ChunkSize
    BY <1>1, <2>1, ChunksBefore
  <2>5. n - 1 + 1 = n
    BY <1>1
  <2> HIDE DEF f, n
  <2>6. f.from \in Nat /\ f.bytes \in Nat /\ f.bytes = ChunkSize => f.from + f.bytes = n * ChunkSize
    BY <1>1, <2>3, <2>4, <2>5
  <2>7. f.from + f.bytes \in 0 .. len
    BY <1>1, <2>3, <2>4
  <2>8. f.from + f.bytes # len => f.from + f.bytes = n * ChunkSize
    BY <1>1, <2>3, <2>4, <2>5
  <2> QED  BY <2>2, <2>7, <2>8 DEF n
<1> QED  BY <1>2, <1>3

LEMMA ChunkAppended ==
  ASSUME NEW frames \in Seq(Frame), NEW len \in Nat, InChunks(frames, len), Offset(frames) # len,
         NEW chunk,
         chunk = [index |-> Len(frames) % IndexRange, from |-> Offset(frames),
                  bytes |-> Min({ChunkSize, len - Offset(frames)})]
  PROVE  /\ Append(frames, chunk) \in Seq(Frame)
         /\ InChunks(Append(frames, chunk), len)
<1> DEFINE n == Len(frames)
           off == Offset(frames)
           bytes == Min({ChunkSize, len - off})
           longer == Append(frames, chunk)
<1>1. n \in Nat /\ ChunkSize \in Nat \ {0} /\ IndexRange \in Nat \ {0}
  BY TransportAssumption
<1>2. off \in 0 .. len /\ off = n * ChunkSize
  BY OffsetIs
<1>3. /\ bytes \in 1 .. ChunkSize /\ off + bytes <= len
      /\ bytes = ChunkSize \/ off + bytes = len
  <2>1. len - off \in Nat \ {0} /\ ChunkSize \in Int
    BY <1>1, <1>2
  <2>2. bytes = IF ChunkSize <= len - off THEN ChunkSize ELSE len - off
    <3> HIDE DEF off
    <3> QED  BY <2>1, LesserIs
  <2>3. off \in Nat
    BY <1>2
  <2> HIDE DEF bytes, off
  <2>4. CASE ChunkSize <= len - off
    BY <1>1, <2>1, <2>2, <2>3, <2>4
  <2>5. CASE ~(ChunkSize <= len - off)
    BY <1>1, <2>1, <2>2, <2>3, <2>5
  <2> QED  BY <2>4, <2>5
<1>4. ASSUME NEW i \in 1 .. n PROVE frames[i].bytes = ChunkSize
  <2> SUFFICES ASSUME frames[i].bytes # ChunkSize PROVE FALSE
    OBVIOUS
  <2>1. i = n /\ frames[i].from + frames[i].bytes = len
    BY DEF InChunks
  <2>2. frames # <<>>
    BY <1>1, <2>1
  <2> QED  BY <2>1, <2>2 DEF Offset
<1> HIDE DEF off, bytes
<1>5. /\ chunk = [index |-> n % IndexRange, from |-> off, bytes |-> bytes]
      /\ chunk.index = n % IndexRange /\ chunk.from = off /\ chunk.bytes = bytes
  BY DEF off, bytes
<1>6. chunk \in Frame
  <2>1. n % IndexRange \in Nat
    BY <1>1
  <2>2. off \in Nat /\ bytes \in Nat
    BY <1>1, <1>2, <1>3
  <2> HIDE DEF n
  <2> QED  BY <1>5, <2>1, <2>2 DEF Frame
<1>7. longer \in Seq(Frame) /\ Len(longer) = n + 1 /\ longer[n + 1] = chunk
      /\ \A i \in 1 .. n : longer[i] = frames[i]
  BY <1>6
<1>8. \A i \in 1 .. n : /\ frames[i].index = (i - 1) % IndexRange
                        /\ frames[i].from = (i - 1) * ChunkSize
                        /\ frames[i].bytes \in 1 .. ChunkSize
                        /\ frames[i].from + frames[i].bytes <= len
  BY DEF InChunks
<1> HIDE DEF longer, n
<1>9. ASSUME NEW i \in 1 .. n + 1
      PROVE  /\ longer[i].index = (i - 1) % IndexRange
             /\ longer[i].from = (i - 1) * ChunkSize
             /\ longer[i].bytes \in 1 .. ChunkSize
             /\ longer[i].from + longer[i].bytes <= len
             /\ \/ longer[i].bytes = ChunkSize
                \/ i = n + 1 /\ longer[i].from + longer[i].bytes = len
  <2>1. CASE i = n + 1
    <3>1. i - 1 = n
      BY <1>1, <2>1
    <3> QED  BY <1>2, <1>3, <1>5, <1>7, <2>1, <3>1
  <2>2. CASE i # n + 1
    <3>1. i \in 1 .. n
      BY <1>1, <2>2
    <3> QED  BY <1>4, <1>7, <1>8, <3>1
  <2> QED  BY <2>1, <2>2
<1> QED  BY <1>7, <1>9 DEF InChunks, longer

LEMMA SendIs ==
  ASSUME Send
  PROVE  /\ Busy /\ UNCHANGED drivers
         /\ \/ Offset(call.frames) = call.len /\ AttemptSucceeds(call.frames)
            \/ /\ Sender.proto = "can" /\ Offset(call.frames) # call.len
               /\ call' = [call EXCEPT !.frames = Append(@, NextChunk)]
            \/ AttemptSucceeds(Whole(call.len))
            \/ AttemptFails
<1> DEFINE can == Sender.proto = "can"
           large == Sender.proto \in {"tcp", "uart"} /\ call.len + 2 > FrameSize
<1>1. Busy /\ UNCHANGED drivers
  BY DEF Send
<1>2. CASE can
  BY <1>1, <1>2 DEF Send
<1>3. CASE ~can /\ large
  BY <1>1, <1>3 DEF Send
<1>4. CASE ~can /\ ~large
  BY <1>1, <1>4 DEF Send, Whole
<1> QED  BY <1>2, <1>3, <1>4

LEMMA ChunkHolds ==
  ASSUME TransportInv, Busy, UNCHANGED drivers, Sender.proto = "can",
         Offset(call.frames) # call.len, call' = [call EXCEPT !.frames = Append(@, NextChunk)]
  PROVE  TransportInv'
<1>1. TableHolds(drivers) /\ CallHolds /\ TriesHold /\ OrderHolds /\ FramesHold
  <2>1. call # NoCall
    BY DEF Busy, NoCall
  <2> QED  BY <2>1 DEF TransportInv
<1>2. call \in Call /\ call.frames \in Seq(Frame) /\ call.len \in Nat
  BY <1>1, TransportAssumption DEF CallHolds, Call
<1> DEFINE longer == Append(call.frames, NextChunk)
<1>3. longer \in Seq(Frame) /\ InChunks(longer, call.len)
  <2>1. InChunks(call.frames, call.len)
    BY <1>1 DEF FramesHold
  <2>2. NextChunk = [index |-> Len(call.frames) % IndexRange, from |-> Offset(call.frames),
                     bytes |-> Min({ChunkSize, call.len - Offset(call.frames)})]
    BY DEF NextChunk
  <2> QED  BY <1>2, <2>1, <2>2, ChunkAppended
<1> HIDE DEF longer
<1>4. call' = [call EXCEPT !.frames = longer]
  BY <1>2 DEF longer
<1>5. call' = [phase |-> call.phase, auto |-> call.auto, len |-> call.len, at |-> call.at,
               rest |-> call.rest, made |-> call.made, frames |-> longer]
  BY <1>2, <1>4 DEF Call
<1>6. /\ call' \in Call /\ call'.phase = call.phase /\ call'.auto = call.auto /\ call'.len = call.len
      /\ call'.at = call.at /\ call'.rest = call.rest /\ call'.made = call.made
      /\ call'.frames = longer
  <2>1. /\ call.phase \in {"busy", "ok", "failed"} /\ call.auto \in BOOLEAN /\ call.len \in Lengths
        /\ call.at \in 0 .. MaxDrivers /\ call.rest \in SUBSET DriverSlots
        /\ call.made \in [DriverSlots -> Nat]
    BY <1>2 DEF Call
  <2> DEFINE c == [phase |-> call.phase, auto |-> call.auto, len |-> call.len, at |-> call.at,
                   rest |-> call.rest, made |-> call.made, frames |-> longer]
  <2>2. c \in Call
    BY <1>3, <2>1 DEF Call
  <2>3. /\ c.phase = call.phase /\ c.auto = call.auto /\ c.len = call.len /\ c.at = call.at
        /\ c.rest = call.rest /\ c.made = call.made /\ c.frames = longer
    OBVIOUS
  <2> HIDE DEF c
  <2>4. call' = c
    BY <1>5 DEF c
  <2> QED  BY <2>2, <2>3, <2>4
<1>7. CallHolds'
  BY <1>1, <1>6 DEF CallHolds, Busy, Eligible
<1>8. TriesHold'
  BY <1>1, <1>6 DEF TriesHold, Busy, Eligible, Tries
<1>9. OrderHolds'
  BY <1>1, <1>6 DEF OrderHolds, Highest, Eligible, Tries
<1>10. FramesHold'
  BY <1>3, <1>6 DEF FramesHold, Busy, InChunks, Sender
<1>11. TableHolds(drivers)'
  BY <1>1 DEF TableHolds, Named
<1> QED  BY <1>7, <1>8, <1>9, <1>10, <1>11 DEF TransportInv

LEMMA SendHolds ==
  ASSUME TransportInv, Send
  PROVE  TransportInv'
<1>1. Busy /\ UNCHANGED drivers
  BY SendIs
<1>2. CallHolds /\ FramesHold
  <2>1. call # NoCall
    BY <1>1 DEF Busy, NoCall
  <2> QED  BY <2>1 DEF TransportInv
<1>3. /\ call.frames \in Seq(Frame) /\ call.len \in Nat /\ InChunks(call.frames, call.len)
  BY <1>1, <1>2, TransportAssumption DEF CallHolds, Call, FramesHold
<1>4. CASE Offset(call.frames) = call.len /\ AttemptSucceeds(call.frames)
  BY <1>1, <1>3, <1>4, SucceedsHolds
<1>5. CASE /\ Sender.proto = "can" /\ Offset(call.frames) # call.len
           /\ call' = [call EXCEPT !.frames = Append(@, NextChunk)]
  BY <1>1, <1>5, ChunkHolds
<1>6. CASE AttemptSucceeds(Whole(call.len))
  <2>1. Whole(call.len) \in Seq(Frame)
    BY <1>3 DEF Whole, Frame
  <2> QED  BY <1>1, <1>6, <2>1, SucceedsHolds
<1>7. CASE AttemptFails
  BY <1>1, <1>7, FailsHolds
<1> QED  BY <1>4, <1>5, <1>6, <1>7, SendIs

LEMMA TransportStarts ==
  ASSUME TransportInit
  PROVE  TransportInv
<1>1. drivers \in [DriverSlots -> {Free} \cup Driver] /\ \A s \in DriverSlots : drivers[s] = Free
  BY DEF TransportInit
<1>2. \A n \in Protos : Named(drivers, n) = {}
  BY <1>1 DEF Named, Free
<1> QED  BY <1>1, <1>2 DEF TransportInit, TransportInv, TableHolds

LEMMA TransportStep ==
  ASSUME TransportInv, TransportNext
  PROVE  TransportInv'
<1>1. TableHolds(drivers)
  BY DEF TransportInv
<1>2. CASE call = NoCall /\ Configure
  <2>1. TableHolds(drivers') /\ call' = NoCall
    BY <1>1, <1>2, ConfiguredIs
  <2>2. TableHolds(drivers)'
    BY <2>1 DEF TableHolds, Named
  <2> QED  BY <2>1, <2>2 DEF TransportInv
<1>3. CASE Dispatch
  BY <1>1, <1>3, AutoHolds, NamedHolds DEF Dispatch
<1>4. CASE Send
  BY <1>4, SendHolds
<1>5. CASE Return
  <2>1. TableHolds(drivers)' /\ call' = NoCall
    BY <1>1, <1>5 DEF Return, TableHolds, Named
  <2> QED  BY <2>1 DEF TransportInv
<1> QED  BY <1>2, <1>3, <1>4, <1>5 DEF TransportNext

LEMMA TransportStutter ==
  ASSUME TransportInv, UNCHANGED transportVars
  PROVE  TransportInv'
<1>1. UNCHANGED drivers /\ UNCHANGED call
  BY DEF transportVars
<1>2. TableHolds(drivers)'
  BY <1>1 DEF TransportInv, TableHolds, Named
<1>3. (CallHolds => CallHolds') /\ (TriesHold => TriesHold')
  BY <1>1 DEF CallHolds, TriesHold, Eligible, Busy, Tries
<1>4. (OrderHolds => OrderHolds') /\ (FramesHold => FramesHold')
  BY <1>1 DEF OrderHolds, FramesHold, Highest, Eligible, Busy, Tries, InChunks, Sender, Offset
<1> QED  BY <1>1, <1>2, <1>3, <1>4 DEF TransportInv

\* The inductive invariant: in every state osfx_transporter_dispatch_auto and
\* osfx_transporter_dispatch_named can be in, the tries made so far follow the
\* order of the dispatch and the frames emitted are the payload's first chunks.
THEOREM TransportInvariant == TransportSpec => []TransportInv
<1>1. TransportInit => TransportInv
  BY TransportStarts
<1>2. TransportInv /\ [TransportNext]_transportVars => TransportInv'
  BY TransportStep, TransportStutter
<1> QED  BY <1>1, <1>2, PTL DEF TransportSpec

\* osfx_transporter_register finds a driver of that name again, so a name is
\* never held twice; and a dispatch is at a driver that is enabled, or over.
THEOREM TransportTypeCorrect == TransportSpec => []TransportTypeOK
<1>1. TransportInv => TransportTypeOK
  <2> SUFFICES ASSUME TransportInv PROVE TransportTypeOK
    OBVIOUS
  <2>1. TableHolds(drivers)
    BY DEF TransportInv
  <2>2. \A s \in DriverSlots : drivers[s] = Free \/ drivers[s] \in Driver
    BY <2>1 DEF TableHolds
  <2>3. ASSUME NEW n \in Protos PROVE Cardinality(Named(drivers, n)) <= 1
    <3>1. \A s, t \in Named(drivers, n) : s = t
      BY <2>1 DEF TableHolds
    <3>2. CASE Named(drivers, n) = {}
      BY <3>2, FS_EmptySet
    <3>3. CASE Named(drivers, n) # {}
      <4>1. PICK s : Named(drivers, n) = {s}
        BY <3>1, <3>3
      <4>2. Cardinality({s}) = 1
        BY FS_Singleton
      <4> QED  BY <4>1, <4>2
    <3> QED  BY <3>2, <3>3
  <2>4. CASE call = NoCall
    BY <2>2, <2>3, <2>4 DEF TransportTypeOK, Driver
  <2>5. CASE CallHolds
    <3>1. /\ call.phase \in {"busy", "ok", "failed"} /\ call.len \in Lengths
          /\ Busy => call.at \in Eligible
          /\ call.rest \subseteq Eligible
      BY <2>5 DEF CallHolds, Call
    <3> QED  BY <2>2, <2>3, <3>1 DEF TransportTypeOK, Driver
  <2> QED  BY <2>4, <2>5 DEF TransportInv
<1> QED  BY <1>1, TransportInvariant, PTL

\* Whatever slots the drivers are in and whatever fails, dispatch_auto turns to
\* another driver only when one with the highest priority has had all its tries.
THEOREM BestGoesFirst == TransportSpec => []BestFirst
<1>1. TransportInv => BestFirst
  <2> SUFFICES ASSUME TransportInv, call # NoCall, call.auto, NEW s \in DriverSlots, call.made[s] > 0
               PROVE  \E t \in Eligible :
                        /\ \A u \in Eligible : drivers[u].priority <= drivers[t].priority
                        /\ t = s \/ call.made[t] = Tries(t)
    BY DEF BestFirst
  <2>1. OrderHolds
    BY DEF TransportInv
  <2>2. ~(\A q \in DriverSlots : call.made[q] = 0)
    <3>1. call.made[s] # 0
      <4>1. ~(0 > 0)
        OBVIOUS
      <4> QED  BY <4>1
    <3> QED  BY <3>1
  <2>3. PICK t : /\ Highest(t)
                 /\ \/ call.made[t] = Tries(t)
                    \/ call.at = t /\ \A q \in DriverSlots \ {t} : call.made[q] = 0
    BY <2>1, <2>2 DEF OrderHolds
  <2>4. t = s \/ call.made[t] = Tries(t)
    <3>1. call.made[s] # 0
      <4>1. ~(0 > 0)
        OBVIOUS
      <4> QED  BY <4>1
    <3> QED  BY <2>3, <3>1
  <2> QED  BY <2>3, <2>4 DEF Highest
<1> QED  BY <1>1, TransportInvariant, PTL

\* No driver is tried more often than its retries allow, and when dispatch_auto
\* gives up, every enabled driver has been tried as often as they do; or none has
\* a priority above the -2147483647 the search for the best one starts from.
THEOREM TriesAreSpent == TransportSpec => []TriesSpent
<1>1. TransportInv => TriesSpent
  BY DEF TransportInv, TriesSpent, TriesHold
<1> QED  BY <1>1, TransportInvariant, PTL

LEMMA ChunksCarryAll ==
  ASSUME NEW frames \in Seq(Frame), NEW len \in Nat, InChunks(frames, len), Offset(frames) = len,
         NEW byte \in 0 .. len - 1
  PROVE  \E i \in 1 .. Len(frames) : Carries(frames[i], byte)
<1> DEFINE n == Len(frames)
           q == byte \div ChunkSize
<1>1. n \in Nat /\ ChunkSize \in Nat \ {0} /\ byte \in Nat /\ byte < len
  BY TransportAssumption
<1>2. frames # <<>>
  BY <1>1 DEF Offset
<1>3. n \in 1 .. n /\ n - 1 \in Nat /\ len = frames[n].from + frames[n].bytes
  BY <1>1, <1>2, EmptySeq DEF Offset
<1>4. q \in Nat /\ q * ChunkSize <= byte /\ byte < q * ChunkSize + ChunkSize /\ q * ChunkSize \in Nat
  BY <1>1, ChunkOf, ChunksBefore
<1> HIDE DEF q
<1>5. q < n
  <2>1. frames[n].from = (n - 1) * ChunkSize /\ frames[n].bytes \in 1 .. ChunkSize
    BY <1>3 DEF InChunks
  <2>2. (n - 1 + 1) * ChunkSize = (n - 1) * ChunkSize + ChunkSize /\ n - 1 + 1 = n
        /\ (n - 1) * ChunkSize \in Nat /\ n * ChunkSize \in Nat
    BY <1>1, <1>3, ChunksBefore
  <2> HIDE DEF n
  <2>3. len <= n * ChunkSize
    BY <1>1, <1>3, <2>1, <2>2
  <2>4. q * ChunkSize < n * ChunkSize
    BY <1>1, <1>4, <2>2, <2>3
  <2> QED  BY <1>1, <1>4, <2>4, ChunksBefore
<1>6. q + 1 \in 1 .. n /\ q + 1 - 1 = q
  BY <1>1, <1>4, <1>5
<1> DEFINE f == frames[q + 1]
<1>7. /\ f.from = q * ChunkSize /\ f.bytes \in 1 .. ChunkSize
      /\ f.bytes = ChunkSize \/ (q + 1 = n /\ f.from + f.bytes = len)
  <2> DEFINE k == q + 1
  <2>1. k \in 1 .. n /\ k - 1 = q
    BY <1>4, <1>6
  <2> HIDE DEF k
  <2>2. /\ frames[k].from = (k - 1) * ChunkSize /\ frames[k].bytes \in 1 .. ChunkSize
        /\ frames[k].bytes = ChunkSize \/ (k = n /\ frames[k].from + frames[k].bytes = len)
    BY <2>1 DEF InChunks
  <2> QED  BY <2>1, <2>2 DEF k
<1> HIDE DEF f
<1>8. byte \in f.from .. f.from + f.bytes - 1
  BY <1>1, <1>4, <1>7
<1> QED  BY <1>6, <1>8 DEF Carries, f

LEMMA ChunksInOrder ==
  ASSUME NEW frames \in Seq(Frame), NEW len \in Nat, InChunks(frames, len),
         NEW i \in 1 .. Len(frames), NEW j \in 1 .. Len(frames), i < j
  PROVE  frames[i].from + frames[i].bytes <= frames[j].from
<1>1. Len(frames) \in Nat /\ ChunkSize \in Nat \ {0}
  BY TransportAssumption
<1>2. /\ frames[i].from = (i - 1) * ChunkSize /\ frames[i].bytes = ChunkSize
      /\ frames[j].from = (j - 1) * ChunkSize
  <2>1. i # Len(frames)
    BY <1>1
  <2> QED  BY <2>1 DEF InChunks
<1>3. i - 1 \in Nat /\ j - 1 \in Nat /\ i - 1 + 1 = i /\ i \in Nat /\ i <= j - 1
  BY <1>1
<1>4. i * ChunkSize = (i - 1) * ChunkSize + ChunkSize /\ i * ChunkSize <= (j - 1) * ChunkSize
  <2>1. (i - 1 + 1) * ChunkSize = (i - 1) * ChunkSize + ChunkSize
    BY <1>1, <1>3, ChunksBefore
  <2> QED  BY <1>1, <1>3, <2>1, ChunksBefore
<1> QED  BY <1>2, <1>4

LEMMA IndexesDiffer ==
  ASSUME NEW frames \in Seq(Frame), NEW len \in Nat, InChunks(frames, len),
         len <= ChunkSize * IndexRange,
         NEW i \in 1 .. Len(frames), NEW j \in 1 .. Len(frames), frames[i].index = frames[j].index
  PROVE  i = j
<1>1. Len(frames) \in Nat /\ ChunkSize \in Nat \ {0} /\ IndexRange \in Nat \ {0}
  BY TransportAssumption
<1>2. ASSUME NEW k \in 1 .. Len(frames) PROVE frames[k].index = k - 1
  <2>1. /\ frames[k].index = (k - 1) % IndexRange /\ frames[k].from = (k - 1) * ChunkSize
        /\ frames[k].bytes \in 1 .. ChunkSize /\ frames[k].from + frames[k].bytes <= len
    BY DEF InChunks
  <2>2. k - 1 \in Nat /\ (k - 1) * ChunkSize \in Nat /\ IndexRange * ChunkSize \in Nat
    BY <1>1, ChunksBefore
  <2>3. ChunkSize * IndexRange = IndexRange * ChunkSize
    BY <1>1
  <2>4. (k - 1) * ChunkSize < IndexRange * ChunkSize
    <3> DEFINE x == (k - 1) * ChunkSize
               y == IndexRange * ChunkSize
               b == frames[k].bytes
    <3>1. x \in Nat /\ len <= y /\ y \in Nat /\ b \in 1 .. ChunkSize /\ x + b <= len
      BY <2>1, <2>2, <2>3
    <3> HIDE DEF x, y, b
    <3>2. x < y
      BY <1>1, <3>1
    <3> QED  BY <3>2 DEF x, y
  <2>5. k - 1 < IndexRange
    BY <1>1, <2>2, <2>4, ChunksBefore
  <2>6. (k - 1) % IndexRange = k - 1
    BY <1>1, <2>2, <2>5
  <2> QED  BY <2>1, <2>6
<1>3. frames[i].index = i - 1 /\ frames[j].index = j - 1
  BY <1>2
<1>4. i - 1 = j - 1
  BY <1>3
<1>5. i \in Nat /\ j \in Nat
  BY <1>1
<1> QED  BY <1>4, <1>5

\* The frames of a dispatch that returns 1 carry the payload, every byte of it
\* once and in order, for every length; and no two CAN frames the same index as
\* long as the payload needs no more than 256 of them.
THEOREM SentIsWhole == TransportSpec => []SentWhole
<1>1. TransportInv => SentWhole
  <2> SUFFICES ASSUME TransportInv, call.phase = "ok" PROVE SentWhole
    BY DEF SentWhole
  <2> DEFINE frames == call.frames
             len == call.len
  <2>1. CallHolds /\ FramesHold
    <3>1. call # NoCall
      BY DEF NoCall
    <3> QED  BY <3>1 DEF TransportInv
  <2>2. frames \in Seq(Frame) /\ len \in Nat /\ DOMAIN frames = 1 .. Len(frames)
    <3>1. frames \in Seq(Frame) /\ len \in Nat
      BY <2>1, TransportAssumption DEF CallHolds, Call
    <3> QED  BY <3>1
  <2>3. frames = Whole(len) \/ (InChunks(frames, len) /\ Offset(frames) = len)
    BY <2>1 DEF FramesHold
  <2> SUFFICES
        /\ \A byte \in 0 .. len - 1 : \E i \in 1 .. Len(frames) : Carries(frames[i], byte)
        /\ \A i \in 1 .. Len(frames) : frames[i].from + frames[i].bytes <= len
        /\ \A i, j \in 1 .. Len(frames) : i < j => frames[i].from + frames[i].bytes <= frames[j].from
        /\ len <= ChunkSize * IndexRange =>
             \A i, j \in 1 .. Len(frames) : frames[i].index = frames[j].index => i = j
    BY <2>2 DEF SentWhole
  <2> HIDE DEF frames, len
  <2>4. CASE frames = Whole(len)
    <3>1. Len(frames) = 1 /\ frames[1] = [index |-> 0, from |-> 0, bytes |-> len]
      BY <2>4 DEF Whole
    <3>2. frames[1].from = 0 /\ frames[1].bytes = len
      BY <3>1
    <3>3. \A byte \in 0 .. len - 1 : Carries(frames[1], byte)
      BY <2>2, <3>2 DEF Carries
    <3>4. \A i \in 1 .. Len(frames) : i = 1
      BY <3>1
    <3>5. frames[1].from + frames[1].bytes <= len /\ 1 \in 1 .. Len(frames)
      BY <2>2, <3>1, <3>2
    <3> QED  BY <3>3, <3>4, <3>5
  <2>5. CASE InChunks(frames, len) /\ Offset(frames) = len
    <3>1. \A byte \in 0 .. len - 1 : \E i \in 1 .. Len(frames) : Carries(frames[i], byte)
      BY <2>2, <2>5, ChunksCarryAll
    <3>2. \A i \in 1 .. Len(frames) : frames[i].from + frames[i].bytes <= len
      BY <2>5 DEF InChunks
    <3>3. \A i, j \in 1 .. Len(frames) : i < j => frames[i].from + frames[i].bytes <= frames[j].from
      BY <2>2, <2>5, ChunksInOrder
    <3>4. len <= ChunkSize * IndexRange =>
             \A i, j \in 1 .. Len(frames) : frames[i].index = frames[j].index => i = j
      BY <2>2, <2>5, IndexesDiffer
    <3> QED  BY <3>1, <3>2, <3>3, <3>4
  <2> QED  BY <2>3, <2>4, <2>5
<1> QED  BY <1>1, TransportInvariant, PTL
=============================================================================
