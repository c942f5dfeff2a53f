--------------------------- MODULE HandshakeProofs --------------------------
(***************************************************************************)
(* Theorems about the secure channel handshake, for every number of        *)
(* devices, sessions, saves and faults, over a network that loses, repeats *)
(* and reorders, with reboots, clean-ups and restarts from a cut file.     *)
(*                                                                         *)
(* The invariant says of every session, in either end's store or in the    *)
(* file, that what its keys are made of was sent in plaintext by the       *)
(* device; of every packet accepted, unless its memory was lost, that its  *)
(* session has a timestamp no smaller; and of every packet the file        *)
(* remembers that a line of its aid has one.                               *)
(***************************************************************************)
EXTENDS SecureHandshake, SessionProofs

\* The sessions the messages sent account for.
Fit(msgs) ==
  {x \in Session :
     x.used =>
       /\ x.aid \in Devices
       /\ x.pending # None => Plain(x.aid, x.pending) \in msgs
       /\ x.key # None => Plain(x.aid, x.key) \in msgs}

StoreFits(st, msgs) ==
  /\ StoreOK(st) /\ OnePerAid(st)
  /\ \A s \in Sessions : st[s] \in Fit(msgs)

FileFits(f, msgs) ==
  /\ LinesOK(f)
  /\ \A i \in 1 .. Len(f) : f[i] \in Fit(msgs)

OffersAnswerPlain ==
  \A d \in Devices, ts \in Stamps : DictReady(d, ts) \in net => Plain(d, ts) \in net

\* A device encrypts only after an offer.
OfferedFirst ==
  \A d \in Devices : ShouldEncrypt(dev[d], d) => \E x \in Stamps : DictReady(d, x) \in net

Remembered == \A p \in accepted \ exposed : Covered(srv, p.aid, p.ts)

FileRemembers ==
  \A p \in saved : \E i \in 1 .. Len(lines) :
    lines[i].used /\ lines[i].aid = p.aid /\ lines[i].last >= p.ts

MemoryOK ==
  /\ accepted \subseteq [aid : Devices, ts : Stamps]
  /\ \A p \in accepted : p.ts > 0
  /\ exposed \subseteq accepted /\ saved \subseteq accepted /\ replayed = {}

HandInv ==
  /\ dev \in [Devices -> Store] /\ \A d \in Devices : StoreFits(dev[d], net)
  /\ StoreFits(srv, net)
  /\ FileFits(lines, net)
  /\ stamp \in [Devices -> Stamps]
  /\ net \subseteq Message
  /\ MemoryOK
  /\ saves \in 0 .. MaxSaves /\ faults \in 0 .. MaxFaults
  /\ OffersAnswerPlain /\ OfferedFirst
  /\ HandshakeOrder
  /\ Remembered /\ FileRemembers
-----------------------------------------------------------------------------
LEMMA Numbers == Devices \subseteq Nat /\ Stamps \subseteq Nat
BY HandshakeAssumption DEF Stamps

LEMMA MoreMessages ==
  ASSUME NEW msgs, NEW more, msgs \subseteq more
  PROVE  /\ Fit(msgs) \subseteq Fit(more)
         /\ \A st : StoreFits(st, msgs) => StoreFits(st, more)
         /\ \A f : FileFits(f, msgs) => FileFits(f, more)
<1>1. Fit(msgs) \subseteq Fit(more)
  BY DEF Fit
<1> QED  BY <1>1 DEF StoreFits, FileFits

LEMMA EmptyFits ==
  ASSUME NEW msgs
  PROVE  StoreFits(EmptyStore, msgs) /\ \A a : ~ShouldEncrypt(EmptyStore, a)
<1>1. EmptyStore \in Store /\ \A s \in Sessions : EmptyStore[s] = Unused
  BY UnusedIs DEF EmptyStore, Store
<1> QED
  BY <1>1, UnusedIs DEF StoreFits, StoreOK, OnePerAid, Fit, ShouldEncrypt, Mine

LEMMA KeptFits ==
  ASSUME NEW msgs, NEW st, StoreFits(st, msgs), NEW d \in Devices, NEW x \in Session,
         x.used, x.aid = d, StateAgrees(x),
         x.pending # None => Plain(d, x.pending) \in msgs,
         x.key # None => Plain(d, x.key) \in msgs
  PROVE  StoreFits(Kept(st, d, x), msgs)
<1>1. st \in Store /\ OnePerAid(st) /\ d \in Nat
  BY Numbers DEF StoreFits, StoreOK
<1>2. Kept(st, d, x) \in Store /\ OnePerAid(Kept(st, d, x))
  BY <1>1, KeptIs, KeptOne
<1>3. x \in Fit(msgs)
  BY DEF Fit
<1>4. \A s \in Sessions : Kept(st, d, x)[s] \in Fit(msgs)
  BY <1>1, <1>3, KeptIs DEF StoreFits
<1>5. \A s \in Sessions : StateAgrees(Kept(st, d, x)[s])
  BY <1>1, KeptIs DEF StoreFits, StoreOK
<1> QED  BY <1>2, <1>4, <1>5 DEF StoreFits, StoreOK

LEMMA SessionOfFits ==
  ASSUME NEW msgs, NEW st, StoreFits(st, msgs), NEW d \in Devices
  PROVE  /\ SessionOf(st, d).pending # None => Plain(d, SessionOf(st, d).pending) \in msgs
         /\ SessionOf(st, d).key # None => Plain(d, SessionOf(st, d).key) \in msgs
<1>1. st \in Store /\ d \in Nat
  BY Numbers DEF StoreFits, StoreOK
<1>2. CASE Mine(st, d) = {}
  BY <1>1, <1>2, FreshIs DEF SessionOf
<1>3. CASE Mine(st, d) # {}
  <2>1. PICK s \in Sessions : st[s].used /\ st[s].aid = d /\ SessionOf(st, d) = st[s]
    <3>1. First(Mine(st, d)) \in Mine(st, d)
      BY <1>3, FirstIsIn, Mine(st, d) \in SUBSET Sessions DEF Mine
    <3> QED  BY <1>3, <3>1 DEF SessionOf, Mine
  <2> QED  BY <2>1 DEF StoreFits, Fit
<1> QED  BY <1>2, <1>3

LEMMA NotedFits ==
  ASSUME NEW msgs, NEW st, StoreFits(st, msgs), NEW d \in Devices, NEW ts \in Stamps,
         Plain(d, ts) \in msgs
  PROVE  StoreFits(PlaintextNoted(st, d, ts), msgs)
<1>1. PICK x \in Session :
        /\ PlaintextNoted(st, d, ts) = Kept(st, d, x)
        /\ x.used /\ x.aid = d /\ StateAgrees(x) /\ x.pending = ts
        /\ x.key = SessionOf(st, d).key
  BY PlaintextNotedForm, Numbers DEF StoreFits
<1> QED  BY <1>1, KeptFits, SessionOfFits

LEMMA MarkedFits ==
  ASSUME NEW msgs, NEW st, StoreFits(st, msgs), NEW d \in Devices
  PROVE  StoreFits(ChannelMarked(st, d), msgs)
<1>1. PICK x \in Session :
        /\ ChannelMarked(st, d) = Kept(st, d, x)
        /\ x.used /\ x.aid = d /\ StateAgrees(x) /\ x.pending = SessionOf(st, d).pending
        /\ x.key = SessionOf(st, d).key
  BY ChannelMarkedForm, Numbers DEF StoreFits
<1> QED  BY <1>1, KeptFits, SessionOfFits

LEMMA CheckedFits ==
  ASSUME NEW msgs, NEW st, StoreFits(st, msgs), NEW d \in Devices, NEW ts \in Stamps
  PROVE  StoreFits(TimestampChecked(st, d, ts), msgs)
<1>1. PICK x \in Session :
        /\ TimestampChecked(st, d, ts) = Kept(st, d, x)
        /\ x.used /\ x.aid = d /\ StateAgrees(x) /\ x.pending = SessionOf(st, d).pending
        /\ x.key = SessionOf(st, d).key
  BY TimestampCheckedForm, Numbers DEF StoreFits
<1> QED  BY <1>1, KeptFits, SessionOfFits

LEMMA DictFits ==
  ASSUME NEW msgs, NEW st, StoreFits(st, msgs), NEW d \in Devices, NEW ts \in Stamps,
         Plain(d, ts) \in msgs
  PROVE  StoreFits(DictConfirmed(st, d, ts), msgs)
<1>1. PICK x \in Session :
        /\ DictConfirmed(st, d, ts) = Kept(st, d, x)
        /\ x.used /\ x.aid = d /\ StateAgrees(x)
        /\ x.key \in Nat /\ x.pending = x.key
        /\ x.key = ts \/ x.key = SessionOf(st, d).pending
  BY DictConfirmedForm, Numbers DEF StoreFits
<1>2. Plain(d, x.key) \in msgs
  <2>1. CASE x.key = ts
    BY <2>1
  <2>2. CASE x.key = SessionOf(st, d).pending
    BY <1>1, <2>2, SessionOfFits DEF None
  <2> QED  BY <1>1, <2>1, <2>2
<1> QED  BY <1>1, <1>2, KeptFits

\* No call but a new timestamp changes what is covered, and that only adds.
LEMMA CallsKeepCovered ==
  ASSUME NEW st, StoreOK(st), NEW d \in Nat, NEW t \in Nat, NEW a, NEW ts \in Nat,
         Covered(st, a, ts)
  PROVE  /\ Covered(ChannelMarked(st, d), a, ts)
         /\ Covered(DictConfirmed(st, d, t), a, ts)
         /\ Covered(TimestampChecked(st, d, t), a, ts)
<1>0. st \in Store /\ SessionOf(st, d).last \in Nat
  BY SessionOfIs DEF StoreOK, Session
<1>1. Covered(ChannelMarked(st, d), a, ts)
  <2>1. PICK x \in Session :
          /\ ChannelMarked(st, d) = Kept(st, d, x)
          /\ x.used /\ x.aid = d /\ x.last = SessionOf(st, d).last
    BY ChannelMarkedForm
  <2> QED  BY <1>0, <2>1, KeptCovered
<1>2. Covered(DictConfirmed(st, d, t), a, ts)
  <2>1. PICK x \in Session :
          /\ DictConfirmed(st, d, t) = Kept(st, d, x)
          /\ x.used /\ x.aid = d /\ x.last = SessionOf(st, d).last
    BY DictConfirmedForm
  <2> QED  BY <1>0, <2>1, KeptCovered
<1>3. Covered(TimestampChecked(st, d, t), a, ts)
  <2>1. PICK x \in Session :
          /\ TimestampChecked(st, d, t) = Kept(st, d, x)
          /\ x.used /\ x.aid = d
          /\ TimestampResult(st, d, t) = "ACCEPT" => x.last = t
          /\ TimestampResult(st, d, t) # "ACCEPT" => x.last = SessionOf(st, d).last
    BY TimestampCheckedForm
  <2>2. TimestampResult(st, d, t) = "ACCEPT" => t >= SessionOf(st, d).last
    BY <1>0 DEF TimestampResult
  <2>3. x.last >= SessionOf(st, d).last
    BY <1>0, <2>1, <2>2
  <2> QED  BY <1>0, <2>1, <2>3, KeptCovered
<1> QED  BY <1>1, <1>2, <1>3

LEMMA CheckedIsCovered ==
  ASSUME NEW st, StoreOK(st), NEW d \in Nat, NEW ts \in Nat,
         TimestampResult(st, d, ts) = "ACCEPT"
  PROVE  Covered(TimestampChecked(st, d, ts), d, ts)
<1>1. PICK x \in Session :
        /\ TimestampChecked(st, d, ts) = Kept(st, d, x)
        /\ x.used /\ x.aid = d
        /\ TimestampResult(st, d, ts) = "ACCEPT" => x.last = ts
  BY TimestampCheckedForm
<1>2. HasRoom(st, d) /\ st \in Store
  BY DEF TimestampResult, StoreOK
<1> QED  BY <1>1, <1>2, KeptIs DEF Covered, Mine
-----------------------------------------------------------------------------
LEMMA MessageForm ==
  ASSUME NEW m \in Message
  PROVE  /\ m.aid \in Devices
         /\ m.kind = "PLAIN" => m.ts \in Stamps /\ m = Plain(m.aid, m.ts)
         /\ m.kind = "DICT_READY" => m.ts \in Stamps /\ m = DictReady(m.aid, m.ts)
         /\ m.kind = "SECURE" =>
              m.ts \in Stamps /\ m.key \in Stamps /\ m = Secure(m.aid, m.ts, m.key)
BY DEF Message, Plain, DictReady, Secure

LEMMA KindsApart ==
  /\ \A d, ts : Plain(d, ts).kind = "PLAIN" /\ DictReady(d, ts).kind = "DICT_READY"
  /\ \A d, ts, k : Secure(d, ts, k).kind = "SECURE"
  /\ \A d : ChannelAck(d).kind = "CHANNEL_ACK"
BY DEF Plain, DictReady, Secure, ChannelAck

LEMMA Written ==
  ASSUME NEW d \in Devices, NEW ts \in Stamps, NEW k \in Stamps
  PROVE  /\ Plain(d, ts) \in Message /\ DictReady(d, ts) \in Message
         /\ Secure(d, ts, k) \in Message /\ ChannelAck(d) \in Message
BY DEF Message, Plain, DictReady, Secure, ChannelAck

LEMMA InitHandInv == Init => HandInv
<1> SUFFICES ASSUME Init PROVE HandInv
  OBVIOUS
<1>1. dev \in [Devices -> Store] /\ (\A d \in Devices : StoreFits(dev[d], net))
      /\ StoreFits(srv, net) /\ OfferedFirst
  BY EmptyFits DEF Init, OfferedFirst, StoreFits, StoreOK
<1>2. FileFits(lines, net)
  BY SessionAssumption DEF Init, FileFits, LinesOK
<1>3. stamp \in [Devices -> Stamps] /\ saves \in 0 .. MaxSaves /\ faults \in 0 .. MaxFaults
  BY HandshakeAssumption DEF Init, Stamps
<1>4. OffersAnswerPlain /\ HandshakeOrder /\ Remembered /\ FileRemembers /\ MemoryOK
  BY DEF Init, OffersAnswerPlain, HandshakeOrder, Remembered, FileRemembers, MemoryOK
<1> QED  BY <1>1, <1>2, <1>3, <1>4 DEF HandInv, Init

\* A device's step, of which only the messages and its store are left to show.
LEMMA DeviceStep ==
  ASSUME HandInv, UNCHANGED <<srv, lines, saves, memory>>,
         faults' \in 0 .. MaxFaults, stamp' \in [Devices -> Stamps],
         net \subseteq net', net' \subseteq Message,
         NEW d \in Devices, NEW st, dev' = [dev EXCEPT ![d] = st], StoreFits(st, net'),
         OffersAnswerPlain', HandshakeOrder',
         ShouldEncrypt(st, d) => \E x \in Stamps : DictReady(d, x) \in net'
  PROVE  HandInv'
<1>1. StoreFits(srv, net') /\ FileFits(lines, net')
  BY MoreMessages DEF HandInv
<1>2. dev' \in [Devices -> Store] /\ \A e \in Devices : dev'[e] = IF e = d THEN st ELSE dev[e]
  BY DEF HandInv, StoreFits, StoreOK
<1>3. \A e \in Devices : StoreFits(dev'[e], net')
  BY <1>2, MoreMessages DEF HandInv
<1>4. OfferedFirst'
  BY <1>2 DEF HandInv, OfferedFirst
<1>5. Remembered' /\ FileRemembers' /\ MemoryOK'
  BY DEF HandInv, memory, Remembered, FileRemembers, MemoryOK
<1> QED  BY <1>1, <1>2, <1>3, <1>4, <1>5 DEF HandInv

LEMMA SendPlainInv ==
  ASSUME HandInv, NEW d \in Devices, SendPlain(d)
  PROVE  HandInv'
<1> DEFINE ts == stamp[d]
           st == PlaintextNoted(dev[d], d, ts)
<1>1. ts \in Stamps /\ d \in Nat /\ StoreFits(dev[d], net) /\ ts \in Nat
  BY Numbers DEF HandInv
<1>2. net' = net \cup {Plain(d, ts)} /\ dev' = [dev EXCEPT ![d] = st]
      /\ UNCHANGED <<stamp, srv, lines, saves, memory, faults>>
      /\ ~ShouldEncrypt(dev[d], d)
  BY DEF SendPlain
<1> HIDE DEF ts
<1>3. net \subseteq net' /\ net' \subseteq Message
  BY <1>1, <1>2, Written DEF HandInv
<1>4. StoreFits(st, net')
  BY <1>1, <1>2, <1>3, MoreMessages, NotedFits
<1>5. ~ShouldEncrypt(st, d)
  BY <1>1, <1>2, PlaintextNotedIs DEF StoreFits
<1> HIDE DEF st
<1>6. OffersAnswerPlain' /\ HandshakeOrder'
  <2>1. \A m \in net' : m.kind # "PLAIN" => m \in net
    BY <1>2, KindsApart
  <2> QED  BY <1>3, <2>1, KindsApart DEF HandInv, OffersAnswerPlain, HandshakeOrder
<1> QED  BY <1>2, <1>3, <1>4, <1>5, <1>6, DeviceStep DEF HandInv

LEMMA SendSecureInv ==
  ASSUME HandInv, NEW d \in Devices, SendSecure(d)
  PROVE  HandInv'
<1> DEFINE ts == stamp[d]
           k  == KeyOf(dev[d], d)
<1>1. ts \in Stamps /\ StoreFits(dev[d], net)
  BY DEF HandInv
<1>2. net' = net \cup {Secure(d, ts, k)} /\ ShouldEncrypt(dev[d], d)
      /\ UNCHANGED <<dev, stamp, srv, lines, saves, memory, faults>>
  BY DEF SendSecure
<1>3. Plain(d, k) \in net
  <2>1. PICK s \in Sessions : /\ s \in Mine(dev[d], d) /\ dev[d][s].used /\ dev[d][s].aid = d
                             /\ dev[d][s].key # None
    BY <1>2 DEF ShouldEncrypt, Mine
  <2>2. k = dev[d][s].key
    BY <1>1, <2>1, SessionAt DEF StoreFits, StoreOK
  <2> QED  BY <1>1, <2>1, <2>2 DEF StoreFits, Fit
<1>4. k \in Stamps
  <2>1. Plain(d, k) \in Message
    BY <1>3 DEF HandInv
  <2>2. Plain(d, k).kind = "PLAIN" /\ Plain(d, k).ts = k
    BY DEF Plain
  <2> QED  BY <2>1, <2>2, MessageForm
<1>5. \E x \in Stamps : DictReady(d, x) \in net
  BY <1>2 DEF HandInv, OfferedFirst
<1> HIDE DEF ts, k
<1>6. net \subseteq net' /\ net' \subseteq Message
  BY <1>1, <1>2, <1>4, Written DEF HandInv
<1>7. OffersAnswerPlain' /\ HandshakeOrder'
  <2>1. \A m \in net' : m \in net \/ m = Secure(d, ts, k)
    BY <1>2
  <2>2. OffersAnswerPlain'
    BY <1>6, <2>1, KindsApart DEF HandInv, OffersAnswerPlain
  <2>3. ASSUME NEW e \in Devices, NEW t \in Stamps, NEW j \in Stamps, Secure(e, t, j) \in net'
        PROVE  Plain(e, j) \in net' /\ \E x \in Stamps : DictReady(e, x) \in net'
    <3>1. CASE Secure(e, t, j) \in net
      BY <1>6, <3>1 DEF HandInv, HandshakeOrder
    <3>2. CASE Secure(e, t, j) = Secure(d, ts, k)
      <4>1. e = d /\ j = k
        BY <3>2 DEF Secure
      <4> QED  BY <1>3, <1>5, <1>6, <4>1
    <3> QED  BY <2>1, <2>3, <3>1, <3>2
  <2>4. ASSUME NEW e \in Devices, ChannelAck(e) \in net'
        PROVE  \E t, j \in Stamps : Secure(e, t, j) \in net'
    BY <1>6, <2>1, <2>4, KindsApart DEF HandInv, HandshakeOrder
  <2> QED  BY <2>2, <2>3, <2>4 DEF HandshakeOrder
<1>8. dev' = [dev EXCEPT ![d] = dev[d]] /\ StoreFits(dev[d], net')
  BY <1>1, <1>2, <1>6, MoreMessages DEF HandInv
<1> QED  BY <1>2, <1>5, <1>6, <1>7, <1>8, DeviceStep DEF HandInv

LEMMA SameMessages ==
  ASSUME HandInv, net' = net
  PROVE  OffersAnswerPlain' /\ HandshakeOrder' /\ net' \subseteq Message
BY DEF HandInv, OffersAnswerPlain, HandshakeOrder

LEMMA DeviceHearsInv ==
  ASSUME HandInv, NEW d \in Devices, NEW m \in net, DeviceDictReady(d, m) \/ DeviceChannelAck(d, m)
  PROVE  HandInv'
<1>1. StoreFits(dev[d], net) /\ d \in Nat /\ m \in Message
  BY Numbers DEF HandInv
<1>2. CASE DeviceDictReady(d, m)
  <2>1. m.kind = "DICT_READY" /\ m.aid = d /\ dev' = [dev EXCEPT ![d] = DictConfirmed(@, d, m.ts)]
        /\ UNCHANGED <<stamp, srv, lines, saves, net, memory, faults>>
    BY <1>2 DEF DeviceDictReady
  <2>2. m.ts \in Stamps /\ DictReady(d, m.ts) \in net
    BY <1>1, <2>1, MessageForm
  <2>3. Plain(d, m.ts) \in net
    BY <2>2 DEF HandInv, OffersAnswerPlain
  <2>4. StoreFits(DictConfirmed(dev[d], d, m.ts), net')
    BY <1>1, <2>1, <2>2, <2>3, DictFits
  <2> DEFINE st == DictConfirmed(dev[d], d, m.ts)
  <2>5. /\ UNCHANGED <<srv, lines, saves, memory>> /\ faults' \in 0 .. MaxFaults
        /\ stamp' \in [Devices -> Stamps] /\ net \subseteq net' /\ net' \subseteq Message
        /\ dev' = [dev EXCEPT ![d] = st]
        /\ \E x \in Stamps : DictReady(d, x) \in net'
    BY <2>1, <2>2 DEF HandInv
  <2> HIDE DEF st
  <2> QED  BY <2>1, <2>4, <2>5, SameMessages, DeviceStep DEF st
<1>3. CASE DeviceChannelAck(d, m)
  <2>1. dev' = [dev EXCEPT ![d] = ChannelMarked(@, d)]
        /\ UNCHANGED <<stamp, srv, lines, saves, net, memory, faults>>
    BY <1>3 DEF DeviceChannelAck
  <2>2. StoreFits(ChannelMarked(dev[d], d), net')
    BY <1>1, <2>1, MarkedFits
  <2>3. ShouldEncrypt(ChannelMarked(dev[d], d), d) => ShouldEncrypt(dev[d], d)
    BY <1>1, ChannelMarkedIs DEF StoreFits
  <2> QED  BY <2>1, <2>2, <2>3, SameMessages, DeviceStep DEF HandInv, OfferedFirst
<1> QED  BY <1>2, <1>3

LEMMA RebootInv ==
  ASSUME HandInv, NEW d \in Devices, Reboot(d)
  PROVE  HandInv'
<1>1. dev' = [dev EXCEPT ![d] = EmptyStore]
      /\ UNCHANGED <<stamp, srv, lines, saves, net, memory>>
      /\ faults' \in 0 .. MaxFaults
  BY HandshakeAssumption DEF Reboot, Fault, HandInv
<1> QED  BY <1>1, EmptyFits, SameMessages, DeviceStep DEF HandInv

LEMMA AdvanceInv ==
  ASSUME HandInv, NEW d \in Devices, Advance(d)
  PROVE  HandInv'
<1>1. dev' = [dev EXCEPT ![d] = dev[d]] /\ UNCHANGED <<srv, lines, saves, net, memory, faults>>
  BY DEF Advance, HandInv
<1>2. stamp' \in [Devices -> Stamps]
  <2>1. stamp[d] \in Stamps /\ stamp[d] < MaxStamp /\ stamp' = [stamp EXCEPT ![d] = @ + 1]
    BY DEF Advance, HandInv
  <2>2. stamp[d] + 1 \in Stamps
    BY <2>1, HandshakeAssumption DEF Stamps
  <2> QED  BY <2>1, <2>2 DEF HandInv
<1> QED  BY <1>1, <1>2, SameMessages, DeviceStep DEF HandInv, OfferedFirst
-----------------------------------------------------------------------------
\* A step of the server on a packet, of which its store and answer are left to show.
LEMMA ServerStep ==
  ASSUME HandInv, UNCHANGED <<dev, stamp, lines, saves, saved, faults>>,
         net \subseteq net', net' \subseteq Message, StoreFits(srv', net'),
         MemoryOK', Remembered', OffersAnswerPlain', HandshakeOrder'
  PROVE  HandInv'
<1>1. FileFits(lines, net') /\ \A d \in Devices : StoreFits(dev[d], net')
  BY MoreMessages DEF HandInv
<1>2. OfferedFirst' /\ FileRemembers'
  BY DEF HandInv, OfferedFirst, FileRemembers
<1> QED  BY <1>1, <1>2 DEF HandInv

\* What the server accepts, and leaves behind.
LEMMA AcceptForm ==
  ASSUME NEW m, AcceptPlain(m) \/ AcceptSecure(m)
  PROVE  LET checked == TimestampChecked(srv, m.aid, m.ts)
         IN  /\ TimestampResult(srv, m.aid, m.ts) = "ACCEPT"
             /\ UNCHANGED <<dev, stamp, lines, saves, saved, faults>>
             /\ \/ srv' = checked /\ net' = net
                \/ /\ m.kind = "SECURE"
                   /\ srv' = ChannelMarked(checked, m.aid) /\ net' = net \cup {ChannelAck(m.aid)}
                \/ /\ m.kind = "PLAIN" /\ ~ShouldEncrypt(checked, m.aid)
                   /\ srv' = DictConfirmed(checked, m.aid, m.ts)
                   /\ net' = net \cup {DictReady(m.aid, m.ts)}
BY DEF AcceptPlain, AcceptSecure, ServerUnchanged

LEMMA PacketsTyped ==
  ASSUME HandInv, NEW m \in net, m.kind \in {"PLAIN", "SECURE"}
  PROVE  /\ m.aid \in Devices /\ m.aid \in Nat /\ m.ts \in Stamps /\ m.ts \in Nat
         /\ StoreFits(srv, net) /\ StoreOK(srv)
BY MessageForm, Numbers DEF HandInv, StoreFits

\* A packet the server has the memory of is covered, so it is not accepted again.
LEMMA NewAccepted ==
  ASSUME HandInv, NEW m \in net, AcceptPlain(m) \/ AcceptSecure(m)
  PROVE  Dated(m) \cap (accepted \ exposed) = {}
<1> SUFFICES ASSUME m.ts > 0, Packet(m) \in accepted \ exposed PROVE FALSE
  BY DEF Dated, Packet
<1>1. m.kind \in {"PLAIN", "SECURE"}
  BY DEF AcceptPlain, AcceptSecure
<1>2. m.ts \in Nat /\ srv \in Store /\ OnePerAid(srv)
  BY <1>1, PacketsTyped DEF StoreFits, StoreOK
<1>3. ~Covered(srv, m.aid, m.ts)
  BY <1>2, AcceptForm, AcceptedIsNew
<1> QED  BY <1>3 DEF HandInv, Remembered, Packet

LEMMA CoveredBefore ==
  ASSUME NEW st \in Store, NEW a, NEW t \in Nat, NEW ts \in Nat, ts <= t, Covered(st, a, t)
  PROVE  Covered(st, a, ts)
<1>1. PICK s \in Mine(st, a) : st[s].last >= t /\ st[s].last \in Nat
  BY DEF Covered, Mine, Store, Session
<1> QED  BY <1>1 DEF Covered

LEMMA AcceptInv ==
  ASSUME HandInv, NEW m \in net, m.kind \in {"PLAIN", "SECURE"}, ServerAccepts(m)
  PROVE  HandInv'
<1> DEFINE checked == TimestampChecked(srv, m.aid, m.ts)
<1>1. /\ TimestampResult(srv, m.aid, m.ts) = "ACCEPT"
      /\ UNCHANGED <<dev, stamp, lines, saves, saved, faults>>
      /\ \/ srv' = checked /\ net' = net
         \/ /\ m.kind = "SECURE"
            /\ srv' = ChannelMarked(checked, m.aid) /\ net' = net \cup {ChannelAck(m.aid)}
         \/ /\ m.kind = "PLAIN"
            /\ srv' = DictConfirmed(checked, m.aid, m.ts)
            /\ net' = net \cup {DictReady(m.aid, m.ts)}
  BY AcceptForm DEF ServerAccepts
<1>t. /\ m.aid \in Devices /\ m.aid \in Nat /\ m.ts \in Stamps /\ m.ts \in Nat
      /\ StoreFits(srv, net) /\ StoreOK(srv)
  BY PacketsTyped
<1>2. StoreFits(checked, net) /\ StoreOK(checked) /\ Covered(checked, m.aid, m.ts)
      /\ \A a : \A ts \in Nat : Covered(srv, a, ts) => Covered(checked, a, ts)
  BY <1>1, <1>t, CheckedFits, CheckedIsCovered, CallsKeepCovered DEF StoreFits
<1> HIDE DEF checked
<1>3. net \subseteq net' /\ net' \subseteq Message
  BY <1>1, <1>t, Written DEF HandInv
<1>4. m.kind = "PLAIN" => m = Plain(m.aid, m.ts)
  BY MessageForm DEF HandInv
<1>5. m.kind = "SECURE" => m.key \in Stamps /\ m = Secure(m.aid, m.ts, m.key)
  BY MessageForm DEF HandInv
<1>6. StoreFits(srv', net')
  <2>1. StoreFits(srv', net)
    BY <1>1, <1>t, <1>2, <1>4, MarkedFits, DictFits
  <2> QED  BY <1>3, <2>1, MoreMessages
<1>7. \A a : \A ts \in Nat : Covered(checked, a, ts) => Covered(srv', a, ts)
  BY <1>1, <1>t, <1>2, CallsKeepCovered
<1>8. MemoryOK' /\ Remembered'
  <2>1. /\ Packet(m) \in [aid : Devices, ts : Stamps] /\ Packet(m).aid = m.aid
        /\ Packet(m).ts = m.ts
    BY <1>t DEF Packet
  <2>2. \A p \in accepted : p.ts \in Nat
    BY Numbers DEF HandInv, MemoryOK
  <2>3. /\ accepted' = accepted \cup Dated(m) /\ replayed' = replayed
        /\ exposed' = {p \in exposed : p.aid = m.aid => p.ts > m.ts}
    BY NewAccepted DEF ServerAccepts
  <2>4. \A p \in Dated(m) : p = Packet(m) /\ p.ts > 0
    BY DEF Dated
  <2>5. MemoryOK'
    BY <1>1, <2>1, <2>3, <2>4 DEF HandInv, MemoryOK
  <2>6. ASSUME NEW p \in accepted' \ exposed' PROVE Covered(srv', p.aid, p.ts)
    <3>1. CASE p \in accepted \ exposed
      BY <1>2, <1>7, <2>2, <3>1 DEF HandInv, Remembered
    <3>2. CASE p = Packet(m)
      BY <1>t, <1>2, <1>7, <2>1, <3>2
    <3>3. CASE p \in exposed /\ p.aid = m.aid /\ ~(p.ts > m.ts)
      <4>1. p.ts \in Nat /\ p.ts <= m.ts
        BY <1>t, <2>2, <3>3 DEF HandInv, MemoryOK
      <4>2. Covered(checked, p.aid, p.ts)
        BY <1>t, <1>2, <3>3, <4>1, CoveredBefore DEF StoreOK
      <4> QED  BY <1>7, <4>1, <4>2
    <3> QED  BY <2>3, <2>4, <3>1, <3>2, <3>3
  <2> QED  BY <2>5, <2>6 DEF Remembered
<1>9. OffersAnswerPlain'
  <2> SUFFICES ASSUME NEW d \in Devices, NEW ts \in Stamps, DictReady(d, ts) \in net'
               PROVE  Plain(d, ts) \in net'
    BY DEF OffersAnswerPlain
  <2>1. CASE DictReady(d, ts) \in net
    BY <1>3, <2>1 DEF HandInv, OffersAnswerPlain
  <2>2. CASE DictReady(d, ts) \notin net
    <3>1. m.kind = "PLAIN" /\ DictReady(d, ts) = DictReady(m.aid, m.ts)
      BY <1>1, <2>2, KindsApart
    <3>2. d = m.aid /\ ts = m.ts
      BY <3>1 DEF DictReady
    <3> QED  BY <1>3, <1>4, <3>1, <3>2
  <2> QED  BY <2>1, <2>2
<1>10. HandshakeOrder'
  <2>1. ASSUME NEW d \in Devices, ChannelAck(d) \in net'
        PROVE  \E ts, k \in Stamps : Secure(d, ts, k) \in net'
    <3>1. CASE ChannelAck(d) \in net
      BY <1>3, <3>1 DEF HandInv, HandshakeOrder
    <3>2. CASE ChannelAck(d) \notin net
      <4>1. m.kind = "SECURE" /\ ChannelAck(d) = ChannelAck(m.aid)
        BY <1>1, <2>1, <3>2, KindsApart
      <4>2. d = m.aid
        BY <4>1 DEF ChannelAck
      <4> QED  BY <1>3, <1>5, <1>t, <4>1, <4>2
    <3> QED  BY <3>1, <3>2
  <2>2. ASSUME NEW d \in Devices, NEW ts \in Stamps, NEW k \in Stamps, Secure(d, ts, k) \in net'
        PROVE  Secure(d, ts, k) \in net
    BY <1>1, <2>2, KindsApart
  <2> QED  BY <1>3, <2>1, <2>2 DEF HandInv, HandshakeOrder
<1> QED  BY <1>1, <1>3, <1>6, <1>8, <1>9, <1>10, ServerStep

LEMMA RejectInv ==
  ASSUME HandInv, NEW m \in net, m.kind \in {"PLAIN", "SECURE"},
         ServerRejects(m)
  PROVE  HandInv'
<1>1. srv' = TimestampChecked(srv, m.aid, m.ts)
      /\ UNCHANGED <<dev, stamp, lines, saves, saved, faults, net, accepted, exposed, replayed>>
  BY DEF ServerRejects, RejectTimestamp, RejectNoSession, ServerUnchanged
<1>2. StoreFits(srv', net')
  BY <1>1, PacketsTyped, CheckedFits
<1>3. Remembered' /\ MemoryOK'
  <2>1. \A p \in accepted : p.ts \in Nat
    BY Numbers DEF HandInv, MemoryOK
  <2>2. Remembered'
    BY <1>1, <2>1, PacketsTyped, CallsKeepCovered DEF HandInv, Remembered
  <2> QED  BY <1>1, <2>2 DEF HandInv, MemoryOK
<1> QED  BY <1>1, <1>2, <1>3, SameMessages, ServerStep DEF HandInv

\* A store of the server that comes of a clean-up or a restart.
LEMMA FaultInv ==
  ASSUME HandInv, UNCHANGED <<dev, stamp, lines, saves, net, accepted, saved, replayed>>,
         StoreFits(srv', net), exposed' \subseteq accepted, Remembered', Fault
  PROVE  HandInv'
<1>1. faults' \in 0 .. MaxFaults
  BY HandshakeAssumption DEF HandInv, Fault
<1>2. MemoryOK' /\ FileRemembers'
  BY DEF HandInv, MemoryOK, FileRemembers
<1>3. OfferedFirst'
  BY DEF HandInv, OfferedFirst
<1> QED  BY <1>1, <1>2, <1>3, SameMessages DEF HandInv

LEMMA CleanUpInv ==
  ASSUME HandInv, NEW idle, CleanUp(idle)
  PROVE  HandInv'
<1>1. /\ srv' = CleanedUp(srv, idle) /\ Fault
      /\ exposed' = exposed \cup {p \in accepted : \E s \in idle : srv[s].aid = p.aid}
      /\ UNCHANGED <<dev, stamp, lines, saves, net, accepted, saved, replayed>>
  BY DEF CleanUp
<1>2. StoreFits(srv', net)
  <2>1. StoreOK(srv) /\ OnePerAid(srv)
    BY DEF HandInv, StoreFits
  <2>2. Unused \in Fit(net)
    BY UnusedIs DEF Fit
  <2> QED  BY <1>1, <2>1, <2>2, CleanedIs DEF HandInv, StoreFits
<1>3. exposed' \subseteq accepted
  BY <1>1 DEF HandInv, MemoryOK
<1>4. ASSUME NEW p \in accepted' \ exposed' PROVE Covered(srv', p.aid, p.ts)
  <2>1. p \in accepted \ exposed /\ ~ \E s \in idle : srv[s].aid = p.aid
    BY <1>1, <1>4
  <2>2. PICK s \in Sessions : srv[s].used /\ srv[s].aid = p.aid /\ srv[s].last >= p.ts
    BY <2>1 DEF HandInv, Remembered, Covered, Mine
  <2>3. srv'[s] = srv[s]
    BY <1>1, <2>1, <2>2 DEF CleanedUp
  <2> QED  BY <2>2, <2>3 DEF Covered, Mine
<1> QED  BY <1>1, <1>2, <1>3, <1>4, FaultInv DEF Remembered

LEMMA RestartInv ==
  ASSUME HandInv, Restart
  PROVE  HandInv'
<1>1. srv' = Loaded(lines) /\ exposed' = accepted \ saved /\ Fault
      /\ UNCHANGED <<dev, stamp, lines, saves, net, accepted, saved, replayed>>
  BY DEF Restart
<1>2. StoreFits(srv', net)
  <2>1. LinesOK(lines) /\ \A i \in 1 .. Len(lines) : lines[i] \in Fit(net)
    BY DEF HandInv, FileFits
  <2>2. Unused \in Fit(net)
    BY UnusedIs DEF Fit
  <2> QED  BY <1>1, <2>1, <2>2, LoadedIs DEF StoreFits
<1>3. ASSUME NEW p \in accepted' \ exposed' PROVE Covered(srv', p.aid, p.ts)
  <2>1. p \in saved
    BY <1>1, <1>3
  <2>2. PICK i \in 1 .. Len(lines) :
          lines[i].used /\ lines[i].aid = p.aid /\ lines[i].last >= p.ts
    BY <2>1 DEF HandInv, FileRemembers
  <2>3. i \in Sessions /\ srv'[i] = lines[i]
    BY <1>1, LoadedLine DEF HandInv, FileFits
  <2> QED  BY <2>2, <2>3 DEF Covered, Mine
<1> QED  BY <1>1, <1>2, <1>3, FaultInv DEF Remembered

\* What the file remembers is what the server does, as far as its lines go.
LEMMA SavedRemembers ==
  ASSUME HandInv, Save
  PROVE  FileRemembers'
<1>1. lines' \in SavedLines(srv) /\ srv \in Store /\ OnePerAid(srv)
  BY DEF Save, HandInv, StoreFits, StoreOK
<1> SUFFICES ASSUME NEW p \in saved'
             PROVE  \E i \in 1 .. Len(lines') :
                      lines'[i].used /\ lines'[i].aid = p.aid /\ lines'[i].last >= p.ts
  BY DEF FileRemembers
<1>2. p \in accepted \ exposed /\ p.aid \in WrittenAids(lines')
  BY DEF Save
<1>3. lines' \in Seq(Session)
  BY <1>1, SavedIs
<1>4. PICK i \in 1 .. Len(lines') : lines'[i].key # None /\ lines'[i].aid = p.aid
  BY <1>2, <1>3 DEF WrittenAids
<1>5. PICK s \in Sessions : srv[s].used /\ srv[s].aid = p.aid /\ srv[s].last = lines'[i].last
  BY <1>1, <1>4, SavedLast
<1>6. PICK t \in Sessions : srv[t].used /\ srv[t].aid = p.aid /\ srv[t].last >= p.ts
  BY <1>2 DEF HandInv, Remembered, Covered, Mine
<1>7. s = t
  BY <1>1, <1>5, <1>6 DEF OnePerAid
<1> QED  BY <1>1, <1>4, <1>5, <1>6, <1>7, SavedLast

LEMMA SaveInv ==
  ASSUME HandInv, Save
  PROVE  HandInv'
<1>1. lines' \in SavedLines(srv) /\ saves' = saves + 1 /\ saves < MaxSaves
      /\ UNCHANGED <<dev, stamp, srv, net, accepted, exposed, replayed, faults>>
      /\ saved' \subseteq accepted
  BY DEF Save
<1>2. FileFits(lines', net)
  <2>1. \A x \in Fit(net) \cap Session : CutShort(x) \subseteq Fit(net)
    BY CutShortIs DEF Fit
  <2> QED  BY <1>1, <2>1, SavedOK DEF HandInv, StoreFits, FileFits
<1>3. saves' \in 0 .. MaxSaves
  BY <1>1, HandshakeAssumption DEF HandInv
<1>4. OfferedFirst' /\ Remembered' /\ MemoryOK'
  BY <1>1 DEF HandInv, OfferedFirst, Remembered, MemoryOK
<1> QED  BY <1>1, <1>2, <1>3, <1>4, SavedRemembers, SameMessages DEF HandInv

LEMMA StepHandInv == HandInv /\ [Next]_vars => HandInv'
<1> SUFFICES ASSUME HandInv, [Next]_vars PROVE HandInv'
  OBVIOUS
<1>1. CASE UNCHANGED vars
  BY <1>1, SameMessages
     DEF vars, systemVars, memory, HandInv, OfferedFirst, Remembered, FileRemembers, MemoryOK
<1>2. ASSUME NEW m \in net, ServerReceive(m) PROVE HandInv'
  BY <1>2, AcceptInv, RejectInv
     DEF ServerReceive, ServerAccepts, ServerRejects, AcceptPlain, AcceptSecure,
         RejectTimestamp, RejectNoSession
<1> QED
  BY <1>1, <1>2, AdvanceInv, SendPlainInv, SendSecureInv, RebootInv, DeviceHearsInv,
     CleanUpInv, SaveInv, RestartInv
     DEF Next

LEMMA HandInvHolds == Spec => []HandInv
BY InitHandInv, StepHandInv, PTL DEF Spec
-----------------------------------------------------------------------------
LEMMA HandTyped == HandInv => TypeOK
BY DEF HandInv, MemoryOK, StoreFits, StoreOK, FileFits, LinesOK, TypeOK

\* The key of an aid is made of a plaintext that was sent.
LEMMA KeyWasSent ==
  ASSUME HandInv, NEW st, StoreFits(st, net), NEW d \in Devices, KeyOf(st, d) # None
  PROVE  KeyOf(st, d) \in PlainStamps(d)
<1>1. Mine(st, d) # {}
  BY DEF KeyOf
<1>2. PICK s \in Sessions : st[s].used /\ st[s].aid = d /\ KeyOf(st, d) = st[s].key
  <2>1. First(Mine(st, d)) \in Mine(st, d)
    BY <1>1, FirstIsIn, Mine(st, d) \in SUBSET Sessions DEF Mine
  <2> QED  BY <1>1, <2>1 DEF KeyOf, Mine
<1>3. Plain(d, st[s].key) \in net
  BY <1>2 DEF StoreFits, Fit
<1>4. Plain(d, st[s].key) \in Message /\ Plain(d, st[s].key).kind = "PLAIN"
      /\ Plain(d, st[s].key).ts = st[s].key
  BY <1>3 DEF HandInv, Plain
<1>5. st[s].key \in Stamps
  BY <1>4, MessageForm
<1> QED  BY <1>2, <1>3, <1>5 DEF PlainStamps

LEMMA KeysWereSent == HandInv => KeysAgree
BY KeyWasSent DEF HandInv, KeysAgree

\* Checking a timestamp, or marking the channel, leaves every key.
LEMMA KeyLeft ==
  ASSUME NEW st, StoreOK(st), OnePerAid(st), NEW d \in Nat, NEW ts \in Nat,
         NEW a, KeyOf(st, a) # None
  PROVE  /\ KeyOf(TimestampChecked(st, d, ts), a) = KeyOf(st, a)
         /\ KeyOf(ChannelMarked(st, d), a) = KeyOf(st, a)
         /\ a # d => KeyOf(DictConfirmed(st, d, ts), a) = KeyOf(st, a)
<1>0. st \in Store
  BY DEF StoreOK
<1>1. PICK x \in Session :
        /\ TimestampChecked(st, d, ts) = Kept(st, d, x)
        /\ x.used /\ x.aid = d /\ x.key = SessionOf(st, d).key
  BY TimestampCheckedForm
<1>2. PICK y \in Session :
        /\ ChannelMarked(st, d) = Kept(st, d, y)
        /\ y.used /\ y.aid = d /\ y.key = SessionOf(st, d).key
  BY ChannelMarkedForm
<1>3. PICK z \in Session : DictConfirmed(st, d, ts) = Kept(st, d, z) /\ z.used /\ z.aid = d
  BY DictConfirmedForm
<1>4. KeyOf(TimestampChecked(st, d, ts), a) = KeyOf(st, a)
  BY <1>0, <1>1, KeptKey
<1>5. KeyOf(ChannelMarked(st, d), a) = KeyOf(st, a)
  BY <1>0, <1>2, KeptKey
<1>6. a # d => KeyOf(DictConfirmed(st, d, ts), a) = KeyOf(st, a)
  BY <1>0, <1>3, KeptKey
<1> QED  BY <1>4, <1>5, <1>6

LEMMA PacketsLeaveKeys ==
  ASSUME HandInv, NEW m \in net, ServerReceive(m), NEW d \in Devices, KeyOf(srv, d) # None
  PROVE  KeyOf(srv', d) = KeyOf(srv, d)
<1> DEFINE checked == TimestampChecked(srv, m.aid, m.ts)
<1>1. m.kind \in {"PLAIN", "SECURE"}
  BY DEF ServerReceive, ServerAccepts, ServerRejects, AcceptPlain, AcceptSecure,
         RejectTimestamp, RejectNoSession
<1>2. /\ m.aid \in Devices /\ m.aid \in Nat /\ m.ts \in Stamps /\ m.ts \in Nat
      /\ StoreFits(srv, net) /\ StoreOK(srv) /\ OnePerAid(srv)
  BY <1>1, PacketsTyped DEF StoreFits
<1>3. StoreOK(checked) /\ OnePerAid(checked) /\ KeyOf(checked, d) = KeyOf(srv, d)
  BY <1>2, CheckedFits, KeyLeft DEF StoreFits
<1>4. \/ srv' = checked
      \/ srv' = ChannelMarked(checked, m.aid)
      \/ srv' = DictConfirmed(checked, m.aid, m.ts) /\ ~ShouldEncrypt(checked, m.aid)
  BY AcceptForm DEF ServerReceive, ServerAccepts, ServerRejects, RejectTimestamp, RejectNoSession
<1> HIDE DEF checked
<1>5. CASE srv' = DictConfirmed(checked, m.aid, m.ts) /\ ~ShouldEncrypt(checked, m.aid)
  <2>1. d # m.aid
    BY <1>3, <1>5, NoKeyLeft
  <2> QED  BY <1>2, <1>3, <1>5, <2>1, KeyLeft
<1> QED  BY <1>2, <1>3, <1>4, <1>5, KeyLeft

LEMMA KeysStay ==
  ASSUME HandInv, [Next]_vars, NEW d \in Devices,
         KeyOf(srv, d) # None, KeyOf(srv', d) # KeyOf(srv, d)
  PROVE  Restart \/ \E idle \in SUBSET Sessions : CleanUp(idle)
<1>1. srv' # srv
  OBVIOUS
<1>2. ~ \E m \in net : ServerReceive(m)
  BY PacketsLeaveKeys
<1> QED
  BY <1>1, <1>2
     DEF Next, vars, systemVars, Advance, SendPlain, SendSecure, Reboot, DeviceDictReady, DeviceChannelAck, Save
-----------------------------------------------------------------------------
\* Types of both ends' stores, of the file and of the messages.
THEOREM HandshakeTypeCorrect == Spec => []TypeOK
<1> QED  BY HandInvHolds, HandTyped, PTL

\* Keys, at either end and across restarts from a cut file, are made of what
\* the device sent in plaintext.
THEOREM KeysComeFromPlaintext == Spec => []KeysAgree
<1> QED  BY HandInvHolds, KeysWereSent, PTL

\* The messages of the handshake come in order.
THEOREM HandshakeInOrder == Spec => []HandshakeOrder
<1>1. HandInv => HandshakeOrder
  BY DEF HandInv
<1> QED  BY <1>1, HandInvHolds, PTL

\* No packet is accepted a second time while the server has the memory of it: in
\* its store, or over a restart in the lines of its file.
THEOREM NoPacketTwice == Spec => []NoReplay
<1>1. HandInv => NoReplay
  BY DEF HandInv, MemoryOK, NoReplay
<1> QED  BY <1>1, HandInvHolds, PTL

\* While the server keeps a session it keeps its key.
THEOREM ServerKeepsKeys == Spec => ServerKeyStable
<1>1. HandInv /\ [Next]_vars =>
        [\A d \in Devices :
           KeyOf(srv, d) # None /\ KeyOf(srv', d) # KeyOf(srv, d)
             => Restart \/ \E idle \in SUBSET Sessions : CleanUp(idle)]_vars
  BY KeysStay
<1> QED  BY <1>1, HandInvHolds, PTL DEF Spec, ServerKeyStable
=============================================================================
