-------------------------- MODULE GlueServerProofs --------------------------
(***************************************************************************)
(* Theorems about the assignment of aids by a server, and about the glue   *)
(* context that also checks the packets sent under them: for every number  *)
(* of devices, requests, sessions and packets, every pool and every skew   *)
(* of the clocks, over a network that loses, repeats and reorders.         *)
(*                                                                         *)
(* What the devices rely on are replies under way.  So the first argument  *)
(* is about those: the lease of each is in the server's table until it     *)
(* runs out, which keeps the server from giving the aid away, and so of    *)
(* two replies with one aid one has run out.                               *)
(*                                                                         *)
(* The second joins packets to it: each was sent under an aid its device   *)
(* was assigned, and every timestamp a session remembers is that of a      *)
(* packet the server took.                                                 *)
(***************************************************************************)
EXTENDS GlueServer, IdAllocatorProofs, SessionProofs

(* The assignment of aids *)

Assigned == {r \in net : r.kind = "ID_ASSIGN"}

MessagesOK ==
  /\ seq \in [Devices -> Seqs]
  /\ net \subseteq Reply \cup [kind : {"ID_REQUEST"}, device : Devices, seq : Seqs]
  /\ \A r \in Assigned : r.aid \in Scanned

ReplyIsLeased(r) ==
  clock <= r.until => \E s \in Slots : Holds(table, s, r.aid) /\ table[s].until = r.until

RepliesApart ==
  \A q, r \in Assigned : q # r /\ q.aid = r.aid => clock > q.until \/ clock > r.until

\* What a device holds it was sent.
SentTo(d) == \E r \in Assigned : r.device = d /\ r.aid = held[d].aid /\ r.until = held[d].until

HeldWasSent ==
  /\ DOMAIN held = Devices
  /\ \A d \in Devices :
       held[d] # Nobody => held[d] \in [aid : Scanned, until : Nat] /\ SentTo(d)

AssignInv ==
  /\ TypeOK /\ UniqueAids
  /\ MessagesOK
  /\ \A r \in Assigned : ReplyIsLeased(r)
  /\ RepliesApart
  /\ HeldWasSent
-----------------------------------------------------------------------------
LEMMA AssignedType ==
  ASSUME MessagesOK, NEW r \in Assigned
  PROVE  r.device \in Devices /\ r.aid \in Aid /\ r.until \in Nat /\ r.seq \in Seqs
BY DEF MessagesOK, Assigned, Reply

LEMMA ReplyType ==
  ASSUME NEW d \in Devices, NEW n \in Seqs, NEW a \in Aid, NEW u \in Nat
  PROVE  IdAssign(d, n, a, u) \in Reply
BY DEF IdAssign, Reply

\* Every step of the protocol is one of the allocator, or leaves it alone.
LEMMA AllocatorStep == [AssignNext]_assignVars => [Next]_allocVars
BY DEF AssignNext, assignVars, Request, ServerAssign, ServerRefuse, DeviceTake, Housekeeping,
       Next

LEMMA InitAssignInv == AssignInit => AssignInv
<1> SUFFICES ASSUME AssignInit PROVE AssignInv
  OBVIOUS
<1>1. TypeOK /\ UniqueAids
  BY InitTypeOK DEF AssignInit, Init, UniqueAids, NoAidTwice, EmptyTable, Free
<1>2. Assigned = {}
  BY DEF AssignInit, Assigned
<1>3. MessagesOK
  BY <1>2, AssignAssumption DEF AssignInit, MessagesOK, Seqs
<1>4. HeldWasSent
  BY DEF AssignInit, HeldWasSent
<1> QED  BY <1>1, <1>2, <1>3, <1>4 DEF AssignInv, RepliesApart, AssignInit, Init

\* A lease that has not run out survives the server's clean-up.
LEMMA LiveIsKept ==
  ASSUME TypeOK, NEW s \in Slots, table[s].inUse, clock <= table[s].until
  PROVE  Cleaned(table)[s] = table[s]
BY DEF Cleaned, TypeOK, Entry

LEMMA CleaningKeepsReplies ==
  ASSUME TypeOK, NEW r, r.until \in Nat, ReplyIsLeased(r), clock <= r.until
  PROVE  \E s \in Slots : Holds(Cleaned(table), s, r.aid) /\ Cleaned(table)[s].until = r.until
BY LiveIsKept DEF ReplyIsLeased, Holds

\* An aid the scan takes has no reply whose lease runs on.
LEMMA GrantedIsFree ==
  ASSUME AssignInv, NEW a \in Aid, NEW s \in Slots, Grant(a, s),
         NEW r \in Assigned, r.aid = a
  PROVE  clock > r.until
<1>1. a \notin Leased(Cleaned(table))
  BY DEF Grant, NextAid
<1>2. clock \in Nat /\ r.until \in Nat
  BY AssignedType DEF AssignInv, TypeOK
<1>3. CASE clock <= r.until
  <2>1. \E q \in Slots : Holds(Cleaned(table), q, a)
    BY <1>2, <1>3, CleaningKeepsReplies DEF AssignInv
  <2> QED  BY <1>1, <2>1 DEF Holds, Leased
<1> QED  BY <1>2, <1>3

\* Steps that add no reply and take none of the live leases away.
LEMMA QuietStep ==
  ASSUME AssignInv, TypeOK', UniqueAids', MessagesOK', HeldWasSent',
         Assigned' = Assigned, clock' \in Nat, clock' >= clock,
         \A r \in Assigned : ReplyIsLeased(r)'
  PROVE  AssignInv'
<1>1. RepliesApart'
  <2> SUFFICES ASSUME NEW q \in Assigned, NEW r \in Assigned, q # r, q.aid = r.aid
               PROVE  clock' > q.until \/ clock' > r.until
    BY DEF RepliesApart
  <2>1. clock \in Nat /\ q.until \in Nat /\ r.until \in Nat
    BY AssignedType DEF AssignInv, TypeOK
  <2> QED  BY <2>1 DEF AssignInv, RepliesApart
<1> QED  BY <1>1 DEF AssignInv

LEMMA AssignAssignInv ==
  ASSUME AssignInv, TypeOK', UniqueAids',
         NEW m \in net, NEW a \in Aid, NEW s \in Slots, ServerAssign(m, a, s)
  PROVE  AssignInv'
<1> DEFINE new == IdAssign(m.device, m.seq, a, table'[s].until)
<1>1. /\ Grant(a, s) /\ net' = net \cup {new} /\ UNCHANGED <<pool, clock, seq, held>>
      /\ m.kind = "ID_REQUEST" /\ m.device \in Devices /\ m.seq \in Seqs
  BY DEF ServerAssign, Grant, AssignInv, MessagesOK, Reply
<1>2. /\ Holds(table', s, a) /\ table'[s].until \in Nat
      /\ \A q \in Slots : q # s => table'[q] = Cleaned(table)[q]
      /\ ~Cleaned(table)[s].inUse
  BY <1>1, CleanedEntries DEF Grant, AllocSlot, Holds, AssignInv, TypeOK, Entry
<1>3. new \in Reply
  BY <1>1, <1>2, ReplyType
<1>4. Assigned' = Assigned \cup {new} /\ new.aid = a /\ new.until = table'[s].until
  BY <1>1 DEF Assigned, IdAssign
<1> HIDE DEF new
<1>5. a \in Scanned /\ Scanned' = Scanned
  BY <1>1 DEF Grant, NextAid, Scanned
<1>6. MessagesOK'
  <2>1. seq' \in [Devices -> Seqs] /\ \A r \in Assigned' : r.aid \in Scanned'
    BY <1>1, <1>4, <1>5 DEF AssignInv, MessagesOK
  <2>2. net' \subseteq Reply \cup [kind : {"ID_REQUEST"}, device : Devices, seq : Seqs]
    BY <1>1, <1>3 DEF AssignInv, MessagesOK
  <2> QED  BY <2>1, <2>2 DEF MessagesOK
<1>7. ASSUME NEW r \in Assigned' PROVE ReplyIsLeased(r)'
  <2>1. CASE r = new
    BY <1>2, <1>4, <2>1 DEF ReplyIsLeased
  <2>2. CASE r \in Assigned
    <3>1. r.until \in Nat /\ TypeOK
      BY <2>2, AssignedType DEF AssignInv
    <3>2. clock <= r.until => \E q \in Slots : /\ Holds(Cleaned(table), q, r.aid)
                                               /\ Cleaned(table)[q].until = r.until
      BY <2>2, <3>1, CleaningKeepsReplies DEF AssignInv
    <3> QED  BY <1>1, <1>2, <3>2 DEF ReplyIsLeased, Holds
  <2> QED  BY <1>4, <2>1, <2>2
<1>8. RepliesApart'
  <2> SUFFICES ASSUME NEW q \in Assigned', NEW r \in Assigned', q # r, q.aid = r.aid
               PROVE  clock > q.until \/ clock > r.until
    BY <1>1 DEF RepliesApart
  <2>1. ASSUME NEW x \in Assigned, x.aid = a PROVE clock > x.until
    BY <1>1, <2>1, GrantedIsFree
  <2> QED  BY <1>4, <2>1 DEF AssignInv, RepliesApart
<1>9. HeldWasSent'
  <2>1. \A d \in Devices : SentTo(d) => SentTo(d)'
    BY <1>1, <1>4 DEF SentTo
  <2> QED  BY <1>1, <1>5, <2>1 DEF AssignInv, HeldWasSent
<1> QED  BY <1>6, <1>7, <1>8, <1>9 DEF AssignInv

LEMMA StepAssignInv == AssignInv /\ [AssignNext]_assignVars => AssignInv'
<1> SUFFICES ASSUME AssignInv, [AssignNext]_assignVars PROVE AssignInv'
  OBVIOUS
<1>0. TypeOK' /\ UniqueAids'
  BY AllocatorStep, StepTypeOK, StepUnique, TypedIsLooselyTyped DEF AssignInv
<1>t. clock \in Nat /\ clock' \in Nat /\ TypeOK /\ MessagesOK /\ HeldWasSent
  BY <1>0 DEF AssignInv, TypeOK
<1>1. ASSUME NEW d \in Devices, Request(d) PROVE AssignInv'
  <2>1. /\ UNCHANGED <<allocVars, held>> /\ Assigned' = Assigned
        /\ seq' \in [Devices -> Seqs]
        /\ IdRequest(d, seq[d] + 1) \in [kind : {"ID_REQUEST"}, device : Devices, seq : Seqs]
        /\ net' = net \cup {IdRequest(d, seq[d] + 1)}
    <3>1. seq[d] \in Seqs /\ seq[d] + 1 \in Seqs
      BY <1>1, <1>t, AssignAssumption DEF Request, MessagesOK, Seqs
    <3> QED  BY <1>1, <1>t, <3>1 DEF Request, Assigned, IdRequest, MessagesOK
  <2>2. MessagesOK' /\ HeldWasSent'
    BY <1>t, <2>1 DEF MessagesOK, HeldWasSent, SentTo, Scanned, allocVars
  <2>3. \A r \in Assigned : ReplyIsLeased(r)'
    BY <2>1 DEF AssignInv, ReplyIsLeased, Holds, allocVars
  <2> QED  BY <1>0, <1>t, <2>1, <2>2, <2>3, QuietStep DEF allocVars
<1>2. ASSUME NEW m \in net, NEW a \in Aid, NEW s \in Slots, ServerAssign(m, a, s)
      PROVE  AssignInv'
  BY <1>0, <1>2, AssignAssignInv
<1>3. ASSUME table' = Cleaned(table), UNCHANGED <<protocolVars, pool, clock>> PROVE AssignInv'
  <2>1. Assigned' = Assigned /\ MessagesOK' /\ HeldWasSent'
    BY <1>3, <1>t DEF Assigned, MessagesOK, HeldWasSent, SentTo, protocolVars, Scanned
  <2>2. \A r \in Assigned : ReplyIsLeased(r)'
    <3> SUFFICES ASSUME NEW r \in Assigned PROVE ReplyIsLeased(r)'
      OBVIOUS
    <3>1. r.until \in Nat
      BY <1>t, AssignedType
    <3> QED  BY <1>3, <1>t, <3>1, CleaningKeepsReplies DEF AssignInv, ReplyIsLeased
  <2> QED  BY <1>0, <1>3, <1>t, <2>1, <2>2, QuietStep
<1>4. ASSUME NEW m \in net, NEW d \in Devices, DeviceTake(d, m) PROVE AssignInv'
  <2>1. /\ UNCHANGED <<allocVars, seq, net>> /\ Assigned' = Assigned /\ m \in Assigned
        /\ m.device = d /\ held' = [held EXCEPT ![d] = [aid |-> m.aid, until |-> m.until]]
    BY <1>4 DEF DeviceTake, Assigned
  <2>2. m.aid \in Scanned /\ m.until \in Nat
    BY <1>t, <2>1, AssignedType DEF MessagesOK
  <2>3. MessagesOK' /\ Scanned' = Scanned
    BY <1>t, <2>1 DEF MessagesOK, Scanned, allocVars
  <2>4. HeldWasSent'
    <3> SUFFICES ASSUME NEW e \in Devices
                 PROVE  (held[e] # Nobody =>
                           held[e] \in [aid : Scanned, until : Nat] /\ SentTo(e))'
      BY <1>t, <2>1, <2>3 DEF HeldWasSent
    <3>1. CASE e = d
      <4>1. held'[e] = [aid |-> m.aid, until |-> m.until]
        BY <1>t, <2>1, <3>1 DEF HeldWasSent
      <4>2. SentTo(e)'
        BY <2>1, <3>1, <4>1 DEF SentTo
      <4> QED  BY <2>2, <2>3, <4>1, <4>2
    <3>2. CASE e # d
      <4>1. held'[e] = held[e]
        BY <1>t, <2>1, <3>2 DEF HeldWasSent
      <4> QED  BY <1>t, <2>1, <2>3, <4>1 DEF HeldWasSent, SentTo
    <3> QED  BY <3>1, <3>2
  <2>5. \A r \in Assigned : ReplyIsLeased(r)'
    BY <2>1 DEF AssignInv, ReplyIsLeased, Holds, allocVars
  <2> QED  BY <1>0, <1>t, <2>1, <2>3, <2>4, <2>5, QuietStep DEF allocVars
<1>5. ASSUME Tick, UNCHANGED protocolVars PROVE AssignInv'
  <2>1. /\ clock' = clock + 1 /\ UNCHANGED <<pool, table>> /\ Assigned' = Assigned
        /\ MessagesOK' /\ HeldWasSent'
    BY <1>5, <1>t DEF Tick, Assigned, MessagesOK, HeldWasSent, SentTo, protocolVars, Scanned
  <2>2. \A r \in Assigned : ReplyIsLeased(r)'
    <3> SUFFICES ASSUME NEW r \in Assigned PROVE ReplyIsLeased(r)'
      OBVIOUS
    <3>1. r.until \in Nat
      BY <1>t, AssignedType
    <3> QED  BY <1>t, <2>1, <3>1 DEF AssignInv, ReplyIsLeased, Holds
  <2> QED  BY <1>0, <1>t, <2>1, <2>2, QuietStep
<1>6. ASSUME UNCHANGED assignVars PROVE AssignInv'
  <2>1. Assigned' = Assigned /\ MessagesOK' /\ HeldWasSent'
    BY <1>6, <1>t DEF Assigned, MessagesOK, HeldWasSent, SentTo, assignVars, protocolVars,
       allocVars, Scanned
  <2>2. \A r \in Assigned : ReplyIsLeased(r)'
    BY <1>6 DEF AssignInv, ReplyIsLeased, Holds, assignVars, allocVars
  <2> QED  BY <1>0, <1>6, <1>t, <2>1, <2>2, QuietStep DEF assignVars, allocVars
<1> QED
  BY <1>1, <1>2, <1>3, <1>4, <1>5, <1>6
     DEF AssignNext, ServerRefuse, Refuse, Housekeeping, CleanupExpired
-----------------------------------------------------------------------------
LEMMA AssignInvHolds == AssignSpec => []AssignInv
<1> QED  BY InitAssignInv, StepAssignInv, PTL DEF AssignSpec

\* Two devices send under one aid only once the lease of one of them has run
\* out, however late, often and in whatever order requests and replies arrive.
LEMMA AssignedApart == AssignInv => NoSharedLiveAid
<1> SUFFICES ASSUME AssignInv, NEW d \in Devices, NEW e \in Devices,
                    d # e, held[d] # Nobody, held[d].aid = held[e].aid
             PROVE  clock > held[d].until \/ clock > held[e].until
  BY DEF NoSharedLiveAid
<1>1. CASE held[e] = Nobody
  BY <1>1 DEF AssignInv, TypeOK, Nobody
<1>2. CASE held[e] # Nobody
  BY <1>2 DEF AssignInv, HeldWasSent, SentTo, RepliesApart
<1> QED  BY <1>1, <1>2

\* Until its lease runs out the server knows the aid a device sends under.
LEMMA HeldInTable == AssignInv => HeldIsLeased
<1> SUFFICES ASSUME AssignInv, NEW d \in Devices, clock <= held[d].until
             PROVE  \E s \in Slots : Holds(table, s, held[d].aid) /\ table[s].until = held[d].until
  BY DEF HeldIsLeased
<1>1. held[d] # Nobody
  BY DEF AssignInv, TypeOK, Nobody
<1> QED  BY <1>1 DEF AssignInv, HeldWasSent, SentTo, ReplyIsLeased

\* No two devices share an aid whose leases are both alive.
THEOREM AidsAreNotShared == AssignSpec => []NoSharedLiveAid
<1> QED  BY AssignInvHolds, AssignedApart, PTL

\* The server's table has the lease a device relies on until it runs out.
THEOREM AidsInUseAreLeased == AssignSpec => []HeldIsLeased
<1> QED  BY AssignInvHolds, HeldInTable, PTL
-----------------------------------------------------------------------------
(* The server *)

\* The handshake's handlers call the session store of this module.
LEMMA SameCalls ==
  ASSUME NEW st, NEW aid, NEW ts
  PROVE  /\ H!TimestampChecked(st, aid, ts) = TimestampChecked(st, aid, ts)
         /\ H!TimestampResult(st, aid, ts) = TimestampResult(st, aid, ts)
         /\ H!DictConfirmed(st, aid, ts) = DictConfirmed(st, aid, ts)
         /\ H!ChannelMarked(st, aid) = ChannelMarked(st, aid)
         /\ H!ShouldEncrypt(st, aid) <=> ShouldEncrypt(st, aid)
         /\ H!ChannelConfirmed(st, aid) <=> ChannelConfirmed(st, aid)
         /\ H!CleanedUp(st, aid) = CleanedUp(st, aid)
BY DEF H!TimestampChecked, TimestampChecked, H!TimestampResult, TimestampResult,
       H!DictConfirmed, DictConfirmed, H!ChannelMarked, ChannelMarked,
       H!ShouldEncrypt, ShouldEncrypt, H!ChannelConfirmed, ChannelConfirmed,
       H!CleanedUp, CleanedUp, H!Kept, Kept, H!Place, Place, H!HasRoom, HasRoom,
       H!SessionOf, SessionOf, H!Fresh, Fresh, H!Unused, Unused, H!Mine, Mine, H!Spare, Spare,
       H!First, First, H!Sessions, Sessions, H!None, None

\* What each handler of the server does, in those terms.
LEMMA ServerSteps ==
  ASSUME NEW m
  PROVE  /\ H!RejectTimestamp(m) <=>
              /\ m.kind \in {"PLAIN", "SECURE"}
              /\ TimestampResult(srv, m.aid, m.ts) # "ACCEPT"
              /\ srv' = TimestampChecked(srv, m.aid, m.ts)
              /\ UNCHANGED <<dev, wire, faults>>
         /\ H!RejectNoSession(m) <=>
              /\ m.kind = "SECURE"
              /\ TimestampResult(srv, m.aid, m.ts) = "ACCEPT"
              /\ ~ShouldEncrypt(TimestampChecked(srv, m.aid, m.ts), m.aid)
              /\ srv' = TimestampChecked(srv, m.aid, m.ts)
              /\ UNCHANGED <<dev, wire, faults>>
BY SameCalls DEF H!RejectTimestamp, H!RejectNoSession, H!ServerUnchanged

LEMMA AcceptSteps ==
  ASSUME NEW m, H!AcceptPlain(m) \/ H!AcceptSecure(m)
  PROVE  /\ m.kind \in {"PLAIN", "SECURE"}
         /\ TimestampResult(srv, m.aid, m.ts) = "ACCEPT"
         /\ UNCHANGED <<dev, faults>>
         /\ LET checked == TimestampChecked(srv, m.aid, m.ts)
            IN  \/ srv' = checked /\ wire' = wire
                \/ srv' = ChannelMarked(checked, m.aid) /\ wire' = wire \cup {H!ChannelAck(m.aid)}
                \/ /\ srv' = DictConfirmed(checked, m.aid, m.ts)
                   /\ wire' = wire \cup {H!DictReady(m.aid, m.ts)}
BY SameCalls DEF H!AcceptPlain, H!AcceptSecure, H!ServerUnchanged
-----------------------------------------------------------------------------
PacketType ==
  [kind : {"PLAIN"}, aid : Aid, ts : Nat, device : Devices, until : Nat]
    \cup [kind : {"SECURE"}, aid : Aid, ts : Nat, key : Nat \cup {None},
          device : Devices, until : Nat]

AnswerType ==
  [kind : {"DICT_READY"}, aid : Aid, ts : Nat] \cup [kind : {"CHANNEL_ACK"}, aid : Aid]

WireOK == wire \subseteq PacketType \cup AnswerType

\* A packet was sent under an aid that was assigned to its device.
SentAsAssigned ==
  \A m \in Data :
    \E r \in Assigned : r.device = m.device /\ r.aid = m.aid /\ r.until = m.until

StoresOK ==
  /\ StoreOK(srv)
  /\ DOMAIN dev = Devices
  /\ \A d \in Devices : StoreOK(dev[d])

Heard == {<<h.aid, h.ts>> : h \in taken}

Offered(a) == \E r \in wire : r.kind = "DICT_READY" /\ r.aid = a

\* A device encrypts only under an aid for which the server offered a key.
EncryptsWhatWasOffered ==
  \A d \in Devices, a \in Aid : ShouldEncrypt(dev[d], a) => Offered(a)

\* The server keeps the key of what it offered and of what comes encrypted.
KeysOfOffers ==
  faults = 0 =>
    \A m \in wire : m.kind \in {"DICT_READY", "SECURE"} => ShouldEncrypt(srv, m.aid)

GlueInv ==
  /\ AssignInv
  /\ WireOK
  /\ SentAsAssigned
  /\ StoresOK
  /\ taken \subseteq Data
  /\ StampsIn(srv, Heard)
  /\ EncryptsWhatWasOffered
  /\ KeysOfOffers
  /\ faults \in Nat
  /\ baseless = {}
-----------------------------------------------------------------------------
LEMMA AidsAreNat == Aid \subseteq Nat
BY SizeAssumption DEF Aid

LEMMA EmptyStoreOK ==
  /\ StoreOK(EmptyStore)
  /\ \A a : ~ShouldEncrypt(EmptyStore, a)
  /\ \A T : StampsIn(EmptyStore, T)
<1>1. Unused \in Session /\ StateAgrees(Unused) /\ ~Unused.used
  BY UnusedIs
<1>2. EmptyStore \in Store /\ \A s \in Sessions : EmptyStore[s] = Unused
  BY <1>1 DEF EmptyStore, Store
<1> QED  BY <1>1, <1>2 DEF StoreOK, ShouldEncrypt, Mine, StampsIn

LEMMA DataType ==
  ASSUME WireOK, NEW m \in Data
  PROVE  /\ m.aid \in Nat /\ m.aid \in Aid /\ m.ts \in Nat /\ m.device \in Devices
         /\ m.until \in Nat
BY AidsAreNat DEF WireOK, Data, PacketType, AnswerType

LEMMA InitGlueInv == GlueInit => GlueInv
<1> SUFFICES ASSUME GlueInit PROVE GlueInv
  OBVIOUS
<1>1. AssignInv
  BY InitAssignInv DEF GlueInit
<1>2. srv = EmptyStore /\ dev = [d \in Devices |-> EmptyStore]
  BY DEF GlueInit, H!EmptyStore, EmptyStore, H!Unused, Unused, H!Sessions, Sessions, H!None, None
<1>3. StoresOK /\ EncryptsWhatWasOffered /\ StampsIn(srv, Heard)
  BY <1>2, EmptyStoreOK DEF StoresOK, EncryptsWhatWasOffered
<1>4. wire = {} /\ taken = {} /\ faults = 0 /\ baseless = {}
  BY DEF GlueInit
<1> QED  BY <1>1, <1>3, <1>4 DEF GlueInv, WireOK, SentAsAssigned, KeysOfOffers, Data

\* A step of the assignment: replies are never taken back.
LEMMA AssignmentInv == GlueInv /\ AssignNext /\ UNCHANGED <<secureVars, history>> => GlueInv'
<1> SUFFICES ASSUME GlueInv, AssignNext, UNCHANGED <<secureVars, history>> PROVE GlueInv'
  OBVIOUS
<1>1. AssignInv'
  BY StepAssignInv DEF GlueInv
<1>2. Assigned \subseteq Assigned'
  BY DEF AssignNext, Request, ServerAssign, ServerRefuse, DeviceTake, Housekeeping,
         protocolVars, Assigned
<1>3. UNCHANGED <<srv, dev, wire, faults, taken, baseless>>
  BY DEF secureVars, history
<1> QED
  BY <1>1, <1>2, <1>3
     DEF GlueInv, WireOK, SentAsAssigned, StoresOK, Data, Heard, EncryptsWhatWasOffered,
         KeysOfOffers, Offered

\* What is left to show where the assignment stands still.
LEMMA SecureStepInv ==
  ASSUME GlueInv, UNCHANGED <<assignVars, baseless>>, wire \subseteq wire', WireOK',
         \A m \in Data' \ Data :
           \E r \in Assigned : r.device = m.device /\ r.aid = m.aid /\ r.until = m.until,
         StoresOK', taken' \subseteq Data', StampsIn(srv', Heard'),
         EncryptsWhatWasOffered', KeysOfOffers', faults' \in Nat
  PROVE  GlueInv'
<1>1. AssignInv'
  BY StepAssignInv DEF GlueInv
<1>2. Assigned' = Assigned
  BY DEF assignVars, protocolVars, Assigned
<1>3. SentAsAssigned'
  BY <1>2 DEF GlueInv, SentAsAssigned
<1>4. StampsIn(srv, Heard)'
  BY DEF StampsIn
<1> QED  BY <1>1, <1>3, <1>4 DEF GlueInv

LEMMA AcceptInv ==
  ASSUME GlueInv, NEW m \in Data, ServerAccepts(m)
  PROVE  GlueInv'
<1> DEFINE checked == TimestampChecked(srv, m.aid, m.ts)
<1>t. /\ m.aid \in Nat /\ m.aid \in Aid /\ m.ts \in Nat /\ StoreOK(srv)
      /\ m.kind \in {"PLAIN", "SECURE"}
  BY DataType DEF GlueInv, StoresOK, Data
<1>1. /\ TimestampResult(srv, m.aid, m.ts) = "ACCEPT"
      /\ UNCHANGED <<dev, faults>> /\ taken' = taken \cup {m} /\ UNCHANGED <<assignVars, baseless>>
      /\ \/ srv' = checked /\ wire' = wire
         \/ srv' = ChannelMarked(checked, m.aid) /\ wire' = wire \cup {H!ChannelAck(m.aid)}
         \/ srv' = DictConfirmed(checked, m.aid, m.ts)
            /\ wire' = wire \cup {H!DictReady(m.aid, m.ts)}
  BY AcceptSteps DEF ServerAccepts
<1>2. H!ChannelAck(m.aid) \in AnswerType /\ H!DictReady(m.aid, m.ts) \in AnswerType
      /\ H!ChannelAck(m.aid).kind = "CHANNEL_ACK"
      /\ H!DictReady(m.aid, m.ts).kind = "DICT_READY" /\ H!DictReady(m.aid, m.ts).aid = m.aid
  BY <1>t DEF H!ChannelAck, H!DictReady, AnswerType
<1>3. Heard' = Heard \cup {<<m.aid, m.ts>>}
  BY <1>1 DEF Heard
<1>4. /\ StoreOK(checked) /\ StampsIn(checked, Heard')
      /\ \A a : ShouldEncrypt(checked, a) <=> ShouldEncrypt(srv, a)
  <2>1. StampsIn(srv, Heard') /\ <<m.aid, m.ts>> \in Heard'
    BY <1>3 DEF GlueInv, StampsIn
  <2> QED  BY <1>t, <2>1, TimestampCheckedIs
<1>5. HasRoom(checked, m.aid)
  BY <1>1, <1>t, TimestampCheckedIs DEF TimestampResult
<1> HIDE DEF checked
<1>6. /\ StoreOK(srv') /\ StampsIn(srv', Heard')
      /\ \A a : ShouldEncrypt(srv, a) => ShouldEncrypt(srv', a)
  BY <1>t, <1>1, <1>4, ChannelMarkedIs, DictConfirmedIs
<1>7. WireOK' /\ Data' = Data /\ wire \subseteq wire'
  BY <1>1, <1>2 DEF GlueInv, WireOK, Data
<1>8. KeysOfOffers'
  <2> SUFFICES ASSUME faults = 0, NEW r \in wire', r.kind \in {"DICT_READY", "SECURE"}
               PROVE  ShouldEncrypt(srv', r.aid)
    BY <1>1 DEF KeysOfOffers
  <2>1. CASE r \in wire
    BY <1>6, <2>1 DEF GlueInv, KeysOfOffers
  <2>2. CASE r \notin wire
    <3>1. /\ srv' = DictConfirmed(checked, m.aid, m.ts) /\ r.aid = m.aid
      BY <1>1, <1>2, <2>2
    <3> QED  BY <1>t, <1>4, <1>5, <3>1, DictConfirmedIs
  <2> QED  BY <2>1, <2>2
<1>9. StoresOK' /\ EncryptsWhatWasOffered' /\ taken' \subseteq Data' /\ faults' \in Nat
  BY <1>1, <1>6, <1>7 DEF GlueInv, StoresOK, EncryptsWhatWasOffered, Offered
<1> QED  BY <1>1, <1>6, <1>7, <1>8, <1>9, SecureStepInv

\* The packets of two devices under one aid: one of their leases has run out.
LEMMA PacketsApart ==
  ASSUME GlueInv, NEW m \in Data, NEW h \in Data, h.aid = m.aid
  PROVE  HeardApart(m, h)
<1>1. PICK q \in Assigned : q.device = m.device /\ q.aid = m.aid /\ q.until = m.until
  BY DEF GlueInv, SentAsAssigned
<1>2. PICK r \in Assigned : r.device = h.device /\ r.aid = h.aid /\ r.until = h.until
  BY DEF GlueInv, SentAsAssigned
<1> QED  BY <1>1, <1>2 DEF GlueInv, AssignInv, RepliesApart, HeardApart

\* A timestamp that is not accepted is not above one the server took before.
LEMMA StaleStamp ==
  ASSUME GlueInv, NEW m \in Data, TimestampResult(srv, m.aid, m.ts) # "ACCEPT",
         HasRoom(srv, m.aid)
  PROVE  \E h \in taken : h.aid = m.aid /\ h.ts >= m.ts
<1> DEFINE last == SessionOf(srv, m.aid).last
<1>t. m.aid \in Nat /\ m.ts \in Nat /\ srv \in Store
  BY DataType DEF GlueInv, StoresOK, StoreOK
<1>1. last # 0 /\ ~(m.ts > last)
  BY DEF TimestampResult
<1>2. First(Mine(srv, m.aid)) \in Mine(srv, m.aid)
      /\ SessionOf(srv, m.aid) = srv[First(Mine(srv, m.aid))]
  BY <1>t, <1>1, SessionOfIs, FreshIs
<1>3. <<m.aid, last>> \in Heard
  BY <1>1, <1>2 DEF GlueInv, StampsIn, Mine
<1>4. PICK h \in taken : h.aid = m.aid /\ h.ts = last
  BY <1>3 DEF Heard
<1>5. h.ts \in Nat
  BY DataType DEF GlueInv
<1> QED  BY <1>t, <1>1, <1>4, <1>5

LEMMA RejectedOnlySo ==
  ASSUME GlueInv, NEW m \in Data, ServerRejects(m)
  PROVE  Cause(m)
<1>1. CASE TimestampResult(srv, m.aid, m.ts) # "ACCEPT"
  BY <1>1, StaleStamp, PacketsApart DEF GlueInv, Cause
<1>2. CASE TimestampResult(srv, m.aid, m.ts) = "ACCEPT"
  <2>1. m.kind = "SECURE" /\ ~ShouldEncrypt(TimestampChecked(srv, m.aid, m.ts), m.aid)
    BY <1>2, ServerSteps DEF ServerRejects
  <2>2. ~ShouldEncrypt(srv, m.aid)
    BY <2>1, DataType, TimestampCheckedIs DEF GlueInv, StoresOK
  <2>3. faults > 0
    BY <2>1, <2>2 DEF GlueInv, KeysOfOffers, Data
  <2>4. KeyOf(srv, m.aid) = None
    BY <2>2, NoKeyLeft DEF GlueInv, StoresOK
  <2> QED  BY <2>1, <2>3, <2>4 DEF Cause
<1> QED  BY <1>1, <1>2

LEMMA RejectInv ==
  ASSUME GlueInv, NEW m \in Data, ServerRejects(m)
  PROVE  GlueInv'
<1> DEFINE checked == TimestampChecked(srv, m.aid, m.ts)
<1>t. m.aid \in Nat /\ m.ts \in Nat /\ StoreOK(srv)
  BY DataType DEF GlueInv, StoresOK
<1>0. baseless' = baseless
  BY RejectedOnlySo DEF ServerRejects
<1>1. /\ srv' = checked /\ UNCHANGED <<dev, wire, faults>> /\ UNCHANGED assignVars
      /\ \/ TimestampResult(srv, m.aid, m.ts) # "ACCEPT" /\ taken' = taken
         \/ taken' = taken \cup {m}
  BY ServerSteps DEF ServerRejects
<1>2. Heard \subseteq Heard' /\ (taken' = taken \cup {m} => <<m.aid, m.ts>> \in Heard')
  BY <1>1 DEF Heard
<1>3. /\ StoreOK(checked) /\ StampsIn(checked, Heard')
      /\ \A a : ShouldEncrypt(checked, a) <=> ShouldEncrypt(srv, a)
  <2>1. StampsIn(srv, Heard')
    BY <1>2 DEF GlueInv, StampsIn
  <2> QED  BY <1>t, <1>1, <1>2, <2>1, TimestampCheckedIs
<1> HIDE DEF checked
<1>4. WireOK' /\ Data' = Data
  BY <1>1 DEF GlueInv, WireOK, Data
<1>5. StoresOK' /\ EncryptsWhatWasOffered' /\ KeysOfOffers' /\ taken' \subseteq Data' /\ faults' \in Nat
  BY <1>1, <1>3, <1>4 DEF GlueInv, StoresOK, EncryptsWhatWasOffered, KeysOfOffers, Offered
<1> QED  BY <1>0, <1>1, <1>3, <1>4, <1>5, SecureStepInv

LEMMA SendInv ==
  ASSUME GlueInv, NEW d \in Devices, SendData(d)
  PROVE  GlueInv'
<1> DEFINE aid == held[d].aid
           ts  == clock + Skew[d]
           key == KeyOf(dev[d], aid)
<1>1. /\ held[d] # Nobody /\ UNCHANGED <<assignVars, srv, faults, taken, baseless>>
      /\ \/ /\ ShouldEncrypt(dev[d], aid) /\ dev' = dev
            /\ wire' = wire \cup {SecureFrom(d, ts, key)}
         \/ /\ wire' = wire \cup {PlainFrom(d, ts)}
            /\ dev' = [dev EXCEPT ![d] = PlaintextNoted(@, aid, ts)]
  BY DEF SendData, history
<1>2. /\ aid \in Aid /\ aid \in Nat /\ held[d].until \in Nat
      /\ \E r \in Assigned : r.device = d /\ r.aid = aid /\ r.until = held[d].until
  <2>1. PICK r \in Assigned : r.device = d /\ r.aid = aid /\ r.until = held[d].until
    BY <1>1 DEF GlueInv, AssignInv, HeldWasSent, SentTo
  <2> QED  BY <2>1, AssignedType, AidsAreNat DEF GlueInv, AssignInv
<1>3. ts \in Nat
  BY GlueAssumption DEF GlueInv, AssignInv, TypeOK
<1>4. key \in Nat \cup {None}
  <2>1. CASE Mine(dev[d], aid) = {}
    BY <2>1 DEF KeyOf
  <2>2. CASE Mine(dev[d], aid) # {}
    <3>1. First(Mine(dev[d], aid)) \in Sessions
      BY <2>2, FirstIsIn, Mine(dev[d], aid) \in SUBSET Sessions DEF Mine
    <3>2. dev[d] \in Store
      BY DEF GlueInv, StoresOK, StoreOK
    <3>3. dev[d][First(Mine(dev[d], aid))] \in Session
      BY <3>1, <3>2 DEF Store
    <3> QED  BY <2>2, <3>3 DEF KeyOf, Session
  <2> QED  BY <2>1, <2>2
<1> HIDE DEF aid, ts, key
<1>5. /\ SecureFrom(d, ts, key) \in PacketType /\ PlainFrom(d, ts) \in PacketType
      /\ \A m \in {SecureFrom(d, ts, key), PlainFrom(d, ts)} :
           m.device = d /\ m.aid = aid /\ m.until = held[d].until
           /\ m.kind \in {"PLAIN", "SECURE"}
      /\ PlainFrom(d, ts).kind = "PLAIN"
  BY <1>2, <1>3, <1>4 DEF SecureFrom, PlainFrom, PacketType, aid
<1>6. WireOK' /\ wire \subseteq wire' /\ Data \subseteq Data'
      /\ Data' \ Data \subseteq {SecureFrom(d, ts, key), PlainFrom(d, ts)}
  BY <1>1, <1>5 DEF GlueInv, WireOK, Data
<1>7. StoresOK' /\ EncryptsWhatWasOffered'
  <2>1. ASSUME NEW e \in Devices
        PROVE  /\ StoreOK(dev'[e])
               /\ \A a : ShouldEncrypt(dev'[e], a) <=> ShouldEncrypt(dev[e], a)
    <3>0. StoreOK(dev[e]) /\ DOMAIN dev = Devices
      BY DEF GlueInv, StoresOK
    <3>1. CASE dev'[e] = dev[e]
      BY <3>0, <3>1
    <3>2. CASE dev'[e] # dev[e]
      <4>1. dev'[e] = PlaintextNoted(dev[e], aid, ts)
        BY <1>1, <3>0, <3>2
      <4>2. /\ StoreOK(PlaintextNoted(dev[e], aid, ts))
            /\ \A a : ShouldEncrypt(PlaintextNoted(dev[e], aid, ts), a) <=> ShouldEncrypt(dev[e], a)
        BY <1>2, <1>3, <3>0, PlaintextNotedIs
      <4> QED  BY <4>1, <4>2
    <3> QED  BY <3>1, <3>2
  <2>2. StoreOK(srv') /\ DOMAIN dev' = Devices
    BY <1>1 DEF GlueInv, StoresOK
  <2> QED  BY <1>6, <2>1, <2>2 DEF GlueInv, StoresOK, EncryptsWhatWasOffered, Offered
<1>8. KeysOfOffers'
  <2> SUFFICES ASSUME faults = 0, NEW r \in wire', r.kind \in {"DICT_READY", "SECURE"}
               PROVE  ShouldEncrypt(srv, r.aid)
    BY <1>1 DEF KeysOfOffers
  <2>1. CASE r \in wire
    BY <2>1 DEF GlueInv, KeysOfOffers
  <2>2. CASE r \notin wire
    <3>1. ShouldEncrypt(dev[d], aid) /\ r.aid = aid
      BY <1>1, <1>5, <2>2
    <3>2. PICK o \in wire : o.kind = "DICT_READY" /\ o.aid = aid
      BY <1>2, <3>1 DEF GlueInv, EncryptsWhatWasOffered, Offered
    <3> QED  BY <3>1, <3>2 DEF GlueInv, KeysOfOffers
  <2> QED  BY <2>1, <2>2
<1>9. taken' \subseteq Data' /\ StampsIn(srv', Heard') /\ faults' \in Nat
  BY <1>1, <1>6 DEF GlueInv, Heard
<1>10. \A m \in Data' \ Data :
         \E r \in Assigned : r.device = m.device /\ r.aid = m.aid /\ r.until = m.until
  BY <1>2, <1>5, <1>6
<1> QED  BY <1>1, <1>6, <1>7, <1>8, <1>9, <1>10, SecureStepInv

LEMMA AnsweredInv ==
  ASSUME GlueInv, NEW d \in Devices, NEW r \in wire, DeviceAnswered(d, r)
  PROVE  GlueInv'
<1>1. /\ UNCHANGED <<assignVars, srv, wire, faults, taken, baseless>>
      /\ \/ /\ r.kind = "DICT_READY"
            /\ dev' = [dev EXCEPT ![d] = DictConfirmed(@, r.aid, r.ts)]
         \/ /\ r.kind = "CHANNEL_ACK"
            /\ dev' = [dev EXCEPT ![d] = ChannelMarked(@, r.aid)]
  BY DEF DeviceAnswered, history
<1>2. r.aid \in Nat /\ (r.kind = "DICT_READY" => r.ts \in Nat)
  BY <1>1, AidsAreNat DEF GlueInv, WireOK, PacketType, AnswerType
<1>3. ASSUME NEW e \in Devices
      PROVE  /\ StoreOK(dev'[e])
             /\ \A a \in Aid : ShouldEncrypt(dev'[e], a) => Offered(a)
  <2>0. StoreOK(dev[e]) /\ DOMAIN dev = Devices
        /\ \A a \in Aid : ShouldEncrypt(dev[e], a) => Offered(a)
    BY DEF GlueInv, StoresOK, EncryptsWhatWasOffered
  <2>1. CASE dev'[e] = dev[e]
    BY <2>0, <2>1
  <2>2. CASE r.kind = "DICT_READY" /\ dev'[e] = DictConfirmed(dev[e], r.aid, r.ts)
    BY <1>2, <2>0, <2>2, DictConfirmedIs DEF Offered
  <2>3. CASE dev'[e] = ChannelMarked(dev[e], r.aid)
    BY <1>2, <2>0, <2>3, ChannelMarkedIs
  <2> QED  BY <1>1, <2>0, <2>1, <2>2, <2>3
<1>4. StoresOK' /\ EncryptsWhatWasOffered'
  BY <1>1, <1>3 DEF GlueInv, StoresOK, EncryptsWhatWasOffered, Offered
<1>5. WireOK' /\ Data' = Data /\ taken' \subseteq Data' /\ StampsIn(srv', Heard')
      /\ KeysOfOffers' /\ faults' \in Nat
  BY <1>1 DEF GlueInv, WireOK, Data, Heard, KeysOfOffers
<1> QED  BY <1>1, <1>4, <1>5, SecureStepInv

LEMMA ExpireInv ==
  ASSUME GlueInv, NEW idle \in SUBSET Sessions, SessionsExpire(idle)
  PROVE  GlueInv'
<1>1. /\ srv' = CleanedUp(srv, idle) /\ faults' = faults + 1
      /\ UNCHANGED <<assignVars, dev, wire, taken, baseless>>
  BY SameCalls DEF SessionsExpire, H!CleanUp, H!Fault, history
<1>2. Unused \in Session /\ StateAgrees(Unused) /\ ~Unused.used
  BY UnusedIs
<1>3. /\ srv' \in Store
      /\ \A s \in Sessions : srv'[s] = srv[s] \/ srv'[s] = Unused
  BY <1>1, <1>2 DEF GlueInv, StoresOK, StoreOK, CleanedUp, Store
<1>4. StoreOK(srv') /\ StampsIn(srv', Heard')
  BY <1>1, <1>2, <1>3 DEF GlueInv, StoresOK, StoreOK, StampsIn, Heard
<1>5. faults' \in Nat /\ faults' # 0
  BY <1>1 DEF GlueInv
<1>6. StoresOK' /\ EncryptsWhatWasOffered' /\ WireOK' /\ Data' = Data /\ taken' \subseteq Data'
      /\ KeysOfOffers'
  BY <1>1, <1>4, <1>5
     DEF GlueInv, StoresOK, EncryptsWhatWasOffered, Offered, WireOK, Data, KeysOfOffers
<1> QED  BY <1>1, <1>4, <1>5, <1>6, SecureStepInv

LEMMA StepGlueInv == GlueInv /\ [GlueNext]_glueVars => GlueInv'
<1> SUFFICES ASSUME GlueInv, [GlueNext]_glueVars PROVE GlueInv'
  OBVIOUS
<1>1. CASE UNCHANGED glueVars
  <2>1. UNCHANGED <<srv, dev, wire, faults, taken, baseless>> /\ UNCHANGED assignVars
    BY <1>1 DEF glueVars, secureVars, history
  <2> QED
    BY <2>1, SecureStepInv
       DEF GlueInv, WireOK, Data, StoresOK, Heard, EncryptsWhatWasOffered, Offered, KeysOfOffers
<1> QED
  BY <1>1, AssignmentInv, AcceptInv, RejectInv, SendInv, AnsweredInv, ExpireInv
     DEF GlueNext, Assignment

LEMMA GlueInvHolds == GlueSpec => []GlueInv
BY InitGlueInv, StepGlueInv, PTL DEF GlueSpec

LEMMA GlueTyped == GlueInv => GlueTypeOK
<1> SUFFICES ASSUME GlueInv PROVE GlueTypeOK
  OBVIOUS
<1>1. AssignTypeOK
  BY DEF GlueInv, AssignInv, AssignTypeOK, MessagesOK, HeldWasSent
<1>2. taken \subseteq wire /\ baseless \subseteq wire
  BY DEF GlueInv, Data
<1> QED  BY <1>1, <1>2 DEF GlueInv, StoresOK, StoreOK, GlueTypeOK
-----------------------------------------------------------------------------
\* Types of leases, messages and both ends' session stores.
THEOREM GlueTypeCorrect == GlueSpec => []GlueTypeOK
<1> QED  BY GlueInvHolds, GlueTyped, PTL

\* Two devices whose leases are both alive send under two aids, at a server
\* that dispatches their data as well.
THEOREM AidsAreNotSharedAtServer == GlueSpec => []NoSharedLiveAid
<1>1. GlueInv => NoSharedLiveAid
  BY AssignedApart DEF GlueInv
<1> QED  BY <1>1, GlueInvHolds, PTL

\* A device's lease stays in the table of that server until it runs out.
THEOREM AidsInUseAreLeasedAtServer == GlueSpec => []HeldIsLeased
<1>1. GlueInv => HeldIsLeased
  BY HeldInTable DEF GlueInv
<1> QED  BY <1>1, GlueInvHolds, PTL

\* No packet is rejected, for its timestamp or for want of a room or a session,
\* but one that is no news of its device, or whose session was lost, or went to
\* another aid, or whose aid went to another device.
THEOREM RejectionsHaveCause == GlueSpec => []RejectedForCause
<1>1. GlueInv => RejectedForCause
  BY DEF GlueInv, RejectedForCause
<1> QED  BY <1>1, GlueInvHolds, PTL
=============================================================================
