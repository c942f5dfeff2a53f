----------------------------- MODULE GlueServer -----------------------------
(***************************************************************************)
(* The glue context as a server (src/osfx_glue.c): osfx_glue_process_packet*)
(* hands every packet to one dispatcher over one lease table and one       *)
(* session store.  Neither knows of the other: a session is found by the   *)
(* aid in a packet, whoever holds the lease, and outlives it.              *)
(*                                                                         *)
(* Devices send under the aid they were assigned, in plaintext or          *)
(* encrypted, and never learn when their lease runs out.  The server's     *)
(* answer goes to the sender of what it answers; the network loses,        *)
(* repeats and reorders.                                                   *)
(***************************************************************************)
EXTENDS IdAssignment, SecureSession

CONSTANTS
  Skew,         \* how far each device's clock is ahead of the server's
  MaxPackets,   \* bound: data packets sent
  MaxFaults     \* bound: clean-ups of the session store

ASSUME GlueAssumption ==
  /\ Skew \in [Devices -> Nat]
  /\ MaxPackets \in Nat /\ MaxFaults \in Nat

VARIABLES
  srv,        \* the server's session store
  dev,        \* the devices'
  wire,       \* the data packets and their answers
  faults,
  taken,      \* history: the packets whose timestamp the server took over
  baseless    \* history: the packets it rejected for none of the causes there are

secureVars == <<srv, dev, wire, faults>>
history    == <<taken, baseless>>
glueVars   == <<assignVars, secureVars, history>>

H == INSTANCE SecureHandshake WITH
       Devices <- Aid, MaxStamp <- MaxTime, MaxSaves <- 0,
       net <- wire, stamp <- 0, lines <- <<>>, saves <- 0,
       accepted <- {}, exposed <- {}, saved <- {}, replayed <- {}

\* device and until are history: a packet carries the aid only.
PlainFrom(d, ts) ==
  [kind |-> "PLAIN", aid |-> held[d].aid, ts |-> ts, device |-> d, until |-> held[d].until]

SecureFrom(d, ts, k) ==
  [kind |-> "SECURE", aid |-> held[d].aid, ts |-> ts, key |-> k, device |-> d,
   until |-> held[d].until]

Data == {m \in wire : m.kind \in {"PLAIN", "SECURE"}}

GlueInit ==
  /\ AssignInit
  /\ srv = EmptyStore
  /\ dev = [d \in Devices |-> EmptyStore]
  /\ wire = {} /\ faults = 0 /\ taken = {} /\ baseless = {}
-----------------------------------------------------------------------------
\* An ID_REQUEST, its answer, and what happens to leases besides.
Assignment == AssignNext /\ UNCHANGED <<secureVars, history>>

SendData(d) ==
  /\ held[d] # Nobody
  /\ Cardinality(Data) < MaxPackets
  /\ LET aid == held[d].aid
         ts  == clock + Skew[d]
     IN  IF ShouldEncrypt(dev[d], aid)
         THEN /\ wire' = wire \cup {SecureFrom(d, ts, KeyOf(dev[d], aid))}
              /\ UNCHANGED dev
         ELSE /\ wire' = wire \cup {PlainFrom(d, ts)}
              /\ dev' = [dev EXCEPT ![d] = PlaintextNoted(@, aid, ts)]
  /\ UNCHANGED <<assignVars, srv, faults, history>>

ServerAccepts(m) ==
  /\ H!AcceptPlain(m) \/ H!AcceptSecure(m)
  /\ taken' = taken \cup {m}
  /\ UNCHANGED <<assignVars, baseless>>

\* Two devices the server has heard under one aid: the lease of one has run out.
HeardApart(m, h) ==
  m.device # h.device => clock > m.until \/ clock > h.until

\* The causes there are to reject m: a packet taken before it, a store full of
\* other aids' sessions, or a session that is gone.
Cause(m) ==
  \/ \E h \in taken : h.aid = m.aid /\ h.ts >= m.ts /\ HeardApart(m, h)
  \/ ~HasRoom(srv, m.aid)
  \/ m.kind = "SECURE" /\ KeyOf(srv, m.aid) = None /\ faults > 0

ServerRejects(m) ==
  /\ \/ H!RejectTimestamp(m) /\ UNCHANGED taken
     \/ H!RejectNoSession(m) /\ taken' = taken \cup {m}
  /\ baseless' = baseless \cup {n \in {m} : ~Cause(n)}
  /\ UNCHANGED assignVars

Answers(r, m) == r.aid = m.aid /\ (r.kind = "DICT_READY" => r.ts = m.ts)

\* The device's dispatcher, on an answer to one of its packets.
DeviceAnswered(d, r) ==
  /\ r.kind \in {"DICT_READY", "CHANNEL_ACK"}
  /\ \E m \in Data : m.device = d /\ Answers(r, m)
  /\ dev' = [dev EXCEPT ![d] = IF r.kind = "DICT_READY"
                               THEN DictConfirmed(@, r.aid, r.ts)
                               ELSE ChannelMarked(@, r.aid)]
  /\ UNCHANGED <<assignVars, srv, wire, faults, history>>

SessionsExpire(idle) == H!CleanUp(idle) /\ UNCHANGED <<assignVars, history>>

GlueNext ==
  \/ Assignment
  \/ \E d \in Devices : SendData(d)
  \/ \E m \in Data : ServerAccepts(m) \/ ServerRejects(m)
  \/ \E d \in Devices, r \in wire : DeviceAnswered(d, r)
  \/ \E idle \in SUBSET (Sessions) : SessionsExpire(idle)

GlueSpec == GlueInit /\ [][GlueNext]_glueVars
-----------------------------------------------------------------------------
(* Correctness *)

\* Type invariant: that of leases and devices, and both ends' session stores.
GlueTypeOK ==
  /\ AssignTypeOK
  /\ \A st \in {srv} \cup {dev[d] : d \in Devices} :
       /\ st \in Store
       /\ \A s \in Sessions : StateAgrees(st[s])
  /\ taken \subseteq wire /\ baseless \subseteq wire

\* The server never rejects a packet, as a replay, as out of order, for want of
\* room or of a session, unless it has taken as new one at least as late under
\* the same aid, of the same device, or else of another whose lease or whose own
\* has run out (a session outlives its lease); or all its sessions are other
\* aids'; or it dropped the session the device still encrypts for.
RejectedForCause == baseless = {}
=============================================================================
