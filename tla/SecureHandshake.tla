--------------------------- MODULE SecureHandshake --------------------------
(***************************************************************************)
(* The secure channel handshake: devices and a server, each dispatching    *)
(* what it receives through src/osfx_handshake_dispatch.c with a session   *)
(* store of its own, over a network that may lose, delay, reorder and      *)
(* duplicate (net holds every message ever sent, and any of them may       *)
(* arrive at any time, again or never).                                    *)
(*                                                                         *)
(* A device sends plaintext until osfx_secure_should_encrypt says          *)
(* otherwise and then encrypts; what the packets carry, and packets the    *)
(* dispatcher rejects before it reads the store (malformed, wrong CRC),    *)
(* which change nothing, are left out.                                     *)
(***************************************************************************)
EXTENDS SecureSession

CONSTANTS
  Devices,     \* the aids of the devices
  MaxStamp,    \* bound: the timestamps a device puts on its packets
  MaxSaves,    \* bound: saves of the server's store
  MaxFaults    \* bound: reboots, restarts and clean-ups

ASSUME HandshakeAssumption ==
  /\ Devices \subseteq Nat
  /\ MaxStamp \in Nat /\ MaxSaves \in Nat /\ MaxFaults \in Nat

VARIABLES
  dev,        \* dev[d]: the session store of device d
  stamp,      \* stamp[d]: the timestamp of its next packet
  srv,        \* the server's session store
  lines,      \* the lines of the server's session file
  saves,      \* how often it was saved
  net,        \* the messages sent so far
  accepted,   \* history: the data packets accepted so far
  exposed,    \* history: those of them that the server has lost the memory of
  saved,      \* history: those of them that its file remembers
  replayed,   \* history: those accepted again that it had not lost the memory of
  faults      \* history: reboots, restarts and clean-ups so far

systemVars == <<dev, stamp, srv, lines, saves, net>>
memory     == <<accepted, exposed, saved, replayed>>
vars       == <<systemVars, memory, faults>>

Stamps == 0 .. MaxStamp

Message ==
  [kind : {"PLAIN", "DICT_READY"}, aid : Devices, ts : Stamps]
    \cup [kind : {"SECURE"}, aid : Devices, ts : Stamps, key : Stamps]
    \cup [kind : {"CHANNEL_ACK"}, aid : Devices]

Plain(d, ts)     == [kind |-> "PLAIN", aid |-> d, ts |-> ts]
Secure(d, ts, k) == [kind |-> "SECURE", aid |-> d, ts |-> ts, key |-> k]
DictReady(d, ts) == [kind |-> "DICT_READY", aid |-> d, ts |-> ts]
ChannelAck(d)    == [kind |-> "CHANNEL_ACK", aid |-> d]

Packet(m) == [aid |-> m.aid, ts |-> m.ts]

Init ==
  /\ dev = [d \in Devices |-> EmptyStore]
  /\ stamp = [d \in Devices |-> 0]
  /\ srv = EmptyStore
  /\ lines = <<>>
  /\ saves = 0
  /\ net = {}
  /\ accepted = {} /\ exposed = {} /\ saved = {} /\ replayed = {}
  /\ faults = 0
-----------------------------------------------------------------------------
(* The devices *)

\* The device's which stamps its packets.
Advance(d) ==
  /\ stamp[d] < MaxStamp
  /\ stamp' = [stamp EXCEPT ![d] = @ + 1]
  /\ UNCHANGED <<dev, srv, lines, saves, net, memory, faults>>

SendPlain(d) ==
  /\ ~ShouldEncrypt(dev[d], d)
  /\ net' = net \cup {Plain(d, stamp[d])}
  /\ dev' = [dev EXCEPT ![d] = PlaintextNoted(@, d, stamp[d])]
  /\ UNCHANGED <<stamp, srv, lines, saves, memory, faults>>

SendSecure(d) ==
  /\ ShouldEncrypt(dev[d], d)
  /\ net' = net \cup {Secure(d, stamp[d], KeyOf(dev[d], d))}
  /\ UNCHANGED <<dev, stamp, srv, lines, saves, memory, faults>>

\* The dispatcher's SECURE_DICT_READY branch.
DeviceDictReady(d, m) ==
  /\ m.kind = "DICT_READY" /\ m.aid = d
  /\ dev' = [dev EXCEPT ![d] = DictConfirmed(@, d, m.ts)]
  /\ UNCHANGED <<stamp, srv, lines, saves, net, memory, faults>>

\* The dispatcher's SECURE_CHANNEL_ACK branch: whether or not there is a key.
DeviceChannelAck(d, m) ==
  /\ m.kind = "CHANNEL_ACK" /\ m.aid = d
  /\ dev' = [dev EXCEPT ![d] = ChannelMarked(@, d)]
  /\ UNCHANGED <<stamp, srv, lines, saves, net, memory, faults>>

Fault == faults < MaxFaults /\ faults' = faults + 1

\* A device keeps its clock over a reboot, but not its sessions.
Reboot(d) ==
  /\ dev' = [dev EXCEPT ![d] = EmptyStore]
  /\ Fault
  /\ UNCHANGED <<stamp, srv, lines, saves, net, memory>>
-----------------------------------------------------------------------------
(* The server: the dispatcher's data branch *)

ServerUnchanged == UNCHANGED <<dev, stamp, lines, saves, saved, faults>>

\* REPLAY and OUT_OF_ORDER, the latter also for a store without room: the
\* packet goes no further.
RejectTimestamp(m) ==
  /\ m.kind \in {"PLAIN", "SECURE"}
  /\ TimestampResult(srv, m.aid, m.ts) # "ACCEPT"
  /\ srv' = TimestampChecked(srv, m.aid, m.ts)
  /\ UNCHANGED net
  /\ ServerUnchanged

\* A slip: the session is looked at after the key was made.
AcceptPlainTestedLate(m) ==
  LET checked == TimestampChecked(srv, m.aid, m.ts)
      made    == DictConfirmed(checked, m.aid, m.ts)
  IN  /\ m.kind = "PLAIN"
      /\ TimestampResult(srv, m.aid, m.ts) = "ACCEPT"
      /\ srv' = made
      /\ net' = IF ShouldEncrypt(made, m.aid) THEN net ELSE net \cup {DictReady(m.aid, m.ts)}
      /\ ServerUnchanged

\* A slip: an unencrypted packet is answered by a new handshake every time.
AcceptPlainAlways(m) ==
  LET checked == TimestampChecked(srv, m.aid, m.ts)
  IN  /\ m.kind = "PLAIN"
      /\ TimestampResult(srv, m.aid, m.ts) = "ACCEPT"
      /\ srv' = DictConfirmed(PlaintextNoted(checked, m.aid, m.ts),
                              m.aid, m.ts)
      /\ net' = net \cup {DictReady(m.aid, m.ts)}
      /\ ServerUnchanged

\* The first plaintext of a device without a key makes the key and is answered.
AcceptPlain(m) ==
  LET checked == TimestampChecked(srv, m.aid, m.ts)
  IN  /\ m.kind = "PLAIN"
      /\ TimestampResult(srv, m.aid, m.ts) = "ACCEPT"
      /\ IF ShouldEncrypt(checked, m.aid)
         THEN srv' = checked /\ UNCHANGED net
         ELSE /\ srv' = DictConfirmed(checked, m.aid, m.ts)
              /\ net' = net \cup {DictReady(m.aid, m.ts)}
      /\ ServerUnchanged

\* NO_SESSION: rejected, after the timestamp has already been taken over.
RejectNoSession(m) ==
  LET checked == TimestampChecked(srv, m.aid, m.ts)
  IN  /\ m.kind = "SECURE"
      /\ TimestampResult(srv, m.aid, m.ts) = "ACCEPT"
      /\ ~ShouldEncrypt(checked, m.aid)
      /\ srv' = checked
      /\ UNCHANGED net
      /\ ServerUnchanged

AcceptSecure(m) ==
  LET checked == TimestampChecked(srv, m.aid, m.ts)
  IN  /\ m.kind = "SECURE"
      /\ TimestampResult(srv, m.aid, m.ts) = "ACCEPT"
      /\ ShouldEncrypt(checked, m.aid)
      /\ IF ChannelConfirmed(checked, m.aid)
         THEN srv' = checked /\ UNCHANGED net
         ELSE /\ srv' = ChannelMarked(checked, m.aid)
              /\ net' = net \cup {ChannelAck(m.aid)}
      /\ ServerUnchanged

\* A timestamp of 0, which the code takes for "none yet", protects nothing.
Dated(m) == {p \in {Packet(m)} : p.ts > 0}

\* A packet that is accepted is remembered, and with it all its session took before.
ServerAccepts(m) ==
  /\ AcceptPlain(m) \/ AcceptSecure(m)
  /\ accepted' = accepted \cup Dated(m)
  /\ exposed' = {p \in exposed : p.aid = m.aid => p.ts > m.ts}
  /\ replayed' = replayed \cup (Dated(m) \cap (accepted \ exposed))

ServerRejects(m) ==
  /\ RejectTimestamp(m) \/ RejectNoSession(m)
  /\ UNCHANGED <<accepted, exposed, replayed>>

ServerReceive(m) == ServerAccepts(m) \/ ServerRejects(m)
-----------------------------------------------------------------------------
(* The server: expiry, save and restart *)

CleanUp(idle) ==
  /\ idle # {}
  /\ \A s \in idle : srv[s].used
  /\ srv' = CleanedUp(srv, idle)
  /\ exposed' = exposed \cup {p \in accepted : \E s \in idle : srv[s].aid = p.aid}
  /\ Fault
  /\ UNCHANGED <<dev, stamp, lines, saves, net, accepted, saved, replayed>>

\* The aids whose line was not cut within the key or before it.
WrittenAids(file) == {file[i].aid : i \in {j \in DOMAIN file : file[j].key # None}}

Save ==
  /\ saves < MaxSaves
  /\ lines' \in SavedLines(srv)
  /\ saves' = saves + 1
  /\ saved' = {p \in accepted \ exposed : p.aid \in WrittenAids(lines')}
  /\ UNCHANGED <<dev, stamp, srv, net, accepted, exposed, replayed, faults>>

\* A slip: the last data timestamp is not read back.
RestartUndated ==
  /\ srv' = [s \in Sessions |-> [Loaded(lines)[s] EXCEPT !.last = 0]]
  /\ exposed' = accepted \ saved
  /\ Fault
  /\ UNCHANGED <<dev, stamp, lines, saves, net, accepted, saved, replayed>>

\* The server comes back with what its file has.
Restart ==
  /\ srv' = Loaded(lines)
  /\ exposed' = accepted \ saved
  /\ Fault
  /\ UNCHANGED <<dev, stamp, lines, saves, net, accepted, saved, replayed>>

Next ==
  \/ \E d \in Devices : Advance(d) \/ SendPlain(d) \/ SendSecure(d) \/ Reboot(d)
  \/ \E m \in net : \E d \in Devices : DeviceDictReady(d, m) \/ DeviceChannelAck(d, m)
  \/ \E m \in net : ServerReceive(m)
  \/ \E idle \in SUBSET Sessions : CleanUp(idle)
  \/ Save
  \/ Restart

\* The network is fair to the first two messages of the handshake: each arrives
\* at least once.  Nothing else is fair: no device has to send anything, and
\* neither end ever sends its reply a second time.
Fairness ==
  \A d \in Devices, ts \in Stamps :
    /\ WF_systemVars(Plain(d, ts) \in net /\ ServerReceive(Plain(d, ts)))
    /\ WF_systemVars(DictReady(d, ts) \in net /\ DeviceDictReady(d, DictReady(d, ts)))

Spec == Init /\ [][Next]_vars /\ Fairness
-----------------------------------------------------------------------------
(* Correctness *)

\* Type invariant: both ends' stores, the file and the messages; the state a
\* session reports agrees with its flags.
TypeOK ==
  /\ dev \in [Devices -> Store]
  /\ stamp \in [Devices -> Stamps]
  /\ srv \in Store
  /\ \A st \in {srv} \cup {dev[d] : d \in Devices}, s \in Sessions : StateAgrees(st[s])
  /\ lines \in Seq(Session) /\ Len(lines) <= SessionMax
  /\ net \subseteq Message
  /\ accepted \subseteq [aid : Devices, ts : Stamps]
  /\ exposed \subseteq accepted /\ saved \subseteq accepted /\ replayed \subseteq accepted
  /\ saves \in 0 .. MaxSaves
  /\ faults \in 0 .. MaxFaults

\* No packet is accepted a second time, whatever the network repeats or reorders
\* and across restarts, unless the server has lost the memory of it: its session
\* was dropped by a clean-up, or the server restarted from a file that was saved
\* before the packet came or was cut within the session's line; and since then it
\* accepted no later packet of the aid.  (Packets with a timestamp of 0 may be.)
NoReplay == replayed = {}

PlainStamps(d) == {ts \in Stamps : Plain(d, ts) \in net}

\* A key, at either end, is made from a plaintext the device did send; and if
\* the device sent only one, the ends have the same.  (With two they may differ:
\* the device keeps the last it sent, the server the first it accepted.)
KeysAgree ==
  \A d \in Devices :
    LET keys == {KeyOf(srv, d), KeyOf(dev[d], d)} \ {None}
    IN  keys \subseteq PlainStamps(d)
\* The server acknowledges a channel only after a packet the device encrypted,
\* and a device encrypts only with a key the server has offered or could have
\* made: the three messages of the handshake come in order.
HandshakeOrder ==
  \A d \in Devices :
    /\ ChannelAck(d) \in net =>
         \E ts, k \in Stamps : Secure(d, ts, k) \in net
    /\ \A ts, k \in Stamps : Secure(d, ts, k) \in net =>
         /\ Plain(d, k) \in net
         /\ \E x \in Stamps : DictReady(d, x) \in net

\* As long as the server keeps a session it keeps its key: a key the device has
\* been told of is not replaced behind its back.
ServerKeyStable ==
  [][\A d \in Devices :
       KeyOf(srv, d) # None /\ KeyOf(srv', d) # KeyOf(srv, d) 
         => Restart \/ \E idle \in SUBSET Sessions : CleanUp(idle)]_vars

\* Where neither end loses its sessions and the network is fair, a device that
\* has sent a plaintext comes to encrypt, unless the server's store is full of
\* other devices' sessions.
HandshakeCompletes ==
  [](faults = 0) =>
    \A d \in Devices :
      (PlainStamps(d) # {}) ~> (ShouldEncrypt(dev[d], d) \/ ~HasRoom(srv, d))
=============================================================================
