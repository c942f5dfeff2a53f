---------------------------- MODULE IdAssignment ----------------------------
(***************************************************************************)
(* Devices that get their aid from a server: the ID_REQUEST branch of      *)
(* src/osfx_handshake_dispatch.c over the server's allocator, and a        *)
(* network that loses, delays, reorders and repeats (net keeps every       *)
(* message sent; any may arrive at any time, again or never).              *)
(*                                                                         *)
(* The server hands out leases on requests only: no branch of the          *)
(* dispatcher touches or releases one.  The reply goes to the sender of    *)
(* the request.                                                            *)
(***************************************************************************)
EXTENDS IdAllocator

CONSTANTS
  Devices,
  MaxSeq       \* bound: requests a device sends

ASSUME AssignAssumption == MaxSeq \in Nat

VARIABLES
  seq,         \* seq[d]: the sequence number of d's latest request
  held,        \* held[d]: the aid d sends under, and when its lease ends
  net          \* the messages sent so far

protocolVars == <<seq, held, net>>
assignVars == <<allocVars, protocolVars>>

Seqs == 0 .. MaxSeq

Nobody == [aid |-> -1, until |-> -1]

IdRequest(d, n)      == [kind |-> "ID_REQUEST", device |-> d, seq |-> n]
IdAssign(d, n, a, u) == [kind |-> "ID_ASSIGN", device |-> d, seq |-> n, aid |-> a, until |-> u]
Nack(d, n)           == [kind |-> "NACK", device |-> d, seq |-> n]

\* until is history: the message itself only carries the aid.
Reply == [kind : {"ID_ASSIGN"}, device : Devices, seq : Seqs, aid : Aid, until : Nat]
           \cup [kind : {"NACK"}, device : Devices, seq : Seqs]

AssignInit ==
  /\ Init
  /\ seq = [d \in Devices |-> 0]
  /\ held = [d \in Devices |-> Nobody]
  /\ net = {}
-----------------------------------------------------------------------------
\* A device asks, again if it hears nothing: each time under a new number.
Request(d) ==
  /\ seq[d] < MaxSeq
  /\ seq' = [seq EXCEPT ![d] = @ + 1]
  /\ net' = net \cup {IdRequest(d, seq[d] + 1)}
  /\ UNCHANGED <<allocVars, held>>

\* osfx_id_allocate finds an aid: every copy of a request takes another one.
ServerAssign(m, a, s) ==
  /\ m.kind = "ID_REQUEST"
  /\ Grant(a, s)
  /\ net' = net \cup {IdAssign(m.device, m.seq, a, table'[s].until)}
  /\ UNCHANGED <<seq, held>>

\* The pool is exhausted.  The reply buffer has 16 bytes, the NACK with its
\* reason would take 20: osfx_build_nack returns 0 and nothing is sent.
ServerRefuse(m) ==
  /\ m.kind = "ID_REQUEST"
  /\ Refuse
  /\ UNCHANGED protocolVars

\* A device takes the aid of the reply to its latest request.
DeviceTake(d, m) ==
  /\ m.kind = "ID_ASSIGN" /\ m.device = d /\ m.seq = seq[d]
  /\ held' = [held EXCEPT ![d] = [aid |-> m.aid, until |-> m.until]]
  /\ UNCHANGED <<allocVars, seq, net>>

\* What the server's application does with the allocator besides.
Housekeeping == (CleanupExpired \/ Tick) /\ UNCHANGED protocolVars

AssignNext ==
  \/ \E d \in Devices : Request(d)
  \/ \E m \in net, a \in Aid, s \in Slots : ServerAssign(m, a, s)
  \/ \E m \in net : ServerRefuse(m)
  \/ \E m \in net, d \in Devices : DeviceTake(d, m)
  \/ Housekeeping

AssignSpec == AssignInit /\ [][AssignNext]_assignVars
-----------------------------------------------------------------------------
(* Correctness *)

\* Type invariant: the allocator's, and that of the devices and messages; the
\* aids in use are of those the server's scan visits.
AssignTypeOK ==
  /\ TypeOK
  /\ seq \in [Devices -> Seqs]
  /\ \A d \in Devices : held[d] = Nobody \/ held[d] \in [aid : Scanned, until : Nat]
  /\ net \subseteq Reply \cup [kind : {"ID_REQUEST"}, device : Devices, seq : Seqs]

\* Two devices send under one aid only once the lease of one of them has run
\* out, however late, often and in whatever order requests and replies arrive.
NoSharedLiveAid ==
  \A d, e \in Devices :
    d # e /\ held[d] # Nobody /\ held[d].aid = held[e].aid
      => clock > held[d].until \/ clock > held[e].until

\* Until its lease runs out the server knows the aid a device sends under, and
\* with the very lease the device was given: nothing on the way shortens it.
HeldIsLeased ==
  \A d \in Devices :
    clock <= held[d].until =>
      \E s \in Slots : Holds(table, s, held[d].aid) /\ table[s].until = held[d].until

\* docs/02-architecture.md:26, "Success: Build ID_ASSIGN response; Failure: Build
\* NACK(ID_POOL_EXHAUSTED)": a request the server handles has its answer.
RequestsAnswered ==
  [][\A m \in net :
       ServerRefuse(m) \/ (\E a \in Aid, s \in Slots : ServerAssign(m, a, s))
         => \E r \in net' : r \in Reply /\ r.device = m.device /\ r.seq = m.seq]_assignVars
=============================================================================
