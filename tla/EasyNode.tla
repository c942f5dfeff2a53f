------------------------------ MODULE EasyNode ------------------------------
(***************************************************************************)
(* The one-stop context of a device (src/osfx_easy.c): its own allocator,  *)
(* the file the allocator is kept in, and the aid the device sends under.  *)
(* The aid itself is in no file: only the lease table is saved.            *)
(***************************************************************************)
EXTENDS IdStore

VARIABLES
  aid,         \* ctx->aid
  aidReady,    \* ctx->aid_ready: whether the encoders may use it
  allocReady,  \* ctx->id_alloc_ready
  lastAid,     \* history: the aid the device was last given, NoAid before
  promised,    \* history: the leases it was given, since its allocator was cleared
  onFile       \* history: those of them in the last save that was finished

nodeVars == <<aid, aidReady, allocReady>>
promises == <<promised, onFile>>
easyVars == <<vars, nodeVars, lastAid, promises>>

NoAid == -1

\* osfx_easy_init clears the whole context, its allocator included.
ZeroPool   == [start |-> 0, end |-> 0, lease |-> 0]
ZeroPolicy == [min |-> 0, max |-> 0, window |-> 0, threshold |-> 0, rateFactor |-> 0,
               watermark |-> 0, pressureFactor |-> 0, touchFactor |-> 0, adaptive |-> FALSE]

EasyInit ==
  /\ pool = ZeroPool /\ policy = ZeroPolicy /\ table = EmptyTable
  /\ windowStart = 0 /\ recent = 0 /\ clock = 0
  /\ file = [Truncated EXCEPT !.exists = FALSE]
  /\ job = "idle" /\ cursor = 1
  /\ aid = 0 /\ aidReady = FALSE /\ allocReady = FALSE
  /\ lastAid = NoAid
  /\ promised = {} /\ onFile = {}

\* Power loss and boot: everything but the file and the clock is gone.
Boot ==
  /\ pool' = ZeroPool /\ policy' = ZeroPolicy /\ table' = EmptyTable
  /\ windowStart' = 0 /\ recent' = 0
  /\ job' = "idle" /\ cursor' = 1
  /\ aid' = 0 /\ aidReady' = FALSE /\ allocReady' = FALSE
  /\ promised' = {}
  /\ UNCHANGED <<clock, file, lastAid, onFile>>

SetAid(a) ==
  /\ job = "idle"
  /\ aid' = a
  /\ aidReady' = (a > 0)
  /\ lastAid' = a
  /\ UNCHANGED <<vars, allocReady, promises>>

\* A slip: the range is not looked at.
InitIdsUnchecked(p) ==
  /\ job = "idle"
  /\ Reinitialise(p)
  /\ allocReady' = TRUE
  /\ promised' = {}
  /\ UNCHANGED <<storeVars, aid, aidReady, lastAid, onFile>>

\* The aid in use stays, though the table that knew it is gone.
InitIds(p) ==
  /\ job = "idle"
  /\ p.start <= p.end
  /\ Reinitialise(p)
  /\ allocReady' = TRUE
  /\ promised' = {}
  /\ UNCHANGED <<storeVars, aid, aidReady, lastAid, onFile>>

\* The lease that slot s now has for a replaces an earlier one.
Promise(a, s) ==
  promised' = {p \in promised : p.aid # a} \cup {[aid |-> a, until |-> table'[s].until]}

\* The aid held before is not released: its lease runs on.
AllocateAid(a, s) ==
  /\ job = "idle"
  /\ allocReady
  /\ Grant(a, s)
  /\ aid' = a
  /\ aidReady' = TRUE
  /\ lastAid' = a
  /\ Promise(a, s)
  /\ UNCHANGED <<storeVars, allocReady, onFile>>

AllocateRefused ==
  /\ job = "idle"
  /\ allocReady
  /\ Refuse
  /\ UNCHANGED <<storeVars, nodeVars, lastAid, promises>>

TouchAid(s) ==
  /\ job = "idle"
  /\ allocReady
  /\ aidReady
  /\ Touch(aid, s)
  /\ Promise(aid, s)
  /\ UNCHANGED <<storeVars, nodeVars, lastAid, onFile>>

\* osfx_easy_save_ids and osfx_easy_load_ids run the store's steps to an end.
SaveIds ==
  /\ \/ allocReady /\ BeginSave /\ onFile' = {}
     \/ (WriteHeader \/ WriteEntry \/ AbortSave) /\ UNCHANGED onFile
     \/ EndSave /\ onFile' = promised
  /\ UNCHANGED <<nodeVars, lastAid, promised>>

\* A load that fails has cleared the table all the same and leaves the aid.
LoadIds ==
  /\ \/ BeginLoad /\ promised' = {}
     \/ (ReadHeader \/ ReadLease \/ AbortLoad) /\ UNCHANGED promised
  /\ UNCHANGED <<nodeVars, lastAid, onFile>>

\* A slip: the aid is cleared but still counts as ready.
LoadIdsDoneHalf ==
  /\ EndLoad
  /\ allocReady' = TRUE
  /\ aid' = 0
  /\ promised' = onFile
  /\ UNCHANGED <<aidReady, lastAid, onFile>>

LoadIdsDone ==
  /\ EndLoad
  /\ allocReady' = TRUE
  /\ aid' = 0
  /\ aidReady' = FALSE
  /\ promised' = onFile
  /\ UNCHANGED <<lastAid, onFile>>

Time == Tick /\ job = "idle" /\ UNCHANGED <<storeVars, nodeVars, lastAid, promises>>

EasyNext ==
  \/ Boot
  \/ \E a \in Aid : SetAid(a)
  \/ \E p \in Pools : InitIds(p)
  \/ \E a \in Aid, s \in Slots : AllocateAid(a, s)
  \/ AllocateRefused
  \/ \E s \in Slots : TouchAid(s)
  \/ SaveIds
  \/ LoadIds
  \/ LoadIdsDone
  \/ Time

EasySpec == EasyInit /\ [][EasyNext]_easyVars
-----------------------------------------------------------------------------
(* Correctness *)

LeaseLive(a) == \E s \in Slots : Holds(table, s, a) /\ ~(clock > table[s].until)

\* Type invariant of the context; an aid that is ready is the one the device
\* was last given, by an allocation or by osfx_easy_set_aid.
EasyTypeOK ==
  /\ pool \in [start : Aid, end : Aid, lease : Nat]
  /\ aid \in Aid
  /\ aidReady \in BOOLEAN
  /\ allocReady \in BOOLEAN
  /\ lastAid \in Aid \cup {NoAid}
  /\ promised \subseteq Line /\ onFile \subseteq Line
  /\ job \in {"idle", "saving", "loading"}
  /\ aidReady => aid = lastAid

\* An allocator the context calls ready has a pool to allocate from, across
\* every save, load and power loss: no file can smuggle an inverted range in.
ReadyPoolNotEmpty == allocReady => pool.start <= pool.end

\* A live lease, of the aid in use or of one the device has moved on from, goes
\* only when the table is cleared: by a boot, a new range or a load.  Nothing in
\* the context gives an aid back.
LeaseKept ==
  [][\A a \in Aid :
       LeaseLive(a) /\ a \notin Leased(table')
         => BeginLoad \/ Boot \/ \E p \in Pools : InitIds(p)]_easyVars

\* An allocation never gives the device an aid of which a lease it was given
\* before still runs: across allocations, touches and expiry, and across a save
\* that returned 1, power loss and a load that did, wherever other saves and loads
\* were cut short.  A range that is set anew, and a load of anything less, forget
\* what was promised, as does a boot without a load: then it may.
PromisesKept ==
  [][\A a \in Aid, s \in Slots :
       AllocateAid(a, s) => \A p \in promised : p.aid = a => clock > p.until]_easyVars

\* README.md:422-423, "How do I persist the device ID across reboots? Call
\* osfx_easy_save_ids() ... and osfx_easy_load_ids() at boot": a device that
\* boots and finds its last aid still leased in the table it loaded goes on
\* under that aid.
DeviceIdPersists ==
  [][\A a \in Aid, s \in Slots :
       AllocateAid(a, s) /\ ~aidReady /\ LeaseLive(lastAid) => a = lastAid]_easyVars
=============================================================================
