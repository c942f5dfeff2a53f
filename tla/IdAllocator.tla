----------------------------- MODULE IdAllocator ----------------------------
(***************************************************************************)
(* The ID lease allocator (src/osfx_id_allocator.c): a fixed table of      *)
(* lease entries, a pool of aids, an adaptive lease policy and the rate    *)
(* window it is computed from.  The library is single threaded, so one     *)
(* call of an entry point is one step; `clock' is the now_ts its callers   *)
(* pass in.                                                                *)
(*                                                                         *)
(* Factors are percentages (the code has doubles); last_seen is written    *)
(* but never read by the program and is left out.                          *)
(***************************************************************************)
EXTENDS Integers, FiniteSets

CONSTANTS
  AidMod,         \* 2^32 in the code: aids are unsigned and wrap
  MaxEntries,     \* OSFX_ID_MAX_ENTRIES
  Pools,          \* the (start, end, lease) arguments init is called with
  Policies,       \* the arguments set_policy and set_policy_ex are called with
  Hour,           \* seconds in an hour, the unit of the rate threshold
  FallbackLease,  \* the lease init takes for an argument of 0 (86400)
  MinLease,       \* init's minimum lease (60)
  Threshold,      \* init's high-rate threshold per hour (60)
  MaxTime,        \* bound: the clock stops here
  MaxRecent       \* bound: grants counted in one rate window

Aid   == 0 .. AidMod - 1
Slots == 1 .. MaxEntries

\* What a caller may pass, and what the pool and policy fields may hold.
PoolArgs   == [start : Aid, end : Aid, lease : Nat]

PolicyArgs == [min : Nat, max : Nat, window : Nat, threshold : Nat,
               rateFactor : Nat, watermark : Nat, pressureFactor : Nat,
               touchFactor : Nat, adaptive : BOOLEAN]

Positive == Nat \ {0}

PoolType   == [start : Aid, end : Aid, lease : Positive]

PolicyType == [min : Positive, max : Positive, window : Positive, threshold : Positive,
               rateFactor : 1 .. 100, watermark : 1 .. 100, pressureFactor : 1 .. 100,
               touchFactor : Positive, adaptive : BOOLEAN]

ASSUME SizeAssumption ==
  /\ AidMod \in Nat \ {0}
  /\ MaxEntries \in Nat \ {0}
  /\ MaxEntries < AidMod

ASSUME ArgumentAssumption ==
  /\ Pools \subseteq PoolArgs
  /\ Policies \subseteq PolicyArgs

ASSUME TimeAssumption ==
  /\ Hour \in Nat \ {0}
  /\ FallbackLease \in Nat \ {0}
  /\ MinLease \in Nat \ {0}
  /\ Threshold \in Nat \ {0}
  /\ MaxTime \in Nat
  /\ MaxRecent \in Nat

VARIABLES
  pool,          \* start_id, end_id and default_lease_seconds
  policy,        \* the policy fields
  table,         \* entries[]
  windowStart,   \* recent_window_start; 0 means "no window yet"
  recent,        \* recent_alloc_count
  clock

allocVars == <<pool, policy, table, windowStart, recent, clock>>

Entry == [inUse : BOOLEAN, aid : Aid, until : Nat]

\* memset(entry, 0): also what every slot holds after init.
Free == [inUse |-> FALSE, aid |-> 0, until |-> 0]

EmptyTable == [s \in Slots |-> Free]
-----------------------------------------------------------------------------
(* The table *)

Holds(t, s, a) == t[s].inUse /\ t[s].aid = a

Leased(t) == {t[s].aid : s \in {r \in Slots : t[r].inUse}}

\* find_entry: the first slot that holds a.
FindEntry(t, a, s) == /\ Holds(t, s, a)
                      /\ \A r \in Slots : Holds(t, r, a) => s <= r

\* alloc_slot: the first slot that is not in use.
AllocSlot(t, s) == /\ ~t[s].inUse
                   /\ \A r \in Slots : ~t[r].inUse => s <= r

\* A slip: the last second of a lease already counts as expired.
CleanedEarly(t) ==
  [s \in Slots |-> IF t[s].inUse /\ clock >= t[s].until THEN Free ELSE t[s]]

\* cleanup_expired: a lease is over the second after `until'.
Cleaned(t) ==
  [s \in Slots |-> IF t[s].inUse /\ clock > t[s].until THEN Free ELSE t[s]]

\* A slip: aid <= end_id evaluated without the 32-bit wrap of ++aid.
ScannedUnbounded == pool.start .. pool.end + 1

\* The aids the loop of osfx_id_allocate visits.  With end_id the largest
\* aid, aid <= end_id never fails: ++aid wraps to 0 and the loop goes on.
Scanned == IF pool.end = AidMod - 1 THEN Aid ELSE pool.start .. pool.end

\* How far from the start of the scan an aid is met.
ScanStep(a) == (a - pool.start) % AidMod

\* A slip: the scan tests the slot it would use, not the whole table.
NextAidUnchecked(t, a) ==
  /\ a \in Scanned
  /\ a = pool.start

\* The first aid of the scan that no entry holds.
NextAid(t, a) ==
  /\ a \in Scanned \ Leased(t)
  /\ \A b \in Scanned \ Leased(t) : ScanStep(a) <= ScanStep(b)
-----------------------------------------------------------------------------
(* The lease length (compute_lease_seconds) *)

\* pool_capacity: 32-bit, so 0 for a pool that covers every aid.
PoolCapacity == IF pool.end < pool.start THEN 0
                ELSE (pool.end - pool.start + 1) % AidMod

\* The rate window: opened by the first call that finds it unset, restarted
\* (and the count forgotten) once it has lapsed.
WindowOpened == IF windowStart = 0 THEN clock ELSE windowStart
WindowLapsed == clock > WindowOpened + policy.window
WindowNow    == IF WindowLapsed THEN clock ELSE WindowOpened
RecentNow    == IF WindowLapsed THEN 0 ELSE recent
Elapsed      == IF clock > WindowNow THEN clock - WindowNow ELSE 1

HighRate == RecentNow * Hour >= policy.threshold * Elapsed

HighPressure(t) ==
  LET used == Cardinality({s \in Slots : t[s].inUse})
  IN  PoolCapacity > 0 /\ used * 100 >= policy.watermark * PoolCapacity

\* A slip: the lower bound applied last.
ClampMinLast(x) == LET y == IF x > policy.max THEN policy.max ELSE x
                   IN  IF y < policy.min THEN policy.min ELSE y

\* Raised to the minimum first, cut to the maximum last: where the two
\* contradict each other the maximum wins.
Clamp(x) == LET y == IF x < policy.min THEN policy.min ELSE x
            IN  IF y > policy.max THEN policy.max ELSE y

\* The factors in hundredths; the code's cast to integer rounds down.
ScaledLease(t) ==
  (pool.lease * (IF HighRate THEN policy.rateFactor ELSE 100)
              * (IF HighPressure(t) THEN policy.pressureFactor ELSE 100))
    \div 10000

\* Without adaptation the default lease is used as it is, not clamped.
LeaseSeconds(t) == IF policy.adaptive THEN Clamp(ScaledLease(t)) ELSE pool.lease

TouchSeconds == Clamp((pool.lease * policy.touchFactor) \div 100)
-----------------------------------------------------------------------------
(* Initialisation and policy *)

PoolOf(p) == [p EXCEPT !.lease = IF p.lease > 0 THEN p.lease ELSE FallbackLease]

InitPolicy(p) ==
  [min |-> MinLease, max |-> PoolOf(p).lease, window |-> Hour,
   threshold |-> Threshold, rateFactor |-> 20, watermark |-> 80,
   pressureFactor |-> 25, touchFactor |-> 100, adaptive |-> TRUE]

AtLeastOne(x) == IF x > 0 THEN x ELSE 1

Fraction(x, default) == IF x > 0 /\ x <= 100 THEN x ELSE default

\* A slip: a fraction above one is let through.
NormalisedLoosely(q) ==
  [q EXCEPT !.min = AtLeastOne(@), !.max = AtLeastOne(@), !.window = AtLeastOne(@),
            !.threshold = AtLeastOne(@), !.rateFactor = AtLeastOne(@),
            !.watermark = AtLeastOne(@), !.pressureFactor = AtLeastOne(@),
            !.touchFactor = AtLeastOne(@)]

\* osfx_id_set_policy_ex: every argument is forced into its legal range.
Normalised(q) ==
  [min            |-> AtLeastOne(q.min),
   max            |-> IF q.max >= AtLeastOne(q.min) THEN q.max ELSE AtLeastOne(q.min),
   window         |-> AtLeastOne(q.window),
   threshold      |-> AtLeastOne(q.threshold),
   rateFactor     |-> Fraction(q.rateFactor, 20),
   watermark      |-> Fraction(q.watermark, 80),
   pressureFactor |-> Fraction(q.pressureFactor, 25),
   touchFactor    |-> IF q.touchFactor > 0 THEN q.touchFactor ELSE 100,
   adaptive       |-> q.adaptive]

\* osfx_id_set_policy: the remaining arguments are those already in force.
ShortForm(q) ==
  [min            |-> q.min,
   max            |-> IF policy.max > 0 THEN policy.max ELSE PoolOf(pool).lease,
   window         |-> q.window,
   threshold      |-> q.threshold,
   rateFactor     |-> q.rateFactor,
   watermark      |-> policy.watermark,
   pressureFactor |-> policy.pressureFactor,
   touchFactor    |-> policy.touchFactor,
   adaptive       |-> q.adaptive]
-----------------------------------------------------------------------------
(* The operations *)

Init ==
  /\ \E p \in Pools : pool = PoolOf(p) /\ policy = InitPolicy(p)
  /\ table = EmptyTable
  /\ windowStart = 0
  /\ recent = 0
  /\ clock = 0

\* osfx_id_allocator_init on an allocator already in use.
Reinitialise(p) ==
  /\ pool' = PoolOf(p)
  /\ policy' = InitPolicy(p)
  /\ table' = EmptyTable
  /\ windowStart' = 0
  /\ recent' = 0
  /\ UNCHANGED clock

SetPolicyEx(q) ==
  /\ policy' = Normalised(q)
  /\ UNCHANGED <<pool, table, windowStart, recent, clock>>

SetPolicy(q) ==
  /\ policy' = Normalised(ShortForm(q))
  /\ UNCHANGED <<pool, table, windowStart, recent, clock>>

CleanupExpired ==
  /\ table' = Cleaned(table)
  /\ UNCHANGED <<pool, policy, windowStart, recent, clock>>

\* What compute_lease_seconds leaves behind, besides its result.
MoveWindow(granted) ==
  IF policy.adaptive
  THEN windowStart' = WindowNow /\ recent' = RecentNow + granted
  ELSE UNCHANGED windowStart /\ recent' = recent + granted

\* osfx_id_allocate, successful: the expired leases go, the first free aid of
\* the pool goes to the first free slot.  (The branch that reuses an expired
\* entry in place is never reached: the cleanup has removed them all.)
Grant(a, s) ==
  LET swept == Cleaned(table)
  IN  /\ pool.start <= pool.end
      /\ recent < MaxRecent
      /\ NextAid(swept, a)
      /\ AllocSlot(swept, s)
      /\ table' = [swept EXCEPT ![s] =
                     [inUse |-> TRUE, aid |-> a, until |-> clock + LeaseSeconds(swept)]]
      /\ MoveWindow(1)
      /\ UNCHANGED <<pool, policy, clock>>

\* osfx_id_allocate, no aid or no slot left: the cleanup and the move of the
\* rate window have happened all the same.
Refuse ==
  LET swept == Cleaned(table)
  IN  /\ pool.start <= pool.end
      /\ \/ Scanned \subseteq Leased(swept)
         \/ \A s \in Slots : swept[s].inUse
      /\ table' = swept
      /\ MoveWindow(0)
      /\ UNCHANGED <<pool, policy, clock>>

Release(a, s) ==
  /\ FindEntry(table, a, s)
  /\ table' = [table EXCEPT ![s] = Free]
  /\ UNCHANGED <<pool, policy, windowStart, recent, clock>>

\* osfx_id_touch: whoever names the aid extends its lease, expired or not.
Touch(a, s) ==
  /\ FindEntry(table, a, s)
  /\ table' = [table EXCEPT ![s].until = clock + TouchSeconds]
  /\ UNCHANGED <<pool, policy, windowStart, recent, clock>>

Tick ==
  /\ clock < MaxTime
  /\ clock' = clock + 1
  /\ UNCHANGED <<pool, policy, table, windowStart, recent>>

Next ==
  \/ \E p \in Pools : Reinitialise(p)
  \/ \E q \in Policies : SetPolicyEx(q) \/ SetPolicy(q)
  \/ CleanupExpired
  \/ \E a \in Aid, s \in Slots : Grant(a, s) \/ Release(a, s) \/ Touch(a, s)
  \/ Refuse
  \/ Tick

Spec == Init /\ [][Next]_allocVars
-----------------------------------------------------------------------------
(* Correctness *)

\* Type invariant of the allocator's state: whatever the callers passed, the
\* policy in force stays within the ranges the lease computation relies on.
TypeOK ==
  /\ pool \in PoolType
  /\ policy \in PolicyType
  /\ table \in [Slots -> Entry]
  /\ windowStart \in Nat
  /\ recent \in Nat
  /\ clock \in Nat

NoAidTwice(t) ==
  \A r, s \in Slots : t[r].inUse /\ t[s].inUse /\ t[r].aid = t[s].aid => r = s

\* No aid is held by two entries: find_entry, release and touch look only at
\* the first entry with the aid, so a second one would live on unseen.
UniqueAids == NoAidTwice(table)

\* Every lease is for an aid of the configured pool, unless the pool ends at
\* the largest 32-bit value, where the scan of osfx_id_allocate wraps past it.
InPool ==
  pool.end # AidMod - 1 => Leased(table) \subseteq pool.start .. pool.end

\* The lease an aid has in the abstract table: that of its entry.
LeaseIn(t, a) == IF a \in Leased(t)
                 THEN t[CHOOSE s \in Slots : Holds(t, s, a)].until
                 ELSE -1

Abstract == INSTANCE LeaseTable WITH lease <- [a \in Aid |-> LeaseIn(table, a)]

\* The allocator implements the abstract lease table: a live lease is never
\* granted a second time, and only release, expiry and init end one.
ImplementsLeaseTable == Abstract!Spec

\* A lease that is given or renewed under the adaptive policy ends within the
\* configured limits, the maximum having the last word.
LeaseWithinLimits ==
  [][\A s \in Slots :
       policy.adaptive /\ table'[s].inUse /\ table'[s] # table[s] =>
         /\ table'[s].until <= clock + policy.max
         /\ table'[s].until < clock + policy.min =>
              table'[s].until = clock + policy.max]_allocVars
=============================================================================
