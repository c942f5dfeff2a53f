-------------------------- MODULE IdAllocatorProofs -------------------------
(***************************************************************************)
(* Theorems about the ID allocator, for every table size, pool, policy and *)
(* width of the aids.                                                      *)
(***************************************************************************)
EXTENDS IdAllocator, TLAPS

\* What the operations need of the types.  It holds of memory that was cleared
\* and never initialised as well, where TypeOK does not.
LooselyTyped ==
  /\ pool \in PoolArgs
  /\ policy \in PolicyArgs
  /\ table \in [Slots -> Entry]
  /\ windowStart \in Nat
  /\ recent \in Nat
  /\ clock \in Nat

LEMMA TypedIsLooselyTyped == TypeOK => LooselyTyped
BY DEF TypeOK, LooselyTyped, PoolType, PoolArgs, PolicyType, PolicyArgs, Positive
-----------------------------------------------------------------------------
(* The operators the operations are built from *)

\* A legal policy is one a caller may ask for.
LEMMA PolicyIsArgs == PolicyType \subseteq PolicyArgs
BY DEF PolicyType, PolicyArgs, Positive

\* osfx_id_set_policy_ex forces any arguments into the policy's legal ranges.
LEMMA NormalisedType ==
  ASSUME NEW q \in PolicyArgs
  PROVE  Normalised(q) \in PolicyType
BY DEF Normalised, AtLeastOne, Fraction, PolicyArgs, PolicyType, Positive

\* osfx_id_set_policy passes legal arguments on.
LEMMA ShortFormType ==
  ASSUME NEW q \in PolicyArgs, policy \in PolicyArgs, pool \in PoolArgs
  PROVE  ShortForm(q) \in PolicyArgs
<1>1. PoolOf(pool).lease \in Nat
  BY TimeAssumption DEF PoolOf, PoolArgs
<1> QED  BY <1>1 DEF ShortForm, PolicyArgs

\* init makes a pool with a positive lease and a legal policy.
LEMMA InitialPoolType ==
  ASSUME NEW p \in Pools
  PROVE  /\ PoolOf(p) \in PoolType
         /\ InitPolicy(p) \in PolicyType
<1>1. PoolOf(p) \in PoolType
  BY ArgumentAssumption, TimeAssumption DEF PoolOf, PoolArgs, PoolType, Positive
<1>2. InitPolicy(p) \in PolicyType
  BY <1>1, TimeAssumption DEF InitPolicy, PolicyType, PoolType, Positive
<1> QED  BY <1>1, <1>2

\* Clamping keeps a lease within the policy, the maximum having the last word.
LEMMA ClampBounds ==
  ASSUME NEW x \in Nat, policy \in PolicyArgs
  PROVE  /\ Clamp(x) \in Nat
         /\ Clamp(x) <= policy.max
         /\ Clamp(x) < policy.min => Clamp(x) = policy.max
BY DEF Clamp, PolicyArgs

\* The unclamped lengths are non-negative integers.
LEMMA UnclampedLengths ==
  ASSUME LooselyTyped, NEW t
  PROVE  /\ ScaledLease(t) \in Nat
         /\ (pool.lease * policy.touchFactor) \div 100 \in Nat
<1> DEFINE rate == IF HighRate THEN policy.rateFactor ELSE 100
           pressure == IF HighPressure(t) THEN policy.pressureFactor ELSE 100
<1>1. rate \in Nat /\ pressure \in Nat /\ pool.lease \in Nat /\ policy.touchFactor \in Nat
  BY DEF LooselyTyped, PolicyArgs, PoolArgs
<1> HIDE DEF rate, pressure
<1>2. pool.lease * rate \in Nat
  BY <1>1
<1>3. pool.lease * rate * pressure \in Nat
  BY <1>1, <1>2
<1>4. (pool.lease * rate * pressure) \div 10000 \in Nat
  BY <1>3
<1>5. (pool.lease * policy.touchFactor) \div 100 \in Nat
  BY <1>1
<1> QED  BY <1>4, <1>5 DEF ScaledLease, rate, pressure

\* The lease lengths compute_lease_seconds and osfx_id_touch come to are
\* non-negative integers.
LEMMA LeaseLengths ==
  ASSUME LooselyTyped, NEW t
  PROVE  LeaseSeconds(t) \in Nat /\ TouchSeconds \in Nat
<1>1. pool.lease \in Nat
  BY DEF LooselyTyped, PoolArgs
<1> QED  BY <1>1, UnclampedLengths, ClampBounds DEF LeaseSeconds, TouchSeconds, LooselyTyped

\* cleanup_expired leaves an entry as it is or frees it.
LEMMA CleanedEntries ==
  ASSUME table \in [Slots -> Entry]
  PROVE  /\ Cleaned(table) \in [Slots -> Entry]
         /\ \A s \in Slots : Cleaned(table)[s].inUse => Cleaned(table)[s] = table[s]
BY SizeAssumption DEF Cleaned, Entry, Free, Aid

\* The window move keeps its two fields natural numbers.
LEMMA WindowType ==
  ASSUME LooselyTyped, NEW n \in Nat, MoveWindow(n)
  PROVE  windowStart' \in Nat /\ recent' \in Nat
BY DEF MoveWindow, WindowNow, WindowOpened, RecentNow, LooselyTyped
-----------------------------------------------------------------------------
(* Type correctness *)

LEMMA InitTypeOK == Init => TypeOK
BY SizeAssumption, InitialPoolType DEF Init, TypeOK, EmptyTable, Free, Entry, Aid

\* Types are kept by every call, in memory that was initialised or not.
LEMMA StepLooselyTyped == LooselyTyped /\ [Next]_allocVars => LooselyTyped'
<1> SUFFICES ASSUME LooselyTyped, [Next]_allocVars PROVE LooselyTyped'
  OBVIOUS
<1>1. ASSUME NEW p \in Pools, Reinitialise(p) PROVE LooselyTyped'
  BY <1>1, SizeAssumption, InitialPoolType
     DEF Reinitialise, LooselyTyped, EmptyTable, Free, Entry, Aid, PoolType, PoolArgs,
         PolicyType, PolicyArgs, Positive
<1>2. ASSUME NEW q \in Policies, SetPolicyEx(q) PROVE LooselyTyped'
  BY <1>2, ArgumentAssumption, NormalisedType, PolicyIsArgs DEF SetPolicyEx, LooselyTyped
<1>3. ASSUME NEW q \in Policies, SetPolicy(q) PROVE LooselyTyped'
  <2>1. ShortForm(q) \in PolicyArgs
    BY ArgumentAssumption, ShortFormType DEF LooselyTyped
  <2> QED  BY <1>3, <2>1, NormalisedType, PolicyIsArgs DEF SetPolicy, LooselyTyped
<1>4. CASE CleanupExpired
  BY <1>4, CleanedEntries DEF CleanupExpired, LooselyTyped
<1>5. ASSUME NEW a \in Aid, NEW s \in Slots, Grant(a, s) PROVE LooselyTyped'
  <2> DEFINE e == [inUse |-> TRUE, aid |-> a,
                   until |-> clock + LeaseSeconds(Cleaned(table))]
  <2>1. e \in Entry
    BY LeaseLengths DEF Entry, LooselyTyped
  <2>2. table' = [Cleaned(table) EXCEPT ![s] = e] /\ UNCHANGED <<pool, policy, clock>>
    BY <1>5 DEF Grant
  <2> HIDE DEF e
  <2>3. table' \in [Slots -> Entry]
    BY <2>1, <2>2, CleanedEntries DEF LooselyTyped
  <2>4. windowStart' \in Nat /\ recent' \in Nat
    BY <1>5, WindowType DEF Grant
  <2> QED  BY <2>2, <2>3, <2>4 DEF LooselyTyped
<1>6. CASE Refuse
  <2>1. windowStart' \in Nat /\ recent' \in Nat
    BY <1>6, WindowType DEF Refuse
  <2> QED  BY <1>6, <2>1, CleanedEntries DEF Refuse, LooselyTyped
<1>7. ASSUME NEW a \in Aid, NEW s \in Slots, Release(a, s) PROVE LooselyTyped'
  BY <1>7, SizeAssumption DEF Release, LooselyTyped, Free, Entry, Aid
<1>8. ASSUME NEW a \in Aid, NEW s \in Slots, Touch(a, s) PROVE LooselyTyped'
  <2>1. clock + TouchSeconds \in Nat
    BY LeaseLengths DEF LooselyTyped
  <2>2. table' \in [Slots -> Entry]
    BY <1>8, <2>1 DEF Touch, LooselyTyped, Entry
  <2> QED  BY <1>8, <2>2 DEF Touch, LooselyTyped
<1>9. CASE Tick
  BY <1>9 DEF Tick, LooselyTyped
<1>10. CASE UNCHANGED allocVars
  BY <1>10 DEF allocVars, LooselyTyped
<1> QED
  BY <1>1, <1>2, <1>3, <1>4, <1>5, <1>6, <1>7, <1>8, <1>9, <1>10 DEF Next

LEMMA StepTypeOK == TypeOK /\ [Next]_allocVars => TypeOK'
<1> SUFFICES ASSUME TypeOK, [Next]_allocVars PROVE TypeOK'
  OBVIOUS
<1>1. LooselyTyped /\ LooselyTyped'
  BY TypedIsLooselyTyped, StepLooselyTyped
<1>2. pool' \in PoolType /\ policy' \in PolicyType
  <2>1. ASSUME NEW p \in Pools, Reinitialise(p) PROVE pool' \in PoolType /\ policy' \in PolicyType
    BY <2>1, InitialPoolType DEF Reinitialise
  <2>2. ASSUME NEW q \in Policies, SetPolicyEx(q) \/ SetPolicy(q)
        PROVE  pool' \in PoolType /\ policy' \in PolicyType
    <3>1. q \in PolicyArgs /\ ShortForm(q) \in PolicyArgs
      BY <1>1, ArgumentAssumption, ShortFormType DEF LooselyTyped
    <3> QED  BY <2>2, <3>1, NormalisedType DEF SetPolicyEx, SetPolicy, TypeOK
  <2>3. CASE UNCHANGED <<pool, policy>>
    BY <2>3 DEF TypeOK
  <2> QED
    BY <2>1, <2>2, <2>3
       DEF Next, CleanupExpired, Grant, Refuse, Release, Touch, Tick, allocVars
<1> QED  BY <1>1, <1>2 DEF TypeOK, LooselyTyped

\* The allocator's state always has its type, the policy its legal ranges.
THEOREM TypeCorrect == Spec => []TypeOK
<1>1. Init => TypeOK
  BY InitTypeOK
<1>2. TypeOK /\ [Next]_allocVars => TypeOK'
  BY StepTypeOK
<1> QED  BY <1>1, <1>2, PTL DEF Spec
-----------------------------------------------------------------------------
(* No aid twice *)

\* Sweeping and freeing entries keep the aids distinct; so does an entry for an
\* aid no other entry holds.
LEMMA CleanedUnique ==
  ASSUME UniqueAids
  PROVE  NoAidTwice(Cleaned(table))
BY DEF UniqueAids, NoAidTwice, Cleaned, Free

LEMMA AddedUnique ==
  ASSUME NEW t \in [Slots -> Entry], NoAidTwice(t),
         NEW a \in Aid, NEW s \in Slots, NEW u \in Nat, a \notin Leased(t)
  PROVE  NoAidTwice([t EXCEPT ![s] = [inUse |-> TRUE, aid |-> a, until |-> u]])
BY DEF NoAidTwice, Leased

LEMMA StepUnique == LooselyTyped /\ UniqueAids /\ [Next]_allocVars => UniqueAids'
<1> SUFFICES ASSUME LooselyTyped, UniqueAids, [Next]_allocVars PROVE UniqueAids'
  OBVIOUS
<1>1. ASSUME NEW p \in Pools, Reinitialise(p) PROVE UniqueAids'
  BY <1>1 DEF Reinitialise, UniqueAids, NoAidTwice, EmptyTable, Free
<1>2. ASSUME UNCHANGED table PROVE UniqueAids'
  BY <1>2 DEF UniqueAids, NoAidTwice
<1>3. ASSUME table' = Cleaned(table) PROVE UniqueAids'
  BY <1>3, CleanedUnique DEF UniqueAids
<1>4. ASSUME NEW a \in Aid, NEW s \in Slots, Grant(a, s) PROVE UniqueAids'
  <2>1. a \notin Leased(Cleaned(table)) /\ Cleaned(table) \in [Slots -> Entry]
    BY <1>4, CleanedEntries DEF Grant, NextAid, LooselyTyped
  <2>2. clock + LeaseSeconds(Cleaned(table)) \in Nat
    BY LeaseLengths DEF LooselyTyped
  <2>3. table' = [Cleaned(table) EXCEPT ![s] =
                    [inUse |-> TRUE, aid |-> a,
                     until |-> clock + LeaseSeconds(Cleaned(table))]]
    BY <1>4 DEF Grant
  <2> QED  BY <2>1, <2>2, <2>3, CleanedUnique, AddedUnique DEF UniqueAids
<1>5. ASSUME NEW a \in Aid, NEW s \in Slots, Release(a, s) PROVE UniqueAids'
  BY <1>5 DEF Release, UniqueAids, NoAidTwice, Free, LooselyTyped
<1>6. ASSUME NEW a \in Aid, NEW s \in Slots, Touch(a, s) PROVE UniqueAids'
  BY <1>6 DEF Touch, UniqueAids, NoAidTwice, LooselyTyped, Entry
<1> QED
  BY <1>1, <1>2, <1>3, <1>4, <1>5, <1>6
     DEF Next, SetPolicyEx, SetPolicy, CleanupExpired, Refuse, Tick, allocVars

\* No aid is ever held by two entries of the table.
THEOREM AidsAreUnique == Spec => []UniqueAids
<1>1. Init => UniqueAids
  BY DEF Init, UniqueAids, NoAidTwice, EmptyTable, Free
<1>2. TypeOK /\ UniqueAids /\ [Next]_allocVars => UniqueAids'
  BY StepUnique, TypedIsLooselyTyped
<1> QED  BY <1>1, <1>2, TypeCorrect, PTL DEF Spec
-----------------------------------------------------------------------------
(* The pool *)

LEMMA StepInPool == TypeOK /\ InPool /\ [Next]_allocVars => InPool'
<1> SUFFICES ASSUME TypeOK, InPool, [Next]_allocVars PROVE InPool'
  OBVIOUS
<1>1. ASSUME NEW p \in Pools, Reinitialise(p) PROVE InPool'
  BY <1>1 DEF Reinitialise, InPool, Leased, EmptyTable, Free
<1>2. ASSUME UNCHANGED <<pool, table>> PROVE InPool'
  BY <1>2 DEF InPool, Leased
<1>3. Leased(Cleaned(table)) \subseteq Leased(table)
  BY CleanedEntries DEF Leased, TypeOK
<1>4. ASSUME table' = Cleaned(table), UNCHANGED pool PROVE InPool'
  BY <1>3, <1>4 DEF InPool, Leased
<1>5. ASSUME NEW a \in Aid, NEW s \in Slots, Grant(a, s) PROVE InPool'
  <2>1. pool.end # AidMod - 1 => a \in pool.start .. pool.end
    BY <1>5 DEF Grant, NextAid, Scanned
  <2>2. UNCHANGED pool /\ Leased(table)' \subseteq Leased(Cleaned(table)) \union {a}
    BY <1>5, CleanedEntries DEF Grant, Leased, TypeOK
  <2> QED  BY <1>3, <2>1, <2>2 DEF InPool
<1>6. ASSUME NEW a \in Aid, NEW s \in Slots, Release(a, s) PROVE InPool'
  BY <1>6 DEF Release, InPool, Leased, Free, TypeOK
<1>7. ASSUME NEW a \in Aid, NEW s \in Slots, Touch(a, s) PROVE InPool'
  BY <1>7 DEF Touch, InPool, Leased, TypeOK, Entry
<1> QED
  BY <1>1, <1>2, <1>4, <1>5, <1>6, <1>7
     DEF Next, SetPolicyEx, SetPolicy, CleanupExpired, Refuse, Tick, allocVars

\* Every lease is for an aid of the pool, unless the pool ends at the last aid.
THEOREM LeasesStayInPool == Spec => []InPool
<1>1. Init => InPool
  BY DEF Init, InPool, Leased, EmptyTable, Free
<1> QED  BY <1>1, StepInPool, TypeCorrect, PTL DEF Spec
-----------------------------------------------------------------------------
(* The length of a lease *)

LEMMA AdaptiveLease ==
  ASSUME TypeOK, NEW t, policy.adaptive
  PROVE  /\ LeaseSeconds(t) <= policy.max
         /\ LeaseSeconds(t) < policy.min => LeaseSeconds(t) = policy.max
BY UnclampedLengths, ClampBounds, TypedIsLooselyTyped DEF LeaseSeconds, LooselyTyped

LEMMA TouchLease ==
  ASSUME TypeOK
  PROVE  /\ TouchSeconds <= policy.max
         /\ TouchSeconds < policy.min => TouchSeconds = policy.max
BY UnclampedLengths, ClampBounds, TypedIsLooselyTyped DEF TouchSeconds, LooselyTyped

\* A lease given or renewed under the adaptive policy ends within its limits.
THEOREM LeasesWithinLimits == Spec => LeaseWithinLimits
<1> DEFINE Limited(s) ==
      policy.adaptive /\ table'[s].inUse /\ table'[s] # table[s] =>
        /\ table'[s].until <= clock + policy.max
        /\ table'[s].until < clock + policy.min => table'[s].until = clock + policy.max
<1>1. TypeOK /\ [Next]_allocVars => [\A s \in Slots : Limited(s)]_allocVars
  <2> SUFFICES ASSUME TypeOK, Next, NEW r \in Slots PROVE Limited(r)
    BY DEF allocVars
  <2>1. ASSUME NEW p \in Pools, Reinitialise(p) PROVE Limited(r)
    BY <2>1 DEF Reinitialise, EmptyTable, Free
  <2>2. ASSUME UNCHANGED table PROVE Limited(r)
    BY <2>2
  <2>3. ASSUME table' = Cleaned(table) PROVE Limited(r)
    BY <2>3, CleanedEntries DEF TypeOK
  <2>4. ASSUME NEW a \in Aid, NEW s \in Slots, Grant(a, s) PROVE Limited(r)
    <3>1. /\ Cleaned(table)[r].inUse => Cleaned(table)[r] = table[r]
          /\ Cleaned(table) \in [Slots -> Entry]
      BY CleanedEntries DEF TypeOK
    <3>2. table' = [Cleaned(table) EXCEPT ![s] =
                      [inUse |-> TRUE, aid |-> a,
                       until |-> clock + LeaseSeconds(Cleaned(table))]]
      BY <2>4 DEF Grant
    <3>3. CASE r # s
      BY <3>1, <3>2, <3>3
    <3>4. CASE r = s
      <4>1. table'[r].until = clock + LeaseSeconds(Cleaned(table))
        BY <3>1, <3>2, <3>4
      <4>2. LeaseSeconds(Cleaned(table)) \in Nat /\ clock \in Nat
        BY LeaseLengths, TypedIsLooselyTyped DEF LooselyTyped
      <4>3. policy.min \in Nat /\ policy.max \in Nat
        BY DEF TypeOK, PolicyType, Positive
      <4> QED  BY <4>1, <4>2, <4>3, AdaptiveLease
    <3> QED  BY <3>3, <3>4
  <2>5. ASSUME NEW a \in Aid, NEW s \in Slots, Release(a, s) PROVE Limited(r)
    BY <2>5 DEF Release, Free, TypeOK
  <2>6. ASSUME NEW a \in Aid, NEW s \in Slots, Touch(a, s) PROVE Limited(r)
    <3>1. TouchSeconds \in Nat /\ clock \in Nat
      BY LeaseLengths, TypedIsLooselyTyped DEF LooselyTyped
    <3>2. policy.min \in Nat /\ policy.max \in Nat
      BY DEF TypeOK, PolicyType, Positive
    <3>3. table'[r] # table[r] => table'[r].until = clock + TouchSeconds
      BY <2>6 DEF Touch, TypeOK, Entry
    <3> QED  BY <3>1, <3>2, <3>3, TouchLease
  <2> QED
    BY <2>1, <2>2, <2>3, <2>4, <2>5, <2>6
       DEF Next, SetPolicyEx, SetPolicy, CleanupExpired, Refuse, Tick
<1> QED  BY <1>1, TypeCorrect, PTL DEF Spec, LeaseWithinLimits
-----------------------------------------------------------------------------
(* The allocator implements the abstract lease table *)

\* With no aid twice, the lease of an aid is that of whichever entry holds it.
LEMMA LeaseOfEntry ==
  ASSUME NEW t, NoAidTwice(t), NEW s \in Slots, NEW a, Holds(t, s, a)
  PROVE  LeaseIn(t, a) = t[s].until
<1>1. a \in Leased(t)
  BY DEF Holds, Leased
<1>2. (CHOOSE r \in Slots : Holds(t, r, a)) = s
  BY DEF Holds, NoAidTwice
<1> QED  BY <1>1, <1>2 DEF LeaseIn

LEMMA LeaseOfNobody ==
  ASSUME NEW t, NEW a, \A s \in Slots : ~Holds(t, s, a)
  PROVE  LeaseIn(t, a) = -1
BY DEF LeaseIn, Leased, Holds

\* An aid has a lease exactly when an entry holds it.
LEMMA LeaseOrNot ==
  ASSUME table \in [Slots -> Entry], NoAidTwice(table), NEW a
  PROVE  \/ \E s \in Slots : /\ Holds(table, s, a)
                             /\ LeaseIn(table, a) = table[s].until
                             /\ table[s].until \in Nat
         \/ /\ \A s \in Slots : ~Holds(table, s, a)
            /\ LeaseIn(table, a) = -1
BY LeaseOfEntry, LeaseOfNobody DEF Entry

\* Sweeping the table sweeps the abstract one.
LEMMA CleanedIsSwept ==
  ASSUME TypeOK, UniqueAids
  PROVE  [a \in Aid |-> LeaseIn(Cleaned(table), a)] = Abstract!Swept
<1> SUFFICES ASSUME NEW a \in Aid
             PROVE  LeaseIn(Cleaned(table), a) =
                      IF LeaseIn(table, a) # -1 /\ clock <= LeaseIn(table, a)
                      THEN LeaseIn(table, a) ELSE -1
  BY DEF Abstract!Swept, Abstract!Alive, Abstract!NoLease
<1>1. NoAidTwice(Cleaned(table)) /\ NoAidTwice(table)
  BY CleanedUnique DEF UniqueAids
<1>2. clock \in Nat
  BY DEF TypeOK
<1>3. CASE \A s \in Slots : ~Holds(table, s, a)
  <2>1. \A s \in Slots : ~Holds(Cleaned(table), s, a)
    BY <1>3, CleanedEntries DEF Holds, TypeOK
  <2> QED  BY <1>3, <2>1, LeaseOfNobody
<1>4. ASSUME NEW s \in Slots, Holds(table, s, a)
      PROVE  LeaseIn(Cleaned(table), a) =
               IF LeaseIn(table, a) # -1 /\ clock <= LeaseIn(table, a)
               THEN LeaseIn(table, a) ELSE -1
  <2>1. LeaseIn(table, a) = table[s].until /\ table[s].until \in Nat
    BY <1>1, <1>4, LeaseOfEntry DEF TypeOK, Entry
  <2>2. CASE clock <= table[s].until
    <3>1. Cleaned(table)[s] = table[s]
      BY <1>2, <2>1, <2>2 DEF Cleaned
    <3>2. Holds(Cleaned(table), s, a)
      BY <1>4, <3>1 DEF Holds
    <3> QED  BY <1>1, <2>1, <2>2, <3>1, <3>2, LeaseOfEntry
  <2>3. CASE clock > table[s].until
    <3>1. ASSUME NEW r \in Slots, Holds(Cleaned(table), r, a) PROVE FALSE
      <4>1. Holds(table, r, a)
        BY <3>1, CleanedEntries DEF Holds, TypeOK
      <4>2. r = s
        BY <1>1, <1>4, <4>1 DEF NoAidTwice, Holds
      <4> QED  BY <1>4, <2>3, <3>1, <4>2 DEF Cleaned, Holds, Free
    <3>2. LeaseIn(Cleaned(table), a) = -1
      BY <3>1, LeaseOfNobody
    <3> QED  BY <1>2, <2>1, <2>3, <3>2
  <2> QED  BY <1>2, <2>1, <2>2, <2>3
<1> QED  BY <1>3, <1>4

\* Overwriting a slot leaves the lease of every other aid alone.
LEMMA OtherAids ==
  ASSUME NEW t \in [Slots -> Entry], NEW s \in Slots, NEW e \in Entry, NEW b,
         NoAidTwice(t), NoAidTwice([t EXCEPT ![s] = e]),
         ~Holds(t, s, b), ~(e.inUse /\ e.aid = b)
  PROVE  LeaseIn([t EXCEPT ![s] = e], b) = LeaseIn(t, b)
<1> DEFINE u == [t EXCEPT ![s] = e]
<1>1. \A r \in Slots : Holds(u, r, b) <=> Holds(t, r, b)
  BY DEF Holds
<1>2. \A r \in Slots : Holds(t, r, b) => u[r] = t[r]
  BY DEF Holds
<1>3. CASE \E r \in Slots : Holds(t, r, b)
  BY <1>1, <1>2, <1>3, LeaseOfEntry
<1>4. CASE \A r \in Slots : ~Holds(t, r, b)
  BY <1>1, <1>4, LeaseOfNobody
<1> QED  BY <1>3, <1>4

LEMMA GrantRefines ==
  ASSUME TypeOK, UniqueAids, UniqueAids', TypeOK',
         NEW a \in Aid, NEW s \in Slots, Grant(a, s)
  PROVE  Abstract!Grant(a)
<1> DEFINE swept == Cleaned(table)
           e == [inUse |-> TRUE, aid |-> a, until |-> clock + LeaseSeconds(swept)]
<1>1. /\ a \notin Leased(swept)
      /\ ~swept[s].inUse
      /\ table' = [swept EXCEPT ![s] = e]
      /\ clock' = clock
  BY DEF Grant, NextAid, AllocSlot
<1>2. swept \in [Slots -> Entry] /\ NoAidTwice(swept) /\ NoAidTwice(table')
  BY CleanedEntries, CleanedUnique DEF TypeOK, UniqueAids
<1>3. LeaseSeconds(swept) \in Nat /\ clock \in Nat
  BY LeaseLengths, TypedIsLooselyTyped DEF LooselyTyped
<1>4. e \in Entry
  BY <1>3 DEF Entry
<1> HIDE DEF e, swept
<1>5. LeaseIn(swept, a) = -1
  BY <1>1 DEF LeaseIn
<1>6. ~Abstract!Alive(a)
  BY <1>5, CleanedIsSwept DEF swept, Abstract!Swept, Abstract!Alive, Abstract!NoLease
<1>7. LeaseIn(table', a) = clock + LeaseSeconds(swept)
  <2>1. Holds(table', s, a) /\ table'[s].until = clock + LeaseSeconds(swept)
    BY <1>1, <1>2 DEF Holds, e
  <2> QED  BY <1>2, <2>1, LeaseOfEntry
<1>8. ASSUME NEW b \in Aid, b # a PROVE LeaseIn(table', b) = LeaseIn(swept, b)
  BY <1>1, <1>2, <1>4, <1>8, OtherAids DEF Holds, e
<1>9. [b \in Aid |-> LeaseIn(table', b)]
        = [Abstract!Swept EXCEPT ![a] = LeaseIn(table', a)]
  BY <1>8, CleanedIsSwept DEF swept
<1> QED
  BY <1>1, <1>3, <1>6, <1>7, <1>9 DEF Abstract!Grant

LEMMA ReleaseRefines ==
  ASSUME TypeOK, UniqueAids, UniqueAids', NEW a \in Aid, NEW s \in Slots, Release(a, s)
  PROVE  Abstract!Release(a)
<1>1. Holds(table, s, a) /\ table' = [table EXCEPT ![s] = Free] /\ clock' = clock
  BY DEF Release, FindEntry
<1>2. table \in [Slots -> Entry] /\ NoAidTwice(table) /\ NoAidTwice(table')
  BY DEF TypeOK, UniqueAids
<1>3. Free \in Entry
  BY SizeAssumption DEF Free, Entry, Aid
<1>4. LeaseIn(table, a) # -1
  BY <1>1, <1>2, LeaseOfEntry DEF Entry
<1>5. LeaseIn(table', a) = -1
  <2>1. \A r \in Slots : ~Holds(table', r, a)
    BY <1>1, <1>2 DEF Holds, Free, NoAidTwice
  <2> QED  BY <2>1, LeaseOfNobody
<1>6. ASSUME NEW b \in Aid, b # a PROVE LeaseIn(table', b) = LeaseIn(table, b)
  BY <1>1, <1>2, <1>3, <1>6, OtherAids DEF Holds, Free
<1>7. [b \in Aid |-> LeaseIn(table', b)]
        = [[b \in Aid |-> LeaseIn(table, b)] EXCEPT ![a] = -1]
  BY <1>5, <1>6
<1> QED  BY <1>1, <1>4, <1>7 DEF Abstract!Release, Abstract!NoLease

LEMMA TouchRefines ==
  ASSUME TypeOK, UniqueAids, UniqueAids', NEW a \in Aid, NEW s \in Slots, Touch(a, s)
  PROVE  Abstract!Renew(a)
<1> DEFINE e == [table[s] EXCEPT !.until = clock + TouchSeconds]
<1>1. Holds(table, s, a) /\ table' = [table EXCEPT ![s] = e] /\ clock' = clock
  BY DEF Touch, FindEntry
<1>2. table \in [Slots -> Entry] /\ NoAidTwice(table) /\ NoAidTwice(table')
  BY DEF TypeOK, UniqueAids
<1>3. clock \in Nat /\ TouchSeconds \in Nat
  BY LeaseLengths, TypedIsLooselyTyped DEF LooselyTyped
<1>4. e \in Entry /\ e.inUse /\ e.aid = a /\ e.until = clock + TouchSeconds
  BY <1>1, <1>2, <1>3 DEF Entry, Holds
<1> HIDE DEF e
<1>5. LeaseIn(table, a) # -1
  BY <1>1, <1>2, LeaseOfEntry DEF Entry
<1>6. LeaseIn(table', a) = clock + TouchSeconds
  <2>1. Holds(table', s, a) /\ table'[s].until = clock + TouchSeconds
    BY <1>1, <1>2, <1>4 DEF Holds
  <2> QED  BY <1>2, <2>1, LeaseOfEntry
<1>7. ASSUME NEW b \in Aid, b # a PROVE LeaseIn(table', b) = LeaseIn(table, b)
  BY <1>1, <1>2, <1>4, <1>7, OtherAids DEF Holds
<1>8. [b \in Aid |-> LeaseIn(table', b)]
        = [[b \in Aid |-> LeaseIn(table, b)] EXCEPT ![a] = LeaseIn(table', a)]
  BY <1>7
<1> QED  BY <1>1, <1>3, <1>5, <1>6, <1>8 DEF Abstract!Renew, Abstract!NoLease

\* Every step of the allocator is a step of the lease table, or leaves it alone.
LEMMA StepRefines ==
  TypeOK /\ UniqueAids /\ TypeOK' /\ UniqueAids' /\ [Next]_allocVars
    => [Abstract!Next]_(Abstract!tableVars)
<1> SUFFICES ASSUME TypeOK, UniqueAids, TypeOK', UniqueAids', [Next]_allocVars
             PROVE  [Abstract!Next]_(Abstract!tableVars)
  OBVIOUS
<1>1. ASSUME NEW p \in Pools, Reinitialise(p) PROVE Abstract!Reset
  <2>1. table' = EmptyTable /\ clock' = clock
    BY <1>1 DEF Reinitialise
  <2>2. \A a \in Aid : LeaseIn(table', a) = -1
    BY <2>1, LeaseOfNobody DEF EmptyTable, Free, Holds
  <2> QED  BY <2>1, <2>2 DEF Abstract!Reset, Abstract!Empty, Abstract!NoLease
<1>2. ASSUME UNCHANGED <<table, clock>> PROVE UNCHANGED Abstract!tableVars
  BY <1>2 DEF Abstract!tableVars
<1>3. ASSUME table' = Cleaned(table), UNCHANGED clock PROVE Abstract!Sweep
  BY <1>3, CleanedIsSwept DEF Abstract!Sweep
<1>4. ASSUME Tick PROVE Abstract!Tick
  BY <1>4 DEF Tick, Abstract!Tick, TypeOK
<1> QED
  BY <1>1, <1>2, <1>3, <1>4, GrantRefines, ReleaseRefines, TouchRefines
     DEF Next, SetPolicyEx, SetPolicy, CleanupExpired, Refuse, allocVars, Abstract!Next

\* The allocator implements the abstract lease table: a live lease is never
\* granted a second time, and only release, expiry and init end one.
THEOREM AllocatorImplementsLeaseTable == Spec => ImplementsLeaseTable
<1>1. Init => Abstract!Init
  <2> SUFFICES ASSUME Init PROVE Abstract!Init
    OBVIOUS
  <2>1. \A a \in Aid : LeaseIn(table, a) = -1
    BY LeaseOfNobody DEF Init, EmptyTable, Free, Holds
  <2> QED  BY <2>1 DEF Init, Abstract!Init, Abstract!Empty, Abstract!NoLease
<1> QED
  BY <1>1, StepRefines, TypeCorrect, AidsAreUnique, PTL
     DEF Spec, ImplementsLeaseTable, Abstract!Spec
=============================================================================
