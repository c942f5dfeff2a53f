---------------------------- MODULE IdStoreProofs ---------------------------
(***************************************************************************)
(* Theorems about saving and loading the ID allocator: whatever call is    *)
(* cut short, and wherever, no aid is ever held twice.  Then about the     *)
(* device context that keeps its own aid besides; and about the            *)
(* long-running sketch, for every table size, period and number of         *)
(* retries, and however often saves, loads and power fail.                 *)
(***************************************************************************)
EXTENDS EasyNode, BootCliOrRun, IdAllocatorProofs, SlotOrderProofs, SequenceTheorems

\* A file of lines, whose header says a pool of P and a policy of Q.
FileWith(P, Q) == [exists : BOOLEAN, header : 0 .. 3, pool : P, policy : Q,
                   leases : Seq(Line), complete : BOOLEAN]

StoreShape(P, Q) ==
  /\ table \in [Slots -> Entry]
  /\ file \in FileWith(P, Q)
  /\ job \in {"idle", "saving", "loading"}
  /\ cursor \in 1 .. MaxEntries + 4

\* The part of the inductive invariants that does not depend on what a pool and a
\* policy are: file and table agree on the part of the call under way that is
\* done, which is what keeps the next line from naming an aid again.
InStep(P, Q) == StoreShape(P, Q) /\ UniqueAids /\ FileConsistent
-----------------------------------------------------------------------------
(* The steps of a save *)

LEMMA StartsInStep ==
  ASSUME NEW P, NEW Q, pool \in P, policy \in Q, table = EmptyTable,
         file = [Truncated EXCEPT !.exists = FALSE], job = "idle", cursor = 1
  PROVE  InStep(P, Q)
<1>1. table \in [Slots -> Entry] /\ UniqueAids
  BY SizeAssumption DEF EmptyTable, Free, Entry, Aid, UniqueAids, NoAidTwice
<1>2. file \in FileWith(P, Q) /\ file.leases = <<>>
  <2>1. Truncated \in FileWith(P, Q) /\ Truncated.leases = <<>>
    BY EmptySeq DEF Truncated, FileWith
  <2> QED  BY <2>1 DEF FileWith
<1>3. FileConsistent
  BY <1>2, SizeAssumption DEF FileConsistent, FileSound, SaveProgress, LoadProgress
<1> QED  BY <1>1, <1>2, <1>3, SizeAssumption DEF InStep, StoreShape

LEMMA BeginSaveInStep ==
  ASSUME NEW P, NEW Q, InStep(P, Q), pool \in P, policy \in Q, BeginSave
  PROVE  InStep(P, Q)'
<1>1. /\ table' = table /\ file' = Truncated /\ job' = "saving" /\ cursor' = 1
  BY DEF BeginSave, allocVars
<1>2. file' \in FileWith(P, Q) /\ file'.leases = <<>>
  BY <1>1, EmptySeq DEF Truncated, FileWith
<1>3. StoreShape(P, Q)' /\ UniqueAids'
  BY <1>1, <1>2, SizeAssumption DEF InStep, StoreShape, UniqueAids, NoAidTwice
<1>4. FileLeases' = {} /\ LeasesBelow(cursor)' = {}
  BY <1>1, <1>2 DEF FileLeases, LeasesBelow, Slots
<1>5. FileConsistent'
  BY <1>1, <1>2, <1>4, SizeAssumption
     DEF FileConsistent, FileSound, SaveProgress, LoadProgress
<1> QED  BY <1>3, <1>5 DEF InStep

LEMMA WriteHeaderInStep ==
  ASSUME NEW P, NEW Q, InStep(P, Q), WriteHeader
  PROVE  InStep(P, Q)'
<1>1. /\ file' \in FileWith(P, Q)
      /\ file'.leases = file.leases
      /\ job' = "saving" /\ job = "saving"
      /\ cursor' = cursor
      /\ table' = table
  <2>1. /\ file \in FileWith(P, Q) /\ file.header < 3
        /\ file' = [file EXCEPT !.header = file.header + 1]
    BY DEF InStep, StoreShape, WriteHeader
  <2>2. file.header + 1 \in 0 .. 3
    BY <2>1 DEF FileWith
  <2>3. file' \in FileWith(P, Q) /\ file'.leases = file.leases
    BY <2>1, <2>2 DEF FileWith
  <2> QED  BY <2>3 DEF WriteHeader, allocVars
<1>2. StoreShape(P, Q)' /\ UniqueAids'
  BY <1>1 DEF InStep, StoreShape, UniqueAids, NoAidTwice
<1>3. FileConsistent'
  BY <1>1 DEF InStep, FileConsistent, FileSound, SaveProgress, LoadProgress, FileLeases,
              LeasesBelow, LineOf
<1> QED  BY <1>2, <1>3 DEF InStep

LEMMA WriteEntryInStep ==
  ASSUME NEW P, NEW Q, InStep(P, Q), WriteEntry
  PROVE  InStep(P, Q)'
<1> DEFINE ls == file.leases
           x == LineOf(cursor)
<1>1. /\ ls \in Seq(Line)
      /\ cursor \in Slots
      /\ table \in [Slots -> Entry]
      /\ table' = table
      /\ job = "saving" /\ job' = "saving"
      /\ cursor' = cursor + 1
      /\ file' = [file EXCEPT !.leases = WithLine(ls, cursor)]
      /\ file \in FileWith(P, Q)
  BY DEF InStep, StoreShape, WriteEntry, allocVars, FileWith
<1>2. x \in Line
  BY <1>1 DEF LineOf, Line, Entry
<1>3. file'.leases = WithLine(ls, cursor) /\ file' \in FileWith(P, Q)
  <2>1. WithLine(ls, cursor) \in Seq(Line)
    BY <1>1, <1>2, AppendProperties DEF WithLine
  <2> QED  BY <1>1, <2>1 DEF FileWith
<1>4. StoreShape(P, Q)' /\ UniqueAids'
  BY <1>1, <1>3, SizeAssumption DEF InStep, StoreShape, UniqueAids, NoAidTwice, Slots
<1>5. /\ Len(ls) < cursor
      /\ Len(ls) \in Nat
      /\ FileLeases = LeasesBelow(cursor)
      /\ \A i, j \in 1 .. Len(ls) : ls[i].aid = ls[j].aid => i = j
  BY <1>1, LenProperties DEF InStep, FileConsistent, SaveProgress, FileSound
<1>6. CASE ~table[cursor].inUse
  <2>1. file'.leases = ls
    BY <1>3, <1>6 DEF WithLine
  <2>2. LeasesBelow(cursor)' = LeasesBelow(cursor)
    BY <1>1, <1>6 DEF LeasesBelow, LineOf, Slots
  <2>3. FileLeases' = FileLeases
    BY <2>1 DEF FileLeases
  <2>4. FileSound'
    BY <2>1 DEF InStep, FileConsistent, FileSound
  <2>5. SaveProgress'
    BY <1>1, <1>5, <2>1, <2>2, <2>3, SizeAssumption DEF SaveProgress, Slots
  <2> QED  BY <1>4, <1>1, <2>4, <2>5 DEF InStep, FileConsistent, LoadProgress
<1>7. CASE table[cursor].inUse
  <2>1. file'.leases = Append(ls, x)
    BY <1>3, <1>7 DEF WithLine
  <2>2. /\ Len(Append(ls, x)) = Len(ls) + 1
        /\ \A i \in 1 .. Len(ls) : Append(ls, x)[i] = ls[i]
        /\ Append(ls, x)[Len(ls) + 1] = x
    BY <1>1, <1>2, AppendProperties
  <2>3. LeasesBelow(cursor)' = LeasesBelow(cursor) \union {x}
    BY <1>1, <1>7 DEF LeasesBelow, LineOf, Slots
  <2>4. FileLeases' = FileLeases \union {x}
    BY <1>5, <2>1, <2>2 DEF FileLeases
  <2>5. \A i \in 1 .. Len(ls) : ls[i].aid # x.aid
    <3> SUFFICES ASSUME NEW i \in 1 .. Len(ls), ls[i].aid = x.aid PROVE FALSE
      OBVIOUS
    <3>1. ls[i] \in LeasesBelow(cursor)
      BY <1>5 DEF FileLeases
    <3>2. PICK r \in Slots : r < cursor /\ table[r].inUse /\ ls[i] = LineOf(r)
      BY <3>1 DEF LeasesBelow
    <3>3. table[r].aid = table[cursor].aid
      BY <3>2 DEF LineOf
    <3> QED
      BY <1>1, <1>7, <3>2, <3>3 DEF InStep, UniqueAids, NoAidTwice, Slots
  <2>6. FileSound'
    <3>1. ASSUME NEW i \in 1 .. Len(ls) + 1, NEW j \in 1 .. Len(ls) + 1,
                 Append(ls, x)[i].aid = Append(ls, x)[j].aid
          PROVE  i = j
      <4>1. CASE i \in 1 .. Len(ls) /\ j \in 1 .. Len(ls)
        <5>1. ls[i].aid = ls[j].aid
          BY <2>2, <3>1, <4>1
        <5> QED  BY <1>5, <4>1, <5>1
      <4>2. CASE i \in 1 .. Len(ls) /\ j = Len(ls) + 1
        <5>1. ls[i].aid = x.aid
          BY <2>2, <3>1, <4>2
        <5> QED  BY <2>5, <4>2, <5>1
      <4>3. CASE i = Len(ls) + 1 /\ j \in 1 .. Len(ls)
        <5>1. ls[j].aid = x.aid
          BY <2>2, <3>1, <4>3
        <5> QED  BY <2>5, <4>3, <5>1
      <4>4. CASE i = Len(ls) + 1 /\ j = Len(ls) + 1
        BY <4>4
      <4> QED  BY <1>5, <4>1, <4>2, <4>3, <4>4
    <3>2. Len(ls) + 1 <= MaxEntries
      BY <1>1, <1>5, SizeAssumption DEF Slots
    <3> QED  BY <2>1, <2>2, <3>1, <3>2 DEF FileSound
  <2>7. SaveProgress'
    BY <1>1, <1>5, <2>1, <2>2, <2>3, <2>4, SizeAssumption DEF SaveProgress, Slots
  <2> QED  BY <1>4, <1>1, <2>6, <2>7 DEF InStep, FileConsistent, LoadProgress
<1> QED  BY <1>6, <1>7

\* A call that ends, or one that is no part of a save or load.
LEMMA IdleInStep ==
  ASSUME NEW P, NEW Q, InStep(P, Q), job' = "idle", cursor' \in {1, cursor},
         table' \in [Slots -> Entry], UniqueAids',
         file' = file \/ file' = [file EXCEPT !.complete = TRUE]
  PROVE  InStep(P, Q)'
<1>1. file' \in FileWith(P, Q) /\ file'.leases = file.leases
  BY DEF InStep, StoreShape, FileWith
<1>2. StoreShape(P, Q)'
  BY <1>1, SizeAssumption DEF InStep, StoreShape
<1>3. FileConsistent'
  BY <1>1 DEF InStep, FileConsistent, FileSound, SaveProgress, LoadProgress
<1> QED  BY <1>2, <1>3 DEF InStep
-----------------------------------------------------------------------------
(* The steps of a load *)

LEMMA BeginLoadInStep ==
  ASSUME NEW P, NEW Q, InStep(P, Q), BeginLoad
  PROVE  InStep(P, Q)'
<1>1. table' = EmptyTable /\ file' = file /\ job' = "loading" /\ cursor' = 1
  BY DEF BeginLoad
<1>2. StoreShape(P, Q)' /\ UniqueAids'
  BY <1>1, SizeAssumption
     DEF InStep, StoreShape, UniqueAids, NoAidTwice, EmptyTable, Free, Entry, Aid
<1>3. FileSound' /\ SaveProgress'
  BY <1>1 DEF InStep, FileConsistent, FileSound, SaveProgress
<1>4. file.header \in Nat /\ Len(file.leases) \in Nat
  BY LenProperties DEF InStep, StoreShape, FileWith
<1>5. LoadProgress'
  BY <1>1, <1>4 DEF LoadProgress, LastLine, EmptyTable, Free, Slots
<1> QED  BY <1>2, <1>3, <1>5 DEF InStep, FileConsistent

LEMMA ReadHeaderInStep ==
  ASSUME NEW P, NEW Q, InStep(P, Q), ReadHeader
  PROVE  InStep(P, Q)'
<1>1. /\ job = "loading" /\ job' = "loading"
      /\ file' = file /\ table' = table /\ cursor' = cursor + 1
      /\ cursor <= file.header
  BY DEF ReadHeader
<1>2. file.header \in 0 .. 3 /\ Len(file.leases) \in Nat /\ cursor \in Nat
  BY LenProperties DEF InStep, StoreShape, FileWith
<1>3. StoreShape(P, Q)' /\ UniqueAids'
  BY <1>1, <1>2, SizeAssumption DEF InStep, StoreShape, UniqueAids, NoAidTwice
<1>4. FileSound' /\ SaveProgress'
  BY <1>1 DEF InStep, FileConsistent, FileSound, SaveProgress
<1>5. LoadProgress'
  BY <1>1, <1>2 DEF InStep, FileConsistent, LoadProgress, LastLine, LineOf, Slots
<1> QED  BY <1>3, <1>4, <1>5 DEF InStep, FileConsistent

LEMMA ReadLeaseInStep ==
  ASSUME NEW P, NEW Q, InStep(P, Q), ReadLease
  PROVE  InStep(P, Q)'
<1> DEFINE k == cursor - file.header
           line == file.leases[k]
           e == [inUse |-> TRUE, aid |-> line.aid, until |-> line.until]
<1>1. /\ file \in FileWith(P, Q) /\ cursor \in Nat /\ file.header \in 0 .. 3
      /\ job = "loading" /\ job' = "loading"
      /\ file' = file /\ cursor' = cursor + 1
      /\ cursor > file.header /\ cursor <= file.header + Len(file.leases)
  BY DEF InStep, StoreShape, ReadLease, FileWith, LastLine
<1>2. Len(file.leases) \in Nat /\ Len(file.leases) <= MaxEntries
  BY <1>1, LenProperties DEF FileWith, InStep, FileConsistent, FileSound
<1>3. k \in Slots /\ k \in 1 .. Len(file.leases) /\ line \in Line
  <2>1. k \in 1 .. Len(file.leases)
    BY <1>1, <1>2
  <2>2. line \in Line
    BY <1>1, <2>1, ElementOfSeq DEF FileWith
  <2> QED  BY <1>2, <2>1, <2>2, SizeAssumption DEF Slots
<1>4. /\ table \in [Slots -> Entry]
      /\ \A s \in Slots : IF s < k THEN table[s].inUse /\ LineOf(s) = file.leases[s]
                                   ELSE ~table[s].inUse
  BY <1>1 DEF InStep, FileConsistent, LoadProgress, StoreShape
<1>5. table' = [table EXCEPT ![k] = e]
  <2>1. ~table[k].inUse
    BY <1>1, <1>3, <1>4
  <2>2. PICK s \in Slots : AllocSlot(table, s) /\ table' = [table EXCEPT ![s] = e]
    BY <1>3, <2>1 DEF ReadLease
  <2>3. s <= k /\ ~table[s].inUse
    BY <1>3, <2>1, <2>2 DEF AllocSlot
  <2>4. s = k
    BY <1>1, <1>3, <1>4, <2>2, <2>3 DEF Slots
  <2> QED  BY <2>2, <2>4
<1>6. e \in Entry
  BY <1>3 DEF Entry, Line
<1>7. table' \in [Slots -> Entry]
  BY <1>3, <1>4, <1>5, <1>6
<1>8. UniqueAids'
  <2>1. line.aid \notin Leased(table)
    <3> SUFFICES ASSUME NEW s \in Slots, table[s].inUse, table[s].aid = line.aid PROVE FALSE
      BY DEF Leased
    <3>1. s < k /\ LineOf(s) = file.leases[s]
      BY <1>4
    <3>2. file.leases[s].aid = line.aid
      BY <3>1 DEF LineOf
    <3>3. s \in 1 .. Len(file.leases) /\ s # k
      BY <1>2, <1>3, <3>1 DEF Slots
    <3> HIDE DEF k
    <3> QED
      BY <1>3, <3>2, <3>3 DEF InStep, FileConsistent, FileSound
  <2>2. line.aid \in Aid /\ line.until \in Nat
    BY <1>3 DEF Line
  <2> QED
    BY <1>3, <1>4, <1>5, <2>1, <2>2, AddedUnique DEF InStep, UniqueAids
<1>9. StoreShape(P, Q)'
  BY <1>1, <1>2, <1>7, SizeAssumption DEF StoreShape
<1>10. FileSound' /\ SaveProgress'
  BY <1>1 DEF InStep, FileConsistent, FileSound, SaveProgress
<1>11. LoadProgress'
  <2>1. cursor' <= file.header + Len(file.leases) + 1
    BY <1>1, <1>2
  <2>2. ASSUME NEW s \in Slots
        PROVE  IF s < k + 1 THEN table'[s].inUse /\ LineOf(s)' = file.leases[s]
                            ELSE ~table'[s].inUse
    <3>1. CASE s = k
      <4>1. table'[s] = e
        BY <1>3, <1>4, <1>5, <3>1
      <4>2. LineOf(s)' = line
        BY <1>3, <4>1 DEF LineOf, Line
      <4> QED  BY <1>1, <3>1, <4>1, <4>2 DEF Slots
    <3>2. CASE s # k
      <4>1. table'[s] = table[s]
        BY <1>4, <1>5, <3>2
      <4> QED  BY <1>1, <1>3, <1>4, <3>2, <4>1 DEF LineOf, Slots
    <3> QED  BY <3>1, <3>2
  <2>3. cursor' - file'.header = k + 1
    BY <1>1
  <2> QED  BY <1>1, <2>1, <2>2, <2>3 DEF LoadProgress, LastLine
<1> QED  BY <1>8, <1>9, <1>10, <1>11 DEF InStep, FileConsistent
\* Every step of a save or load, and every other call the allocator's table
\* comes out of without an aid twice.
LEMMA StaysInStep ==
  ASSUME NEW P, NEW Q, InStep(P, Q), pool \in P, policy \in Q,
         \/ BeginSave \/ WriteHeader \/ WriteEntry \/ EndSave \/ AbortSave
         \/ BeginLoad \/ ReadHeader \/ ReadLease \/ EndLoad \/ AbortLoad
         \/ /\ job' = "idle" /\ cursor' \in {1, cursor} /\ file' = file
            /\ table' \in [Slots -> Entry] /\ UniqueAids'
  PROVE  InStep(P, Q)'
<1>1. ASSUME table' = table PROVE table' \in [Slots -> Entry] /\ UniqueAids'
  BY <1>1 DEF InStep, StoreShape, UniqueAids, NoAidTwice
<1>2. CASE EndSave \/ AbortSave \/ EndLoad \/ AbortLoad
  <2>1. /\ table' = table /\ job' = "idle" /\ cursor' = 1
        /\ file' = file \/ file' = [file EXCEPT !.complete = TRUE]
    BY <1>2 DEF EndSave, AbortSave, EndLoad, AbortLoad, allocVars
  <2> QED  BY <1>1, <2>1, IdleInStep
<1> QED
  BY <1>2, BeginSaveInStep, WriteHeaderInStep, WriteEntryInStep, BeginLoadInStep,
     ReadHeaderInStep, ReadLeaseInStep, IdleInStep
-----------------------------------------------------------------------------
(* The allocator with its file *)

\* What the header lines a load has read so far have set.
HeaderProgress ==
  job = "loading" =>
    /\ cursor > 1 /\ file.header >= 1 => pool = file.pool
    /\ cursor > 2 /\ file.header >= 2 =>
         /\ policy.min = file.policy.min
         /\ policy.threshold = file.policy.threshold
         /\ policy.rateFactor = file.policy.rateFactor
         /\ policy.adaptive = file.policy.adaptive
    /\ cursor > 3 /\ file.header = 3 /\ file.policy.min <= file.policy.max
         => policy = file.policy

\* The inductive invariant.
StoreInv == StoreTypeOK /\ UniqueAids /\ FileConsistent /\ HeaderProgress

\* A legal policy comes out of osfx_id_set_policy_ex unchanged, provided its
\* maximum is not below its minimum.
LEMMA NormalisedLegal ==
  ASSUME NEW q \in PolicyType, q.min <= q.max
  PROVE  Normalised(q) = q
BY DEF Normalised, AtLeastOne, Fraction, PolicyType, Positive

LEMMA InitStoreInv == StoreInit => StoreInv
<1> SUFFICES ASSUME StoreInit PROVE StoreInv
  OBVIOUS
<1>1. TypeOK /\ job = "idle" /\ table = EmptyTable
  BY InitTypeOK DEF StoreInit, Init
<1>2. InStep(PoolType, PolicyType)
  BY <1>1, StartsInStep DEF StoreInit, TypeOK
<1> QED
  BY <1>1, <1>2
     DEF StoreInv, StoreTypeOK, InStep, StoreShape, FileWith, FileType, HeaderProgress

\* A step of a save leaves the allocator alone.
LEMMA SaveStepTypes ==
  ASSUME StoreInv,
         \/ BeginSave \/ WriteHeader \/ WriteEntry \/ EndSave \/ AbortSave
         \/ EndLoad \/ AbortLoad
  PROVE  TypeOK' /\ HeaderProgress'
BY DEF StoreInv, StoreTypeOK, TypeOK, HeaderProgress, BeginSave, WriteHeader, WriteEntry,
       EndSave, AbortSave, EndLoad, AbortLoad, allocVars

LEMMA LoadStepTypes ==
  ASSUME StoreInv, BeginLoad \/ ReadLease, InStep(PoolType, PolicyType)'
  PROVE  TypeOK' /\ HeaderProgress'
<1>1. file.header \in 0 .. 3 /\ cursor \in Nat
  BY DEF StoreInv, StoreTypeOK, FileType
<1> QED
  BY <1>1 DEF StoreInv, StoreTypeOK, TypeOK, HeaderProgress, BeginLoad, ReadLease, InStep,
              StoreShape

LEMMA ReadHeaderTypes ==
  ASSUME StoreInv, ReadHeader
  PROVE  TypeOK' /\ HeaderProgress'
<1>1. /\ TypeOK /\ file \in FileType /\ cursor \in Nat
      /\ job = "loading" /\ job' = "loading"
      /\ file' = file /\ table' = table /\ cursor' = cursor + 1
      /\ cursor <= file.header /\ file.header \in 0 .. 3
      /\ UNCHANGED <<windowStart, recent, clock>>
  <2>1. TypeOK /\ file \in FileType /\ cursor \in Nat
    BY DEF StoreInv, StoreTypeOK
  <2>2. file.header \in 0 .. 3
    BY <2>1 DEF FileType
  <2>3. /\ job = "loading" /\ job' = "loading"
        /\ file' = file /\ table' = table /\ cursor' = cursor + 1
        /\ cursor <= file.header
        /\ UNCHANGED <<windowStart, recent, clock>>
    BY DEF ReadHeader
  <2> QED  BY <2>1, <2>2, <2>3
<1>2. /\ file.pool \in PoolType /\ file.policy \in PolicyType /\ file.policy \in PolicyArgs
  BY <1>1, PolicyIsArgs DEF FileType
<1>3. /\ PolicyFromShortLine \in PolicyType
      /\ PolicyFromShortLine.min = file.policy.min
      /\ PolicyFromShortLine.threshold = file.policy.threshold
      /\ PolicyFromShortLine.rateFactor = file.policy.rateFactor
      /\ PolicyFromShortLine.adaptive = file.policy.adaptive
  <2>1. ShortForm(file.policy) \in PolicyArgs
    BY <1>1, <1>2, ShortFormType, TypedIsLooselyTyped DEF LooselyTyped
  <2>2. PolicyFromShortLine \in PolicyType
    BY <2>1, NormalisedType DEF PolicyFromShortLine
  <2> DEFINE q == ShortForm(file.policy)
  <2>3. /\ q.min = file.policy.min /\ q.threshold = file.policy.threshold
        /\ q.rateFactor = file.policy.rateFactor /\ q.adaptive = file.policy.adaptive
    BY DEF ShortForm
  <2>4. /\ file.policy.min > 0 /\ file.policy.threshold > 0
        /\ file.policy.rateFactor > 0 /\ file.policy.rateFactor <= 100
    BY <1>2 DEF PolicyType, Positive
  <2>5. /\ Normalised(q).min = AtLeastOne(q.min)
        /\ Normalised(q).threshold = AtLeastOne(q.threshold)
        /\ Normalised(q).rateFactor = Fraction(q.rateFactor, 20)
        /\ Normalised(q).adaptive = q.adaptive
    BY DEF Normalised
  <2> HIDE DEF q
  <2>6. /\ Normalised(q).min = file.policy.min
        /\ Normalised(q).threshold = file.policy.threshold
        /\ Normalised(q).rateFactor = file.policy.rateFactor
        /\ Normalised(q).adaptive = file.policy.adaptive
    BY <2>3, <2>4, <2>5 DEF AtLeastOne, Fraction
  <2> QED
    BY <2>2, <2>6 DEF PolicyFromShortLine, q
<1>4. PolicyFromLongLine \in PolicyType
  <2>1. LongForm(file.policy) \in PolicyArgs
    BY <1>1, <1>2 DEF LongForm, TypeOK, PolicyType, PolicyArgs, Positive
  <2> QED  BY <2>1, NormalisedType DEF PolicyFromLongLine
<1>5. pool' \in PoolType /\ policy' \in PolicyType
  BY <1>1, <1>2, <1>3, <1>4 DEF ReadHeader, TypeOK
<1>6. TypeOK'
  BY <1>1, <1>5 DEF TypeOK
<1>7. HeaderProgress'
  <2>1. CASE cursor = 1
    BY <1>1, <2>1 DEF ReadHeader, StoreInv, HeaderProgress
  <2>2. CASE cursor = 2
    BY <1>1, <1>3, <2>2 DEF ReadHeader, StoreInv, HeaderProgress
  <2>3. CASE cursor = 3
    <3>1. policy' = Normalised(LongForm(file.policy)) /\ pool' = pool
      BY <2>3 DEF ReadHeader, PolicyFromLongLine
    <3>2. LongForm(file.policy) = file.policy
      <4>1. /\ policy.min = file.policy.min
            /\ policy.threshold = file.policy.threshold
            /\ policy.rateFactor = file.policy.rateFactor
            /\ policy.adaptive = file.policy.adaptive
        BY <1>1, <2>3 DEF StoreInv, HeaderProgress
      <4> QED  BY <1>2, <4>1 DEF LongForm, PolicyType
    <3>3. file.policy.min <= file.policy.max => policy' = file.policy
      BY <1>2, <3>1, <3>2, NormalisedLegal
    <3>4. /\ policy'.min = file.policy.min
          /\ policy'.threshold = file.policy.threshold
          /\ policy'.rateFactor = file.policy.rateFactor
          /\ policy'.adaptive = file.policy.adaptive
      BY <1>2, <3>1, <3>2
         DEF Normalised, AtLeastOne, Fraction, PolicyType, Positive
    <3> QED  BY <1>1, <2>3, <3>1, <3>3, <3>4 DEF StoreInv, HeaderProgress
  <2> QED  BY <2>1, <2>2, <2>3 DEF ReadHeader
<1> QED  BY <1>6, <1>7

\* The allocator's own steps, and the restart, find no save or load under way.
LEMMA OtherStepTypes ==
  ASSUME StoreInv, AllocatorStep \/ \E p \in Pools : Restart(p)
  PROVE  /\ TypeOK' /\ HeaderProgress' /\ UniqueAids'
         /\ job' = "idle" /\ cursor' \in {1, cursor} /\ file' = file
<1>1. Next /\ job' = "idle" /\ cursor' \in {1, cursor} /\ file' = file
  BY DEF AllocatorStep, Restart, storeVars, Next
<1> QED
  BY <1>1, StepTypeOK, StepUnique, TypedIsLooselyTyped DEF StoreInv, StoreTypeOK, HeaderProgress

LEMMA StoreInStep == StoreInv => InStep(PoolType, PolicyType)
BY DEF StoreInv, StoreTypeOK, TypeOK, InStep, StoreShape, FileWith, FileType

LEMMA StepStoreInv == StoreInv /\ [StoreNext]_vars => StoreInv'
<1> SUFFICES ASSUME StoreInv, [StoreNext]_vars PROVE StoreInv'
  OBVIOUS
<1>1. CASE UNCHANGED vars
  BY <1>1 DEF vars, StoreInv, StoreTypeOK, TypeOK, UniqueAids, NoAidTwice, FileConsistent,
              FileSound, SaveProgress, LoadProgress, HeaderProgress, FileLeases,
              LeasesBelow, LineOf, LastLine
<1>2. CASE StoreNext
  <2>1. InStep(PoolType, PolicyType) /\ pool \in PoolType /\ policy \in PolicyType
    BY StoreInStep DEF StoreInv, StoreTypeOK, TypeOK
  <2>2. InStep(PoolType, PolicyType)'
    <3>1. CASE AllocatorStep \/ \E p \in Pools : Restart(p)
      BY <2>1, <3>1, OtherStepTypes, StaysInStep DEF TypeOK
    <3> QED  BY <1>2, <2>1, <3>1, StaysInStep DEF StoreNext
  <2>3. TypeOK' /\ HeaderProgress'
    BY <1>2, <2>2, SaveStepTypes, LoadStepTypes, ReadHeaderTypes, OtherStepTypes DEF StoreNext
  <2> QED
    BY <2>2, <2>3 DEF StoreInv, StoreTypeOK, InStep, StoreShape, FileWith, FileType
<1> QED  BY <1>1, <1>2

LEMMA StoreInvariant == StoreSpec => []StoreInv
BY InitStoreInv, StepStoreInv, PTL DEF StoreSpec

\* Types, through saves, loads and restarts.
THEOREM StoreTypeCorrect == StoreSpec => []StoreTypeOK
<1>1. StoreInv => StoreTypeOK
  BY DEF StoreInv
<1> QED  BY <1>1, StoreInvariant, PTL

\* No aid is held by two entries, whatever save or load a restart or a failing
\* storage cuts short.
THEOREM AidsAreUniqueAcrossRestarts == StoreSpec => []UniqueAids
<1>1. StoreInv => UniqueAids
  BY DEF StoreInv
<1> QED  BY <1>1, StoreInvariant, PTL

\* No file names an aid twice, and table and file agree on the part of the call
\* under way that is done.
THEOREM FilesAreConsistent == StoreSpec => []FileConsistent
<1>1. StoreInv => FileConsistent
  BY DEF StoreInv
<1> QED  BY <1>1, StoreInvariant, PTL
-----------------------------------------------------------------------------
(* What a finished save and a finished load achieve *)

\* At the end of a save the file holds the leases of the table; a save cut short
\* has written some of them and nothing else.
LEMMA SaveFaithful ==
  ASSUME NEW P, NEW Q, InStep(P, Q)
  PROVE  /\ EndSave => FileLeases = TableLeases
         /\ AbortSave => FileLeases \subseteq TableLeases
<1>1. EndSave => FileLeases = TableLeases
  BY DEF InStep, FileConsistent, SaveProgress, TableLeases, EndSave
<1>2. AbortSave => FileLeases \subseteq TableLeases
  BY SizeAssumption
     DEF InStep, StoreShape, FileConsistent, SaveProgress, TableLeases, LeasesBelow,
         AbortSave, Slots
<1> QED  BY <1>1, <1>2

\* Whatever other saves were cut off before it, a save that ends has written the
\* whole table, and one that is cut off has written nothing the table lacks.
THEOREM SavesAreFaithful == StoreSpec => SaveIsFaithful
<1>1. StoreInv /\ [StoreNext]_vars =>
        [/\ EndSave => FileLeases = TableLeases
         /\ AbortSave => FileLeases \subseteq TableLeases]_vars
  BY StoreInStep, SaveFaithful
<1> QED  BY <1>1, StoreInvariant, PTL DEF StoreSpec, SaveIsFaithful

\* At the end of a load the table holds the leases of the file, ...
LEMMA LeasesLoaded ==
  ASSUME NEW P, NEW Q, InStep(P, Q), EndLoad
  PROVE  TableLeases = FileLeases
<1> DEFINE n == Len(file.leases)
<1>1. /\ n \in Nat /\ n <= MaxEntries
      /\ file.header \in 0 .. 3 /\ cursor = file.header + n + 1 /\ job = "loading"
  BY LenProperties
     DEF InStep, StoreShape, FileWith, FileConsistent, FileSound, EndLoad, LastLine
<1>2. \A s \in Slots : IF s < n + 1 THEN table[s].inUse /\ LineOf(s) = file.leases[s]
                                    ELSE ~table[s].inUse
  <2>1. cursor - file.header = n + 1
    BY <1>1
  <2> QED  BY <1>1, <2>1 DEF InStep, FileConsistent, LoadProgress
<1>3. \A s \in Slots : s < MaxEntries + 1
  BY SizeAssumption DEF Slots
<1>4. TableLeases \subseteq FileLeases
  <2> SUFFICES ASSUME NEW s \in Slots, table[s].inUse PROVE LineOf(s) \in FileLeases
    BY DEF TableLeases, LeasesBelow
  <2>1. s \in 1 .. n /\ LineOf(s) = file.leases[s]
    BY <1>1, <1>2 DEF Slots
  <2> QED  BY <2>1 DEF FileLeases
<1>5. FileLeases \subseteq TableLeases
  <2> SUFFICES ASSUME NEW i \in 1 .. n PROVE file.leases[i] \in TableLeases
    BY DEF FileLeases
  <2>1. i \in Slots /\ i < n + 1
    BY <1>1, SizeAssumption DEF Slots
  <2>2. table[i].inUse /\ LineOf(i) = file.leases[i]
    BY <1>2, <2>1
  <2> QED  BY <1>3, <2>1, <2>2 DEF TableLeases, LeasesBelow
<1> QED  BY <1>4, <1>5

\* ... and the pool and the policy are the file's.
LEMMA LoadFaithful ==
  ASSUME StoreInv, EndLoad
  PROVE  /\ TableLeases = FileLeases
         /\ file.header >= 1 => pool = file.pool
         /\ file.header = 3 /\ file.policy.min <= file.policy.max => policy = file.policy
<1>1. TableLeases = FileLeases
  BY StoreInStep, LeasesLoaded
<1>2. file.header \in 0 .. 3 /\ cursor = LastLine + 1 /\ job = "loading" /\ Len(file.leases) \in Nat
  BY LenProperties DEF StoreInv, StoreTypeOK, FileType, EndLoad
<1>3. /\ file.header >= 1 => pool = file.pool
      /\ file.header = 3 /\ file.policy.min <= file.policy.max => policy = file.policy
  BY <1>2 DEF StoreInv, HeaderProgress, LastLine
<1> QED  BY <1>1, <1>3

\* A load that runs to its end brings back exactly what the file says.
THEOREM LoadsRestore == StoreSpec => LoadRestores
<1>1. StoreInv /\ [StoreNext]_vars =>
        [EndLoad =>
           /\ TableLeases = FileLeases
           /\ file.header >= 1 => pool = file.pool
           /\ file.header = 3 /\ file.policy.min <= file.policy.max
                => policy = file.policy]_vars
  BY LoadFaithful
<1> QED  BY <1>1, StoreInvariant, PTL DEF StoreSpec, LoadRestores
-----------------------------------------------------------------------------
(* The device context.  Its memory starts cleared, so neither the pool nor   *)
(* the policy need be what osfx_id_allocator_init makes of them; but a pool  *)
(* it has, or can read from its file, is never inverted.                     *)

UsablePool == {p \in PoolArgs : p.start <= p.end}

\* The inductive invariant.
EasyInv ==
  /\ EasyTypeOK
  /\ LooselyTyped
  /\ pool \in UsablePool
  /\ InStep(UsablePool, PolicyArgs)

\* No aid loses its lease before it has run out.
Keeps == \A a \in Aid : LeaseLive(a) => a \in Leased(table')

LEMMA ClearedIs ==
  /\ ZeroPool \in UsablePool
  /\ ZeroPolicy \in PolicyArgs
  /\ EmptyTable \in [Slots -> Entry] /\ NoAidTwice(EmptyTable)
BY SizeAssumption
   DEF ZeroPool, UsablePool, PoolArgs, Aid, ZeroPolicy, PolicyArgs, EmptyTable, Free, Entry,
       NoAidTwice

LEMMA InitEasyInv == EasyInit => EasyInv
<1> SUFFICES ASSUME EasyInit PROVE EasyInv
  OBVIOUS
<1>1. pool \in UsablePool /\ policy \in PolicyArgs /\ table = EmptyTable /\ 0 \in Aid
  BY ClearedIs, SizeAssumption DEF EasyInit, Aid
<1>2. LooselyTyped
  BY <1>1, ClearedIs DEF EasyInit, LooselyTyped, UsablePool
<1>3. EasyTypeOK
  BY <1>1 DEF EasyInit, EasyTypeOK, UsablePool, PoolArgs
<1>4. InStep(UsablePool, PolicyArgs)
  BY <1>1, StartsInStep DEF EasyInit
<1> QED  BY <1>1, <1>2, <1>3, <1>4 DEF EasyInv
-----------------------------------------------------------------------------
(* The allocator's table under the calls of the context *)

LEMMA UnchangedKeeps ==
  ASSUME UNCHANGED table
  PROVE  Keeps
BY DEF Keeps, LeaseLive, Holds, Leased

\* The clean-up spares the leases that run.
LEMMA CleanedSpares ==
  ASSUME NEW a \in Aid, NEW s \in Slots, Holds(table, s, a), ~(clock > table[s].until)
  PROVE  Cleaned(table)[s] = table[s] /\ a \in Leased(Cleaned(table))
BY DEF Cleaned, Holds, Leased

LEMMA GrantKeeps ==
  ASSUME LooselyTyped, NEW a \in Aid, NEW s \in Slots, Grant(a, s)
  PROVE  Keeps
<1> DEFINE e == [inUse |-> TRUE, aid |-> a, until |-> clock + LeaseSeconds(Cleaned(table))]
           t == Cleaned(table)
<1>1. table' = [t EXCEPT ![s] = e] /\ ~t[s].inUse
  BY DEF Grant, AllocSlot
<1>2. t \in [Slots -> Entry]
  BY CleanedEntries DEF LooselyTyped
<1>3. ASSUME NEW b \in Aid, NEW r \in Slots, Holds(table, r, b), ~(clock > table[r].until)
      PROVE  b \in Leased(table')
  <2>1. t[r] = table[r]
    BY <1>3, CleanedSpares
  <2> HIDE DEF t, e
  <2>2. r # s
    BY <1>1, <1>3, <2>1 DEF Holds
  <2>3. table'[r] = table[r]
    BY <1>1, <1>2, <2>1, <2>2
  <2> QED  BY <1>3, <2>3 DEF Holds, Leased
<1> QED  BY <1>3 DEF Keeps, LeaseLive

LEMMA TouchKeeps ==
  ASSUME LooselyTyped, NEW a, NEW s \in Slots, Touch(a, s)
  PROVE  Keeps
<1>1. \A r \in Slots : table'[r].inUse = table[r].inUse /\ table'[r].aid = table[r].aid
  BY DEF Touch, LooselyTyped, Entry
<1> QED  BY <1>1 DEF Keeps, LeaseLive, Holds, Leased

LEMMA ReadLeaseKeeps ==
  ASSUME LooselyTyped, ReadLease
  PROVE  Keeps
<1>1. \A r \in Slots : table[r].inUse => table'[r] = table[r]
  BY DEF ReadLease, AllocSlot, LooselyTyped
<1> QED  BY <1>1 DEF Keeps, LeaseLive, Holds, Leased
-----------------------------------------------------------------------------
(* The steps of the context *)

\* The steps that give the device a new pool and an empty table.
LEMMA ClearedInv ==
  ASSUME EasyInv, EasyTypeOK', table' = EmptyTable, pool' \in UsablePool,
         policy' \in PolicyArgs, windowStart' = 0, recent' = 0,
         job' = "idle", cursor' \in {1, cursor}, UNCHANGED <<clock, file>>
  PROVE  EasyInv'
<1>1. table' \in [Slots -> Entry] /\ UniqueAids'
  BY ClearedIs DEF UniqueAids
<1>2. LooselyTyped'
  BY <1>1 DEF EasyInv, LooselyTyped, UsablePool
<1>3. InStep(UsablePool, PolicyArgs)'
  BY <1>1, StaysInStep DEF EasyInv, LooselyTyped
<1> QED  BY <1>2, <1>3 DEF EasyInv

LEMMA BootInv == EasyInv /\ Boot => EasyInv'
<1> SUFFICES ASSUME EasyInv, Boot PROVE EasyInv'
  OBVIOUS
<1>1. pool' \in UsablePool /\ policy' \in PolicyArgs /\ 0 \in Aid
  BY ClearedIs, SizeAssumption DEF Boot, Aid
<1>2. EasyTypeOK'
  BY <1>1 DEF EasyInv, EasyTypeOK, UsablePool, PoolArgs, Boot
<1> QED  BY <1>1, <1>2, ClearedInv DEF Boot

LEMMA InitIdsInv ==
  ASSUME EasyInv, NEW p \in Pools, InitIds(p)
  PROVE  EasyInv'
<1>1. p \in PoolArgs /\ PoolOf(p) \in PoolType /\ InitPolicy(p) \in PolicyArgs
  BY InitialPoolType, ArgumentAssumption, PolicyIsArgs
<1>2. PoolOf(p) \in PoolArgs /\ PoolOf(p).start = p.start /\ PoolOf(p).end = p.end
  BY <1>1 DEF PoolType, Positive, PoolOf, PoolArgs
<1>3. pool' \in UsablePool /\ policy' \in PolicyArgs /\ job' = "idle"
  BY <1>1, <1>2 DEF InitIds, Reinitialise, UsablePool, storeVars
<1>4. EasyTypeOK'
  BY <1>3 DEF EasyInv, EasyTypeOK, UsablePool, PoolArgs, InitIds, storeVars
<1> QED  BY <1>3, <1>4, ClearedInv DEF InitIds, Reinitialise, storeVars

\* The context's own fields, which only these steps change.
LEMMA NodeTypes ==
  ASSUME EasyInv, pool' \in UsablePool, job' \in {"idle", "saving", "loading"},
         promised' \subseteq Line, onFile' \subseteq Line,
         \/ \E a \in Aid : SetAid(a)
         \/ \E a \in Aid, s \in Slots : AllocateAid(a, s)
         \/ LoadIdsDone
         \/ UNCHANGED <<nodeVars, lastAid>>
  PROVE  EasyTypeOK'
<1>1. pool' \in [start : Aid, end : Aid, lease : Nat] /\ 0 \in Aid
  BY SizeAssumption DEF UsablePool, PoolArgs, Aid
<1>2. /\ aid \in Aid /\ aidReady \in BOOLEAN /\ allocReady \in BOOLEAN
      /\ lastAid \in Aid \cup {NoAid} /\ (aidReady => aid = lastAid)
  BY DEF EasyInv, EasyTypeOK
<1>3. /\ aid' \in Aid /\ aidReady' \in BOOLEAN /\ allocReady' \in BOOLEAN
      /\ lastAid' \in Aid \cup {NoAid} /\ (aidReady' => aid' = lastAid')
  <2>1. CASE \E a \in Aid : SetAid(a)
    BY <1>2, <2>1 DEF SetAid
  <2>2. CASE \E a \in Aid, s \in Slots : AllocateAid(a, s)
    BY <1>2, <2>2 DEF AllocateAid
  <2>3. CASE LoadIdsDone
    BY <1>1, <1>2, <2>3 DEF LoadIdsDone
  <2>4. CASE UNCHANGED <<nodeVars, lastAid>>
    BY <1>2, <2>4 DEF nodeVars
  <2> QED  BY <2>1, <2>2, <2>3, <2>4
<1> QED  BY <1>1, <1>3 DEF EasyTypeOK

\* A promise is made of what the table has.
LEMMA PromiseTyped ==
  ASSUME EasyInv, NEW a \in Aid, NEW s \in Slots, Promise(a, s), table' \in [Slots -> Entry]
  PROVE  promised' \subseteq Line
<1>1. table'[s].until \in Nat
  BY DEF Entry
<1> QED  BY <1>1 DEF EasyInv, EasyTypeOK, Promise, Line

\* The allocator's steps, and the ones that leave the allocator alone.
LEMMA OperationInv ==
  ASSUME EasyInv,
         \/ \E a \in Aid : SetAid(a)
         \/ \E a \in Aid, s \in Slots : AllocateAid(a, s)
         \/ AllocateRefused
         \/ \E s \in Slots : TouchAid(s)
         \/ Time
  PROVE  EasyInv' /\ Keeps
<1>1. LooselyTyped /\ UniqueAids /\ aid \in Aid
  BY DEF EasyInv, EasyTypeOK, InStep
<1>2. /\ [Next]_allocVars /\ UNCHANGED pool
      /\ job' = "idle" /\ UNCHANGED <<cursor, file>>
  BY <1>1 DEF SetAid, AllocateAid, AllocateRefused, TouchAid, Time, Next, vars, storeVars,
              allocVars, Grant, Refuse, Touch, Tick
<1>3. LooselyTyped' /\ UniqueAids'
  BY <1>1, <1>2, StepLooselyTyped, StepUnique
<1>4. InStep(UsablePool, PolicyArgs)'
  BY <1>2, <1>3, StaysInStep DEF EasyInv, LooselyTyped
<1>p. promised' \subseteq Line /\ onFile' \subseteq Line
  <2>1. promised \subseteq Line /\ onFile \subseteq Line /\ table' \in [Slots -> Entry]
    BY <1>3 DEF EasyInv, EasyTypeOK, LooselyTyped
  <2>2. CASE UNCHANGED promises
    BY <2>1, <2>2 DEF promises
  <2>3. ASSUME NEW a \in Aid, NEW s \in Slots, Promise(a, s), UNCHANGED onFile PROVE <1>p
    BY <2>1, <2>3, PromiseTyped
  <2> QED  BY <1>1, <2>2, <2>3 DEF SetAid, AllocateAid, AllocateRefused, TouchAid, Time
<1>5. EasyTypeOK'
  BY <1>2, <1>p, NodeTypes DEF AllocateRefused, TouchAid, Time, EasyInv
<1>6. Keeps
  <2>1. CASE \E a \in Aid : SetAid(a)
    BY <2>1, UnchangedKeeps DEF SetAid, vars
  <2>2. CASE \E a \in Aid, s \in Slots : AllocateAid(a, s)
    BY <1>1, <2>2, GrantKeeps DEF AllocateAid
  <2>3. CASE AllocateRefused
    BY <2>3, CleanedSpares DEF AllocateRefused, Refuse, Keeps, LeaseLive
  <2>4. CASE \E s \in Slots : TouchAid(s)
    BY <1>1, <2>4, TouchKeeps DEF TouchAid
  <2>5. CASE Time
    BY <2>5, UnchangedKeeps DEF Time, Tick
  <2> QED  BY <2>1, <2>2, <2>3, <2>4, <2>5
<1> QED  BY <1>2, <1>3, <1>4, <1>5, <1>6 DEF EasyInv

LEMMA SaveIdsInv == EasyInv /\ SaveIds => EasyInv' /\ Keeps
<1> SUFFICES ASSUME EasyInv, SaveIds PROVE EasyInv' /\ Keeps
  OBVIOUS
<1>1. /\ UNCHANGED allocVars /\ UNCHANGED <<nodeVars, lastAid>>
      /\ job' \in {"idle", "saving"}
      /\ promised' \subseteq Line /\ onFile' \subseteq Line
  BY DEF EasyInv, EasyTypeOK, SaveIds, BeginSave, WriteHeader, WriteEntry, EndSave, AbortSave
<1>2. LooselyTyped' /\ pool' \in UsablePool
  BY <1>1 DEF EasyInv, LooselyTyped, allocVars
<1>3. InStep(UsablePool, PolicyArgs)'
  BY StaysInStep DEF EasyInv, LooselyTyped, SaveIds
<1>4. EasyTypeOK'
  BY <1>1, <1>2, NodeTypes
<1>5. Keeps
  BY <1>1, UnchangedKeeps DEF allocVars
<1> QED  BY <1>2, <1>3, <1>4, <1>5 DEF EasyInv

LEMMA LoadIdsInv == EasyInv /\ (LoadIds \/ LoadIdsDone) => EasyInv' /\ (Keeps \/ BeginLoad)
<1> SUFFICES ASSUME EasyInv, LoadIds \/ LoadIdsDone PROVE EasyInv' /\ (Keeps \/ BeginLoad)
  OBVIOUS
<1>1. /\ UNCHANGED <<windowStart, recent, clock>> /\ job' \in {"idle", "loading"}
      /\ pool' = pool \/ pool' = file.pool
      /\ policy' \in {policy, PolicyFromShortLine, PolicyFromLongLine}
  BY DEF LoadIds, LoadIdsDone, BeginLoad, ReadHeader, ReadLease, AbortLoad, EndLoad, allocVars
<1>2. file.pool \in UsablePool /\ file.policy \in PolicyArgs
  BY DEF EasyInv, InStep, StoreShape, FileWith
<1>3. policy' \in PolicyArgs /\ pool' \in UsablePool
  <2>1. policy \in PolicyArgs /\ pool \in PoolArgs /\ pool \in UsablePool
    BY DEF EasyInv, LooselyTyped
  <2>2. ShortForm(file.policy) \in PolicyArgs
    BY <1>2, <2>1, ShortFormType
  <2>3. LongForm(file.policy) \in PolicyArgs
    BY <1>2, <2>1 DEF LongForm, PolicyArgs
  <2> QED
    BY <1>1, <1>2, <2>1, <2>2, <2>3, NormalisedType, PolicyIsArgs
       DEF PolicyFromShortLine, PolicyFromLongLine
<1>4. InStep(UsablePool, PolicyArgs)'
  BY StaysInStep DEF EasyInv, LooselyTyped, LoadIds, LoadIdsDone
<1>5. LooselyTyped'
  BY <1>1, <1>3, <1>4 DEF EasyInv, LooselyTyped, InStep, StoreShape, UsablePool
<1>p. promised' \subseteq Line /\ onFile' \subseteq Line
  BY DEF EasyInv, EasyTypeOK, LoadIds, LoadIdsDone
<1>6. EasyTypeOK'
  BY <1>1, <1>3, <1>p, NodeTypes DEF LoadIds
<1>7. Keeps \/ BeginLoad
  <2>1. CASE ReadLease
    BY <2>1, ReadLeaseKeeps DEF EasyInv
  <2>2. CASE ReadHeader \/ AbortLoad \/ EndLoad
    BY <2>2, UnchangedKeeps DEF ReadHeader, AbortLoad, EndLoad, allocVars
  <2> QED  BY <2>1, <2>2 DEF LoadIds, LoadIdsDone
<1> QED  BY <1>3, <1>4, <1>5, <1>6, <1>7 DEF EasyInv

LEMMA EasyStutter == EasyInv /\ UNCHANGED easyVars => EasyInv' /\ Keeps
BY UnchangedKeeps
   DEF EasyInv, easyVars, nodeVars, promises, vars, EasyTypeOK, LooselyTyped, InStep, StoreShape,
       UniqueAids, NoAidTwice, FileConsistent, FileSound, SaveProgress, LoadProgress,
       FileLeases, LeasesBelow, LineOf, LastLine

LEMMA EasyStepInv ==
  ASSUME EasyInv, [EasyNext]_easyVars
  PROVE  EasyInv' /\ (Keeps \/ BeginLoad \/ Boot \/ \E p \in Pools : InitIds(p))
<1>1. CASE Boot
  BY <1>1, BootInv
<1>2. CASE \E p \in Pools : InitIds(p)
  BY <1>2, InitIdsInv
<1>3. CASE SaveIds
  BY <1>3, SaveIdsInv
<1>4. CASE LoadIds \/ LoadIdsDone
  BY <1>4, LoadIdsInv
<1> QED  BY <1>1, <1>2, <1>3, <1>4, OperationInv, EasyStutter DEF EasyNext

LEMMA EasyInvHolds == EasySpec => []EasyInv
BY InitEasyInv, EasyStepInv, PTL DEF EasySpec

\* The context keeps its types, and an aid that is ready is the one the device
\* was last given.
THEOREM EasyTypeCorrect == EasySpec => []EasyTypeOK
<1>1. EasyInv => EasyTypeOK
  BY DEF EasyInv
<1> QED  BY <1>1, EasyInvHolds, PTL

\* No file, however it was cut short, makes an allocator with an empty pool ready.
THEOREM ReadyPoolsAreNotEmpty == EasySpec => []ReadyPoolNotEmpty
<1>1. EasyInv => ReadyPoolNotEmpty
  BY DEF EasyInv, UsablePool, ReadyPoolNotEmpty
<1> QED  BY <1>1, EasyInvHolds, PTL

\* A lease that runs is lost only to a boot, a new range or a load.
THEOREM LeasesAreKept == EasySpec => LeaseKept
<1>1. EasyInv /\ [EasyNext]_easyVars =>
        [\A a \in Aid :
           LeaseLive(a) /\ a \notin Leased(table')
             => BeginLoad \/ Boot \/ \E p \in Pools : InitIds(p)]_easyVars
  BY EasyStepInv DEF Keeps
<1> QED  BY <1>1, EasyInvHolds, PTL DEF EasySpec, LeaseKept

\* The device never has two leases for one aid in its table, and the file it
\* keeps never names an aid twice: whatever save, load or boot cuts another
\* short, and though the context starts with memory that was never initialised.
THEOREM DeviceFilesAreConsistent == EasySpec => [](UniqueAids /\ FileConsistent)
<1>1. EasyInv => UniqueAids /\ FileConsistent
  BY DEF EasyInv, InStep
<1> QED  BY <1>1, EasyInvHolds, PTL

\* A save the context reports as done has written every lease of its table, and
\* one it does not has not made up any.
THEOREM DeviceSavesAreFaithful == EasySpec => SaveIsFaithful
<1>1. EasyInv =>
        [/\ EndSave => FileLeases = TableLeases
         /\ AbortSave => FileLeases \subseteq TableLeases]_vars
  BY SaveFaithful DEF EasyInv
<1> QED  BY <1>1, EasyInvHolds, PTL DEF SaveIsFaithful

-----------------------------------------------------------------------------
(* What the device was promised *)

HasLease(p) == \E s \in Slots : Holds(table, s, p.aid) /\ table[s].until = p.until

\* A promise that runs is in the table, and one of the last finished save in the
\* file as well: neither is so while the table is cleared or the file is written.
PromiseInv ==
  /\ \A p \in promised : clock <= p.until => HasLease(p)
  /\ \A p \in onFile : clock <= p.until => p \in FileLeases
  /\ job = "loading" => promised = {}
  /\ job = "saving" => onFile = {}

LEMMA InitPromiseInv == EasyInit => PromiseInv
BY DEF EasyInit, PromiseInv

\* The lines of the table are the leases it holds.
LEMMA LinesAreLeases ==
  ASSUME NEW p \in Line
  PROVE  HasLease(p) <=> p \in TableLeases
<1>1. \A s \in Slots : s < MaxEntries + 1
  BY SizeAssumption DEF Slots
<1>2. \A s \in Slots : p = LineOf(s) <=> p.aid = table[s].aid /\ p.until = table[s].until
  BY DEF Line, LineOf
<1> QED  BY <1>1, <1>2 DEF HasLease, Holds, TableLeases, LeasesBelow

\* What a lease of the table becomes in each of the allocator's steps.
LEMMA AllocatePromise ==
  ASSUME EasyInv, PromiseInv, NEW a \in Aid, NEW s \in Slots, AllocateAid(a, s)
  PROVE  PromiseInv'
<1> DEFINE t == Cleaned(table)
           e == [inUse |-> TRUE, aid |-> a, until |-> clock + LeaseSeconds(t)]
<1>1. /\ table' = [t EXCEPT ![s] = e] /\ ~t[s].inUse /\ UNCHANGED <<clock, file, onFile>>
      /\ promised' = {p \in promised : p.aid # a} \cup {[aid |-> a, until |-> table'[s].until]}
      /\ job' = "idle"
  BY DEF AllocateAid, Grant, AllocSlot, Promise, storeVars
<1>2. t \in [Slots -> Entry]
  BY CleanedEntries DEF EasyInv, LooselyTyped
<1> HIDE DEF t
<1>3. Holds(table', s, a)
  BY <1>1, <1>2 DEF Holds
<1>4. ASSUME NEW p \in promised, p.aid # a, clock <= p.until PROVE HasLease(p)'
  <2>1. PICK r \in Slots : Holds(table, r, p.aid) /\ table[r].until = p.until
    BY <1>4 DEF PromiseInv, HasLease
  <2>2. p.aid \in Aid /\ p.until \in Nat /\ clock \in Nat
    BY DEF EasyInv, EasyTypeOK, LooselyTyped, Line
  <2>3. t[r] = table[r]
    BY <1>4, <2>1, <2>2, CleanedSpares DEF t
  <2>4. r # s /\ table'[r] = table[r]
    BY <1>1, <1>2, <2>1, <2>3 DEF Holds
  <2> QED  BY <2>1, <2>4 DEF HasLease, Holds
<1>5. \A p \in promised' : clock' <= p.until => HasLease(p)'
  <2>1. ASSUME NEW p, p.aid = a, p.until = table'[s].until PROVE HasLease(p)'
    BY <1>3, <2>1 DEF HasLease, Holds
  <2> QED  BY <1>1, <1>4, <2>1
<1>6. FileLeases' = FileLeases
  BY <1>1 DEF FileLeases
<1> QED  BY <1>1, <1>5, <1>6 DEF PromiseInv

LEMMA TouchPromise ==
  ASSUME EasyInv, PromiseInv, NEW s \in Slots, TouchAid(s)
  PROVE  PromiseInv'
<1>1. /\ table' = [table EXCEPT ![s].until = clock + TouchSeconds] /\ Holds(table, s, aid)
      /\ promised' = {p \in promised : p.aid # aid}
                       \cup {[aid |-> aid, until |-> table'[s].until]}
      /\ job' = "idle" /\ UNCHANGED <<clock, file, onFile>>
  BY DEF TouchAid, Touch, FindEntry, Promise, storeVars
<1>2. \A r \in Slots : /\ table'[r].inUse = table[r].inUse /\ table'[r].aid = table[r].aid
                       /\ r # s => table'[r] = table[r]
  BY <1>1 DEF EasyInv, LooselyTyped, Entry
<1>3. \A p \in promised' : clock' <= p.until => HasLease(p)'
  <2>1. ASSUME NEW p, p.aid = aid, p.until = table'[s].until PROVE HasLease(p)'
    BY <1>1, <1>2, <2>1 DEF HasLease, Holds
  <2>2. ASSUME NEW p \in promised, p.aid # aid, clock <= p.until PROVE HasLease(p)'
    BY <1>1, <1>2, <2>2 DEF PromiseInv, HasLease, Holds
  <2> QED  BY <1>1, <2>1, <2>2
<1>4. FileLeases' = FileLeases
  BY <1>1 DEF FileLeases
<1> QED  BY <1>1, <1>3, <1>4 DEF PromiseInv

\* The steps that promise nothing and take none of the running leases away.
LEMMA QuietPromise ==
  ASSUME EasyInv, PromiseInv, UNCHANGED <<promises, file>>, clock' \in Nat, clock' >= clock,
         \A r \in Slots : table[r].inUse /\ ~(clock > table[r].until) => table'[r] = table[r],
         job' = "idle" \/ UNCHANGED job
  PROVE  PromiseInv'
<1>1. clock \in Nat /\ \A p \in promised \cup onFile : p.until \in Nat
  BY DEF EasyInv, EasyTypeOK, LooselyTyped, Line
<1>2. UNCHANGED <<promised, onFile>> /\ FileLeases' = FileLeases
  BY DEF promises, FileLeases
<1>3. ASSUME NEW p \in promised, clock' <= p.until PROVE HasLease(p)'
  <2>1. clock <= p.until
    BY <1>1, <1>3
  <2>2. PICK r \in Slots : Holds(table, r, p.aid) /\ table[r].until = p.until
    BY <2>1 DEF PromiseInv, HasLease
  <2>3. table'[r] = table[r]
    BY <1>1, <2>1, <2>2 DEF Holds
  <2> QED  BY <2>2, <2>3 DEF HasLease, Holds
<1>4. \A p \in onFile : clock' <= p.until => clock <= p.until
  BY <1>1
<1> QED  BY <1>2, <1>3, <1>4 DEF PromiseInv

LEMMA SavePromise == EasyInv /\ PromiseInv /\ SaveIds => PromiseInv'
<1> SUFFICES ASSUME EasyInv, PromiseInv, SaveIds PROVE PromiseInv'
  OBVIOUS
<1>1. UNCHANGED <<promised, table, clock>>
  BY DEF SaveIds, BeginSave, WriteHeader, WriteEntry, EndSave, AbortSave, allocVars
<1>2. \A p \in promised' : clock' <= p.until => HasLease(p)'
  BY <1>1 DEF PromiseInv, HasLease, Holds
<1>3. CASE BeginSave /\ onFile' = {}
  BY <1>2, <1>3 DEF BeginSave, PromiseInv
<1>4. CASE (WriteHeader \/ WriteEntry) /\ UNCHANGED onFile
  BY <1>2, <1>4 DEF WriteHeader, WriteEntry, PromiseInv
<1>5. CASE AbortSave /\ UNCHANGED onFile
  BY <1>1, <1>2, <1>5 DEF AbortSave, PromiseInv, FileLeases
<1>6. CASE EndSave /\ onFile' = promised
  <2>1. FileLeases = TableLeases
    BY <1>6, SaveFaithful DEF EasyInv
  <2>2. file'.leases = file.leases /\ job' = "idle"
    BY <1>6 DEF EndSave, EasyInv, InStep, StoreShape, FileWith
  <2>3. \A p \in promised : clock <= p.until => p \in FileLeases
    BY <2>1, LinesAreLeases DEF PromiseInv, EasyInv, EasyTypeOK
  <2> QED  BY <1>1, <1>2, <1>6, <2>2, <2>3 DEF PromiseInv, FileLeases
<1> QED  BY <1>3, <1>4, <1>5, <1>6 DEF SaveIds

LEMMA LoadPromise == EasyInv /\ PromiseInv /\ (LoadIds \/ LoadIdsDone) => PromiseInv'
<1> SUFFICES ASSUME EasyInv, PromiseInv, LoadIds \/ LoadIdsDone PROVE PromiseInv'
  OBVIOUS
<1>1. UNCHANGED <<file, clock, onFile>> /\ job' # "saving" /\ FileLeases' = FileLeases
  BY DEF LoadIds, LoadIdsDone, BeginLoad, ReadHeader, ReadLease, AbortLoad, EndLoad, allocVars,
         FileLeases
<1>2. CASE LoadIds
  <2>1. promised' = {}
    BY <1>2 DEF LoadIds, ReadHeader, ReadLease, AbortLoad, PromiseInv
  <2> QED  BY <1>1, <2>1 DEF PromiseInv
<1>3. CASE LoadIdsDone
  <2>1. EndLoad /\ promised' = onFile /\ job' = "idle" /\ table' = table
    BY <1>3 DEF LoadIdsDone, EndLoad, allocVars
  <2>2. TableLeases = FileLeases
    BY <2>1, LeasesLoaded DEF EasyInv
  <2>3. \A p \in onFile : clock <= p.until => HasLease(p)
    BY <2>2, LinesAreLeases DEF PromiseInv, EasyInv, EasyTypeOK
  <2> QED  BY <1>1, <2>1, <2>3 DEF PromiseInv, HasLease, Holds
<1> QED  BY <1>2, <1>3

LEMMA StepPromiseInv == EasyInv /\ PromiseInv /\ [EasyNext]_easyVars => PromiseInv'
<1> SUFFICES ASSUME EasyInv, PromiseInv, [EasyNext]_easyVars PROVE PromiseInv'
  OBVIOUS
<1>0. clock \in Nat
  BY DEF EasyInv, LooselyTyped
<1>1. CASE Boot \/ \E p \in Pools : InitIds(p)
  <2>1. promised' = {} /\ job' = "idle" /\ UNCHANGED <<onFile, file, clock>>
    BY <1>1 DEF Boot, InitIds, Reinitialise, storeVars
  <2> QED  BY <2>1 DEF PromiseInv, FileLeases
<1>2. CASE (\E a \in Aid : SetAid(a)) \/ Time \/ UNCHANGED easyVars
  <2>1. /\ UNCHANGED <<promises, file, table, job>>
        /\ clock' = clock \/ clock' = clock + 1
    BY <1>2 DEF SetAid, Time, Tick, easyVars, vars, storeVars
  <2> QED  BY <1>0, <2>1, QuietPromise
<1>3. CASE AllocateRefused
  <2>1. UNCHANGED <<promises, file, job, clock>> /\ table' = Cleaned(table)
    BY <1>3 DEF AllocateRefused, Refuse, storeVars
  <2>2. \A r \in Slots : table[r].inUse /\ ~(clock > table[r].until) => table'[r] = table[r]
    BY <2>1 DEF Cleaned
  <2> QED  BY <1>0, <2>1, <2>2, QuietPromise
<1> QED
  BY <1>1, <1>2, <1>3, AllocatePromise, TouchPromise, SavePromise, LoadPromise DEF EasyNext

\* What was promised and runs on is leased, so the scan does not take its aid.
LEMMA GrantSpares ==
  ASSUME EasyInv, PromiseInv, NEW a \in Aid, NEW s \in Slots, AllocateAid(a, s),
         NEW p \in promised, p.aid = a
  PROVE  clock > p.until
<1>1. a \notin Leased(Cleaned(table))
  BY DEF AllocateAid, Grant, NextAid
<1>2. clock \in Nat /\ p.until \in Nat
  BY DEF EasyInv, EasyTypeOK, LooselyTyped, Line
<1>3. ASSUME clock <= p.until PROVE FALSE
  <2>1. PICK r \in Slots : Holds(table, r, a) /\ table[r].until = p.until
    BY <1>3 DEF PromiseInv, HasLease
  <2> QED  BY <1>1, <1>2, <1>3, <2>1, CleanedSpares
<1> QED  BY <1>2, <1>3

\* An aid of a lease the device was given is not given again while that runs: not
\* over touches and expiry, and not over a finished save, power loss and a load,
\* whatever other saves and loads were cut short before.
THEOREM PromisesAreKept == EasySpec => PromisesKept
<1>1. EasySpec => []PromiseInv
  BY InitPromiseInv, StepPromiseInv, EasyInvHolds, PTL DEF EasySpec
<1>2. EasyInv /\ PromiseInv /\ [EasyNext]_easyVars =>
        [\A a \in Aid, s \in Slots :
           AllocateAid(a, s) => \A p \in promised : p.aid = a => clock > p.until]_easyVars
  BY GrantSpares
<1> QED  BY <1>1, <1>2, EasyInvHolds, PTL DEF EasySpec, PromisesKept
-----------------------------------------------------------------------------
(* The long-running sketch *)

DiskLine == [aid : Aid, until : Nat]

DiskOK(d) ==
  /\ d \in [exists : BOOLEAN, lines : Seq(DiskLine)]
  /\ Len(d.lines) <= MaxEntries

\* Between a load that succeeded and the lease of the sketch's own aid, every
\* lease of the file is in the table.
LoadedFromDisk == mode = "loaded" => DiskLeases \subseteq UsedLeases

SketchInv == SketchTypeOK /\ DiskOK(disk) /\ CleanIsOnDisk /\ LoadedFromDisk
-----------------------------------------------------------------------------
(* What is written and what is read *)

LEMMA LinesAre ==
  ASSUME TypeOK
  PROVE  /\ Lines \in Seq(DiskLine)
         /\ Len(Lines) = Cardinality(InUse) /\ Len(Lines) <= MaxEntries
         /\ \A s \in InUse : \E i \in 1 .. Len(Lines) : Lines[i] = SavedLine(s)
<1> DEFINE k == Cardinality(InUse)
<1>1. MaxEntries \in Nat /\ InUse \in SUBSET (1 .. MaxEntries)
  BY SizeAssumption DEF InUse, Slots
<1>2. k \in Nat /\ k <= MaxEntries
  BY <1>1, CountOf
<1>3. \A s \in InUse : SavedLine(s) \in DiskLine
  BY DEF TypeOK, Entry, SavedLine, DiskLine, InUse
<1>4. \A i \in 1 .. k : NthSlot(InUse, i) \in InUse
  BY <1>1, NthSlotIs
<1>5. Lines = [i \in 1 .. k |-> SavedLine(NthSlot(InUse, i))]
  BY DEF Lines
<1>6. Lines \in Seq(DiskLine) /\ Len(Lines) = k
  BY <1>2, <1>3, <1>4, <1>5
<1>7. ASSUME NEW s \in InUse PROVE \E i \in 1 .. k : Lines[i] = SavedLine(s)
  <2>1. Place(InUse, s) \in 1 .. k /\ NthSlot(InUse, Place(InUse, s)) = s
    BY <1>1, SlotAtItsPlace
  <2> QED  BY <1>5, <2>1
<1> QED  BY <1>2, <1>6, <1>7

LEMMA FileOfIs ==
  ASSUME NEW f \in Seq(DiskLine), Len(f) <= MaxEntries
  PROVE  DiskOK(FileOf(f)) /\ FileOf(f).lines = f
BY DEF DiskOK, FileOf

LEMMA TornOK ==
  ASSUME TypeOK, DiskOK(disk), Torn
  PROVE  DiskOK(disk')
<1>1. ASSUME NEW n \in 0 .. Cardinality(InUse), disk' = FileOf(SubSeq(Lines, 1, n))
      PROVE  DiskOK(disk')
  <2>1. /\ Lines \in Seq(DiskLine) /\ Len(Lines) \in Nat
        /\ n <= Len(Lines) /\ Len(Lines) <= MaxEntries /\ n \in Nat
    BY LinesAre
  <2>2. \A i \in 1 .. n : Lines[i] \in DiskLine
    BY <2>1
  <2>3. SubSeq(Lines, 1, n) \in Seq(DiskLine) /\ Len(SubSeq(Lines, 1, n)) = n
    BY <2>1, <2>2, SubSeqProperties
  <2>4. n <= MaxEntries
    BY <2>1, SizeAssumption
  <2> QED  BY <1>1, <2>3, <2>4, FileOfIs
<1> QED  BY <1>1 DEF Torn

LEMMA LoadedIs ==
  ASSUME DiskOK(disk), NEW n \in 0 .. Len(disk.lines)
  PROVE  /\ Loaded(n) \in [Slots -> Entry]
         /\ \A s \in Slots : Loaded(n)[s].inUse =>
              s \in 1 .. Len(disk.lines) /\ Loaded(n)[s].aid = disk.lines[s].aid
                                         /\ Loaded(n)[s].until = disk.lines[s].until
         /\ \A s \in 1 .. n :
              s \in Slots /\ Loaded(n)[s].inUse /\ Loaded(n)[s].aid = disk.lines[s].aid
                          /\ Loaded(n)[s].until = disk.lines[s].until
<1>1. /\ disk.lines \in Seq(DiskLine) /\ Len(disk.lines) \in Nat
      /\ Len(disk.lines) <= MaxEntries /\ MaxEntries \in Nat
  BY SizeAssumption DEF DiskOK
<1>2. \A s \in 1 .. Len(disk.lines) : disk.lines[s].aid \in Aid /\ disk.lines[s].until \in Nat
  <2>1. \A s \in 1 .. Len(disk.lines) : disk.lines[s] \in DiskLine
    BY <1>1
  <2>2. \A line \in DiskLine : line.aid \in Aid /\ line.until \in Nat
    BY DEF DiskLine
  <2> QED  BY <2>1, <2>2
<1>3. \A s \in Slots : Loaded(n)[s] = IF s <= n THEN Leasing(disk.lines[s]) ELSE Free
  BY DEF Loaded
<1>4. \A line : /\ Leasing(line).inUse /\ Leasing(line).aid = line.aid
                /\ Leasing(line).until = line.until
  BY DEF Leasing
<1>5. Free \in Entry /\ ~Free.inUse
  BY SizeAssumption DEF Free, Entry, Aid
<1>6. \A s \in 1 .. Len(disk.lines) : Leasing(disk.lines[s]) \in Entry
  BY <1>2 DEF Leasing, Entry
<1>7. \A s \in Slots : s <= n => s \in 1 .. Len(disk.lines)
  BY <1>1 DEF Slots
<1>8. \A s \in 1 .. n : s \in Slots /\ s <= n
  BY <1>1 DEF Slots
<1>9. Loaded(n) \in [Slots -> Entry]
  BY <1>5, <1>6, <1>7 DEF Loaded
<1> QED  BY <1>3, <1>4, <1>5, <1>7, <1>8, <1>9

\* The times of the sketch stay values of millis().
TimesOK ==
  /\ millis \in 0 .. MilliMod - 1 /\ lastSave \in 0 .. MilliMod - 1
  /\ nextRetry \in 0 .. MilliMod - 1 /\ start \in 0 .. MilliMod - 1
  /\ offset \in Int
  /\ retry \in 0 .. MaxRetry

LEMMA ZeroIsTime ==
  /\ 0 \in 0 .. MilliMod - 1 /\ 0 \in 0 .. MaxRetry
  /\ 0 \in 0 .. MaxFaults /\ 0 \in 0 .. MaxCommands
BY SketchAssumption

LEMMA BootTimeIs == BootTime \in Nat /\ BootTime \in Int
BY SketchAssumption

\* A fault is counted.
LEMMA FaultsIn ==
  ASSUME faults \in 0 .. MaxFaults, faults < MaxFaults
  PROVE  faults + 1 \in 0 .. MaxFaults
BY SketchAssumption

LEMMA RetryIs ==
  ASSUME SketchTypeOK
  PROVE  RetryNext \in 1 .. MaxRetry /\ RetryTime \in 0 .. MilliMod - 1
<1>1. RetryNext \in 1 .. MaxRetry
  BY SketchAssumption DEF SketchTypeOK, RetryNext
<1>2. RetryNext * RetryBase \in Nat
  BY <1>1, SketchAssumption
<1>3. millis + RetryNext * RetryBase \in Nat
  BY <1>2, SketchAssumption DEF SketchTypeOK
<1> QED  BY <1>1, <1>3, SketchAssumption DEF RetryTime

\* A save that runs to its end leaves nothing out.
LEMMA SaveOkIs ==
  ASSUME SketchInv, SaveOk, UNCHANGED table
  PROVE  DiskOK(disk') /\ CleanIsOnDisk'
<1>1. /\ Lines \in Seq(DiskLine) /\ Len(Lines) <= MaxEntries
      /\ \A s \in InUse : \E i \in 1 .. Len(Lines) : Lines[i] = SavedLine(s)
  BY LinesAre DEF SketchInv, SketchTypeOK
<1>2. DiskOK(disk') /\ disk'.lines = Lines
  BY <1>1, FileOfIs DEF SaveOk
<1>3. UsedLeases' = UsedLeases
  BY DEF UsedLeases, InUse, SavedLine
<1>4. UsedLeases \subseteq DiskLeases'
  BY <1>1, <1>2 DEF UsedLeases, DiskLeases
<1> QED  BY <1>2, <1>3, <1>4 DEF CleanIsOnDisk

LEMMA IdSaveInv ==
  ASSUME SketchInv, IdSave, mode # "loaded",
         commands' \in 0 .. MaxCommands
  PROVE  SketchInv'
<1>1. UNCHANGED <<pool, policy, table, windowStart, recent, clock, mode, start, localAid,
                  millis, offset>>
  BY DEF IdSave, allocVars, bootVars, timeVars
<1>2. TypeOK'
  BY <1>1 DEF SketchInv, SketchTypeOK, TypeOK
<1>3. LoadedFromDisk'
  BY <1>1 DEF LoadedFromDisk
<1>4. CASE SaveOk
  <2>1. DiskOK(disk') /\ CleanIsOnDisk'
    BY <1>1, <1>4, SaveOkIs
  <2>2. SketchTypeOK'
    BY <1>1, <1>2, <1>4, ZeroIsTime DEF SketchInv, SketchTypeOK, SaveOk
  <2> QED  BY <1>3, <2>1, <2>2 DEF SketchInv
<1>5. CASE SaveFails
  <2>1. DiskOK(disk')
    BY <1>5, TornOK DEF SketchInv, SketchTypeOK, SaveFails
  <2>2. retry' \in 1 .. MaxRetry /\ nextRetry' \in 0 .. MilliMod - 1
    BY <1>5, RetryIs DEF SketchInv, SaveFails
  <2>3. CleanIsOnDisk'
    BY <2>2 DEF CleanIsOnDisk
  <2>4. SketchTypeOK'
    BY <1>1, <1>2, <1>5, <2>2, FaultsIn DEF SketchInv, SketchTypeOK, SaveFails
  <2> QED  BY <1>3, <2>1, <2>3, <2>4 DEF SketchInv
<1> QED  BY <1>4, <1>5 DEF IdSave

\* What a load leaves comes from the file; all of it, if the load succeeded.
LEMMA LoadIs ==
  ASSUME SketchInv, LoadOk \/ LoadFails, UNCHANGED loadUnchanged, UNCHANGED start
  PROVE  /\ TypeOK' /\ TimesOK' /\ DiskOK(disk')
         /\ dirty' \in BOOLEAN /\ faults' \in 0 .. MaxFaults
         /\ CleanIsOnDisk'
         /\ LoadOk => DiskLeases' \subseteq UsedLeases'
<1>1. UNCHANGED <<pool, policy, windowStart, recent, clock, millis, offset, disk>>
  BY DEF loadUnchanged, timeVars
<1>2. DiskLeases' = DiskLeases
  BY <1>1 DEF DiskLeases
<1>3. TimesOK' /\ dirty' \in BOOLEAN /\ faults' \in 0 .. MaxFaults
  BY <1>1, ZeroIsTime, FaultsIn
     DEF SketchInv, SketchTypeOK, TimesOK, LoadOk, LoadFails, persistVars, loadUnchanged
<1>4. ASSUME NEW n \in 0 .. Len(disk.lines), table' = Loaded(n)
      PROVE  TypeOK' /\ CleanIsOnDisk' /\ (n = Len(disk.lines) => DiskLeases \subseteq UsedLeases')
  <2>1. DiskOK(disk)
    BY DEF SketchInv
  <2>2. TypeOK'
    BY <1>1, <1>4, <2>1, LoadedIs DEF SketchInv, SketchTypeOK, TypeOK
  <2>3. UsedLeases' \subseteq DiskLeases
    <3> SUFFICES ASSUME NEW s \in Slots, table'[s].inUse PROVE SavedLine(s)' \in DiskLeases
      BY DEF UsedLeases, InUse
    <3>1. /\ s \in 1 .. Len(disk.lines)
          /\ table'[s].aid = disk.lines[s].aid /\ table'[s].until = disk.lines[s].until
      BY <1>4, <2>1, LoadedIs
    <3>2. disk.lines[s] \in DiskLine
      BY <2>1, <3>1 DEF DiskOK
    <3>3. SavedLine(s)' = disk.lines[s]
      BY <3>1, <3>2 DEF SavedLine, DiskLine
    <3> QED  BY <3>1, <3>3 DEF DiskLeases
  <2>4. ASSUME n = Len(disk.lines), NEW i \in 1 .. n PROVE disk.lines[i] \in UsedLeases'
    <3>1. /\ i \in Slots /\ table'[i].inUse
          /\ table'[i].aid = disk.lines[i].aid /\ table'[i].until = disk.lines[i].until
      BY <1>4, <2>1, LoadedIs
    <3>2. disk.lines[i] \in DiskLine
      BY <2>1, <2>4 DEF DiskOK
    <3>3. SavedLine(i)' = disk.lines[i]
      BY <3>1, <3>2 DEF SavedLine, DiskLine
    <3> QED  BY <3>1, <3>3 DEF UsedLeases, InUse
  <2> QED  BY <1>2, <2>2, <2>3, <2>4 DEF CleanIsOnDisk, DiskLeases
<1>5. CASE LoadOk
  <2>1. Len(disk.lines) \in Nat
    BY DEF SketchInv, DiskOK
  <2>2. Len(disk.lines) \in 0 .. Len(disk.lines) /\ table' = Loaded(Len(disk.lines))
    BY <1>5, <2>1 DEF LoadOk
  <2> QED  BY <1>1, <1>2, <1>3, <1>4, <2>2 DEF SketchInv
<1>6. CASE LoadFails /\ ~LoadOk
  <2>1. CASE UNCHANGED table
    <3>1. TypeOK'
      BY <1>1, <2>1 DEF SketchInv, SketchTypeOK, TypeOK
    <3>2. CleanIsOnDisk'
      BY <1>1, <1>6, <2>1
         DEF SketchInv, CleanIsOnDisk, LoadFails, persistVars, UsedLeases, InUse, SavedLine, DiskLeases
    <3> QED  BY <1>1, <1>3, <1>6, <3>1, <3>2 DEF SketchInv
  <2>2. CASE \E n \in 0 .. Len(disk.lines) : table' = Loaded(n)
    BY <1>1, <1>3, <1>4, <1>6, <2>2 DEF SketchInv
  <2> QED  BY <1>6, <2>1, <2>2 DEF LoadFails
<1> QED  BY <1>5, <1>6
-----------------------------------------------------------------------------
(* The other steps *)

LEMMA InitSketchInv == SketchInit => SketchInv
<1> SUFFICES ASSUME SketchInit PROVE SketchInv
  OBVIOUS
<1>1. TypeOK
  BY SizeAssumption, InitialPoolType, BootTimeIs
     DEF SketchInit, TypeOK, EmptyTable, Free, Entry, Aid
<1>2. DiskOK(disk)
  BY SizeAssumption, EmptySeq DEF SketchInit, DiskOK, NoFile
<1>3. SketchTypeOK
  BY <1>1, BootTimeIs, ZeroIsTime DEF SketchInit, SketchTypeOK
<1>4. CleanIsOnDisk /\ LoadedFromDisk
  BY DEF SketchInit, CleanIsOnDisk, LoadedFromDisk, UsedLeases, InUse, EmptyTable, Free
<1> QED  BY <1>2, <1>3, <1>4 DEF SketchInv

\* A call of the allocator that leaves the file alone.
LEMMA AllocatorIs ==
  ASSUME SketchInv,
         \/ \E a \in Aid, s \in Slots : Grant(a, s) \/ Touch(a, s) \/ Release(a, s)
         \/ Refuse
  PROVE  TypeOK' /\ (Refuse => UsedLeases' \subseteq UsedLeases)
<1>1. TypeOK
  BY DEF SketchInv, SketchTypeOK
<1>2. TypeOK'
  BY <1>1, StepTypeOK DEF Next
<1>3. ASSUME Refuse PROVE UsedLeases' \subseteq UsedLeases
  <2>1. table' = Cleaned(table)
    BY <1>3 DEF Refuse
  <2>2. \A s \in Slots : table'[s].inUse => table'[s] = table[s]
    BY <1>1, <2>1, CleanedEntries DEF TypeOK
  <2> QED  BY <2>2 DEF UsedLeases, InUse, SavedLine
<1> QED  BY <1>2, <1>3

\* After it the table is dirty, unless the call was refused or not made.
LEMMA ChangedInv ==
  ASSUME SketchInv, TypeOK', SketchTypeOK', UNCHANGED <<disk, retry>>, mode' # "loaded",
         dirty' = TRUE \/ (UsedLeases' \subseteq UsedLeases /\ UNCHANGED dirty)
  PROVE  SketchInv'
<1>1. CleanIsOnDisk'
  BY DEF SketchInv, CleanIsOnDisk, DiskLeases
<1> QED  BY <1>1 DEF SketchInv, LoadedFromDisk

LEMMA BootAllocateInv == SketchInv /\ BootAllocate => SketchInv'
<1> SUFFICES ASSUME SketchInv, BootAllocate PROVE SketchInv'
  OBVIOUS
<1>1. \/ \E a \in Aid, s \in Slots : Grant(a, s) /\ localAid' = a /\ dirty' = TRUE
      \/ Refuse /\ localAid' = FallbackAid /\ UNCHANGED dirty
  BY DEF BootAllocate
<1>2. TypeOK' /\ (Refuse => UsedLeases' \subseteq UsedLeases)
  BY <1>1, AllocatorIs
<1>3. mode' = "window" /\ start' = millis
      /\ UNCHANGED <<lastSave, retry, nextRetry, millis, offset, disk, commands, faults>>
  BY DEF BootAllocate, timeVars
<1>4. SketchTypeOK'
  BY <1>1, <1>2, <1>3 DEF SketchInv, SketchTypeOK, Started
<1> QED  BY <1>1, <1>2, <1>3, <1>4, ChangedInv

LEMMA CommandCount ==
  ASSUME SketchInv, Command
  PROVE  commands' \in 0 .. MaxCommands /\ mode = "cli"
BY SketchAssumption DEF SketchInv, SketchTypeOK, Command

LEMMA AllocatorCommandInv == SketchInv /\ (AllocId \/ TouchId \/ ReleaseId) => SketchInv'
<1> SUFFICES ASSUME SketchInv, AllocId \/ TouchId \/ ReleaseId PROVE SketchInv'
  OBVIOUS
<1>1. /\ \/ \E a \in Aid, s \in Slots : Grant(a, s) \/ Touch(a, s) \/ Release(a, s)
         \/ Refuse
      /\ dirty' = TRUE \/ (Refuse /\ UNCHANGED dirty)
      /\ Command /\ UNCHANGED allocUnchanged
  BY DEF AllocId, TouchId, ReleaseId
<1>2. TypeOK' /\ (Refuse => UsedLeases' \subseteq UsedLeases)
  BY <1>1, AllocatorIs
<1>3. UNCHANGED <<lastSave, retry, nextRetry, mode, start, localAid, millis, offset, disk, faults>>
  BY <1>1 DEF allocUnchanged, bootVars, timeVars
<1>4. commands' \in 0 .. MaxCommands /\ mode' # "loaded"
  BY <1>1, <1>3, CommandCount
<1>5. SketchTypeOK'
  BY <1>1, <1>2, <1>3, <1>4 DEF SketchInv, SketchTypeOK
<1> QED  BY <1>1, <1>2, <1>3, <1>4, <1>5, ChangedInv

\* The steps that touch neither the table nor the file.
LEMMA AsideInv ==
  ASSUME SketchInv, UNCHANGED <<pool, policy, table, windowStart, recent, persistVars, disk, faults>>,
         clock' \in Nat, millis' \in 0 .. MilliMod - 1, offset' \in Int,
         start' \in 0 .. MilliMod - 1, mode' \in {"boot", "loaded", "blind"} \cup Started,
         mode' = "loaded" => mode = "loaded",
         localAid' = localAid, commands' \in 0 .. MaxCommands
  PROVE  SketchInv'
<1>1. /\ UNCHANGED <<pool, policy, table, windowStart, recent, dirty, lastSave, retry, nextRetry,
                     disk, faults>>
  BY DEF persistVars
<1>2. TypeOK'
  BY <1>1 DEF SketchInv, SketchTypeOK, TypeOK
<1>3. SketchTypeOK'
  BY <1>1, <1>2 DEF SketchInv, SketchTypeOK
<1>4. UsedLeases' = UsedLeases /\ DiskLeases' = DiskLeases
  BY <1>1 DEF UsedLeases, InUse, SavedLine, DiskLeases
<1>5. CleanIsOnDisk' /\ LoadedFromDisk'
  BY <1>1, <1>4 DEF SketchInv, CleanIsOnDisk, LoadedFromDisk
<1> QED  BY <1>1, <1>3, <1>5 DEF SketchInv

LEMMA TimeIs ==
  ASSUME NEW ms \in Int, NEW off \in Int
  PROVE  UnixTime(ms, off) \in Nat
BY DEF UnixTime

LEMMA TimePassesInv == SketchInv /\ TimePasses => SketchInv'
<1> SUFFICES ASSUME SketchInv, TimePasses PROVE SketchInv'
  OBVIOUS
<1>1. millis \in Nat /\ offset \in Int /\ MilliMod \in Nat \ {0}
  BY SketchAssumption DEF SketchInv, SketchTypeOK
<1>2. millis' \in 0 .. MilliMod - 1
  BY <1>1 DEF TimePasses
<1>3. clock' \in Nat
  BY <1>1, <1>2, TimeIs DEF TimePasses
<1> QED
  BY <1>1, <1>2, <1>3, AsideInv DEF TimePasses, bootVars, SketchInv, SketchTypeOK

LEMMA SetTimeInv ==
  ASSUME SketchInv, NEW t \in SetTimes, SetTime(t)
  PROVE  SketchInv'
<1>1. t \in Nat /\ millis \in Nat /\ millis \in 0 .. MilliMod - 1
  BY SketchAssumption DEF SketchInv, SketchTypeOK
<1>2. offset' \in Int /\ millis' = millis
  BY <1>1 DEF SetTime
<1>3. clock' \in Nat
  BY <1>1, <1>2, TimeIs DEF SetTime
<1>4. commands' \in 0 .. MaxCommands
  BY CommandCount DEF SetTime
<1> QED
  BY <1>1, <1>2, <1>3, <1>4, AsideInv DEF SetTime, bootVars, SketchInv, SketchTypeOK

LEMMA ModeInv == SketchInv /\ (EnterCli \/ EnterRun \/ ExitCli) => SketchInv'
<1> SUFFICES ASSUME SketchInv, EnterCli \/ EnterRun \/ ExitCli PROVE SketchInv'
  OBVIOUS
<1>1. /\ UNCHANGED <<allocVars, localAid, persistVars, timeVars, disk, commands, faults>>
      /\ mode' \in {"cli", "run"} /\ start' \in {0, start}
  BY DEF EnterCli, EnterRun, ExitCli
<1>2. UNCHANGED <<pool, policy, table, windowStart, recent, clock, millis, offset>>
  BY <1>1 DEF allocVars, timeVars
<1>3. mode' \in Started /\ mode' # "loaded" /\ start' \in 0 .. MilliMod - 1
  BY <1>1, ZeroIsTime DEF SketchInv, SketchTypeOK, Started
<1>4. clock' \in Nat
  BY <1>2 DEF SketchInv, SketchTypeOK, TypeOK
<1> QED  BY <1>1, <1>2, <1>3, <1>4, AsideInv DEF SketchInv, SketchTypeOK

LEMMA PowerLossInv == SketchInv /\ PowerLoss => SketchInv'
<1> SUFFICES ASSUME SketchInv, PowerLoss PROVE SketchInv'
  OBVIOUS
<1>1. TypeOK'
  BY SizeAssumption, InitialPoolType, BootTimeIs
     DEF PowerLoss, TypeOK, EmptyTable, Free, Entry, Aid
<1>2. DiskOK(disk')
  BY TornOK DEF PowerLoss, SketchInv, SketchTypeOK
<1>3. SketchTypeOK'
  <2>1. /\ faults' \in 0 .. MaxFaults /\ commands' \in 0 .. MaxCommands
        /\ retry' \in 0 .. MaxRetry /\ offset' \in Int
    BY ZeroIsTime, BootTimeIs, FaultsIn DEF PowerLoss, SketchInv, SketchTypeOK
  <2>2. /\ millis' \in 0 .. MilliMod - 1 /\ lastSave' \in 0 .. MilliMod - 1
        /\ nextRetry' \in 0 .. MilliMod - 1 /\ start' \in 0 .. MilliMod - 1
    BY ZeroIsTime DEF PowerLoss
  <2>3. /\ mode' \in {"boot", "loaded", "blind"} \cup Started
        /\ localAid' \in Aid \cup {FallbackAid} /\ dirty' \in BOOLEAN
    BY DEF PowerLoss
  <2> QED  BY <1>1, <2>1, <2>2, <2>3 DEF SketchTypeOK
<1>4. CleanIsOnDisk' /\ LoadedFromDisk'
  BY DEF PowerLoss, CleanIsOnDisk, LoadedFromDisk, UsedLeases, InUse, EmptyTable, Free
<1> QED  BY <1>2, <1>3, <1>4 DEF SketchInv

LEMMA BootLoadInv == SketchInv /\ BootLoad => SketchInv'
<1> SUFFICES ASSUME SketchInv, BootLoad PROVE SketchInv'
  OBVIOUS
<1>1. /\ (LoadOk /\ mode' = "loaded") \/ (LoadFails /\ mode' = "blind")
      /\ UNCHANGED <<start, localAid, commands>> /\ UNCHANGED loadUnchanged
  BY DEF BootLoad
<1>2. /\ TypeOK' /\ TimesOK' /\ DiskOK(disk')
      /\ dirty' \in BOOLEAN /\ faults' \in 0 .. MaxFaults /\ CleanIsOnDisk'
      /\ LoadOk => DiskLeases' \subseteq UsedLeases'
  BY <1>1, LoadIs
<1>3. SketchTypeOK'
  BY <1>1, <1>2 DEF SketchInv, SketchTypeOK, TimesOK
<1>4. LoadedFromDisk'
  BY <1>1, <1>2 DEF LoadedFromDisk
<1> QED  BY <1>2, <1>3, <1>4 DEF SketchInv

LEMMA LoadIdInv == SketchInv /\ LoadId => SketchInv'
<1> SUFFICES ASSUME SketchInv, LoadId PROVE SketchInv'
  OBVIOUS
<1>1. /\ LoadOk \/ LoadFails
      /\ UNCHANGED <<mode, start, localAid>> /\ UNCHANGED loadUnchanged
  BY DEF LoadId, bootVars
<1>2. commands' \in 0 .. MaxCommands /\ mode' = "cli"
  BY <1>1, CommandCount DEF LoadId
<1>3. /\ TypeOK' /\ TimesOK' /\ DiskOK(disk')
      /\ dirty' \in BOOLEAN /\ faults' \in 0 .. MaxFaults /\ CleanIsOnDisk'
  BY <1>1, LoadIs
<1>4. SketchTypeOK'
  BY <1>1, <1>2, <1>3 DEF SketchInv, SketchTypeOK, TimesOK
<1>5. LoadedFromDisk'
  BY <1>2 DEF LoadedFromDisk
<1> QED  BY <1>3, <1>4, <1>5 DEF SketchInv

LEMMA SaveInv == SketchInv /\ (PersistTick \/ SaveId) => SketchInv'
<1> SUFFICES ASSUME SketchInv, PersistTick \/ SaveId PROVE SketchInv'
  OBVIOUS
<1>1. CASE PersistTick
  <2>1. IdSave /\ mode # "loaded" /\ commands' = commands
    BY <1>1 DEF PersistTick, TickDue, Started
  <2>2. commands' \in 0 .. MaxCommands
    BY <2>1 DEF SketchInv, SketchTypeOK
  <2> QED  BY <2>1, <2>2, IdSaveInv
<1>2. CASE SaveId
  <2>1. IdSave /\ commands' \in 0 .. MaxCommands /\ mode # "loaded"
    BY <1>2, CommandCount DEF SaveId
  <2> QED  BY <2>1, IdSaveInv
<1> QED  BY <1>1, <1>2

LEMMA SketchStutter == SketchInv /\ UNCHANGED sketchVars => SketchInv'
<1> SUFFICES ASSUME SketchInv, UNCHANGED sketchVars PROVE SketchInv'
  OBVIOUS
<1>1. UNCHANGED <<pool, policy, table, windowStart, recent, clock, dirty, lastSave, retry, nextRetry,
                  mode, start, localAid, millis, offset, disk, commands, faults>>
  BY DEF sketchVars, allocVars, persistVars, bootVars, timeVars
<1>2. UNCHANGED persistVars
  BY <1>1 DEF persistVars
<1>3. /\ clock' \in Nat /\ millis' \in 0 .. MilliMod - 1 /\ offset' \in Int
      /\ start' \in 0 .. MilliMod - 1 /\ mode' \in {"boot", "loaded", "blind"} \cup Started
      /\ commands' \in 0 .. MaxCommands
  BY <1>1 DEF SketchInv, SketchTypeOK, TypeOK
<1> QED  BY <1>1, <1>2, <1>3, AsideInv

LEMMA SketchStepInv == SketchInv /\ [SketchNext]_sketchVars => SketchInv'
<1> SUFFICES ASSUME SketchInv, [SketchNext]_sketchVars PROVE SketchInv'
  OBVIOUS
<1>1. CASE \E t \in SetTimes : SetTime(t)
  BY <1>1, SetTimeInv
<1>2. CASE BootLoad \/ BootAllocate \/ EnterCli \/ EnterRun \/ PersistTick
  BY <1>2, BootLoadInv, BootAllocateInv, ModeInv, SaveInv
<1>3. CASE ExitCli \/ SaveId \/ LoadId \/ AllocId \/ TouchId \/ ReleaseId
  BY <1>3, ModeInv, SaveInv, LoadIdInv, AllocatorCommandInv
<1>4. CASE TimePasses \/ PowerLoss
  BY <1>4, TimePassesInv, PowerLossInv
<1>5. CASE UNCHANGED sketchVars
  BY <1>5, SketchStutter
<1> QED  BY <1>1, <1>2, <1>3, <1>4, <1>5 DEF SketchNext

LEMMA SketchInvHolds == SketchSpec => []SketchInv
<1> QED  BY InitSketchInv, SketchStepInv, PTL DEF SketchSpec
-----------------------------------------------------------------------------
(* The theorems *)

LEMMA TimesAreNat ==
  ASSUME SketchInv
  PROVE  clock \in Nat /\ \A s \in Slots : table[s].until \in Nat
BY DEF SketchInv, SketchTypeOK, TypeOK, Entry

\* The sketch keeps its types: whatever is set, torn, loaded or retried, all its
\* times are values of millis() and the retry count stays within its maximum.
THEOREM SketchTypeCorrect == SketchSpec => []SketchTypeOK
<1>1. SketchInv => SketchTypeOK
  BY DEF SketchInv
<1> QED  BY <1>1, SketchInvHolds, PTL

\* A table that id_persist_tick has nothing to do for is on file.
THEOREM CleanTablesAreOnDisk == SketchSpec => []CleanIsOnDisk
<1>1. SketchInv => CleanIsOnDisk
  BY DEF SketchInv
<1> QED  BY <1>1, SketchInvHolds, PTL

\* What setup() leases to itself is not leased on file, or that lease has run out.
THEOREM LocalAidsAreFresh == SketchSpec => LocalAidIsFresh
<1>1. ASSUME SketchInv, SketchNext, mode = "loaded", mode' = "window", localAid' # FallbackAid,
             NEW l \in DiskLeases, l.aid = localAid'
      PROVE  l.until < clock
  <2>1. BootAllocate
    BY <1>1 DEF SketchNext, BootLoad, EnterCli, EnterRun, PersistTick, TickDue, ExitCli, SaveId,
                LoadId, AllocId, TouchId, ReleaseId, SetTime, Command, TimePasses, PowerLoss, Started
  <2>2. PICK a \in Aid, s \in Slots : Grant(a, s) /\ localAid' = a
    BY <1>1, <2>1 DEF BootAllocate
  <2>3. PICK r \in Slots : table[r].inUse /\ l = SavedLine(r)
    BY <1>1 DEF SketchInv, LoadedFromDisk, UsedLeases, InUse
  <2>4. a \notin Leased(Cleaned(table))
    BY <2>2 DEF Grant, NextAid
  <2>5. table[r].aid = a /\ table[r].until = l.until
    BY <1>1, <2>2, <2>3 DEF SavedLine
  <2>6. ~(l.until < clock) => Cleaned(table)[r] = table[r]
    BY <1>1, <2>3, <2>5, TimesAreNat DEF Cleaned
  <2>7. Cleaned(table)[r] = table[r] => a \in Leased(Cleaned(table))
    BY <2>3, <2>5 DEF Leased
  <2> QED  BY <2>4, <2>6, <2>7
<1>2. SketchInv /\ [SketchNext]_sketchVars =>
        [mode = "loaded" /\ mode' = "window" /\ localAid' # FallbackAid
           => \A l \in DiskLeases : l.aid = localAid' => l.until < clock]_sketchVars
  BY <1>1
<1> QED  BY <1>2, SketchInvHolds, PTL DEF SketchSpec, LocalAidIsFresh
=============================================================================
