---------------------------- MODULE BootCliOrRun ----------------------------
(***************************************************************************)
(* The long-running sketch (examples/BootCliOrRun/BootCliOrRun.ino): it    *)
(* loads its lease table, leases an aid for itself, offers a command line  *)
(* for some seconds and then runs, saving the table some time after it has *)
(* changed and again, later and later, while saving fails.                 *)
(*                                                                         *)
(* Saves and loads are one step here, that may fail at any line; power may *)
(* go at any time, in the middle of a save too (IdStore has the single     *)
(* lines).  The loop is much faster than the unit of time: what is due is  *)
(* done before time passes.  Sending and the plugins are left out.         *)
(***************************************************************************)
EXTENDS IdAllocator, SlotOrder, Sequences

CONSTANTS
  MilliMod,     \* 2^32 in the code: millis() wraps
  Window,       \* CLI_WINDOW_MS
  Autosave,     \* ID_AUTOSAVE_PERIOD_MS
  RetryBase,    \* ID_SAVE_RETRY_BASE_MS
  MaxRetry,     \* ID_SAVE_MAX_RETRY
  BootTime,     \* the unix time the sketch starts at, 1710000000
  SetTimes,     \* the times set-time is given
  FallbackAid,  \* 42
  MaxCommands,  \* bound: commands given
  MaxFaults     \* bound: failed saves and loads, and power losses

ASSUME SketchAssumption ==
  /\ MilliMod \in Nat \ {0} /\ Window \in Nat /\ Autosave \in Nat
  /\ RetryBase \in Nat /\ MaxRetry \in Nat \ {0}
  /\ 2 * RetryBase * MaxRetry < MilliMod
  /\ BootTime \in Nat /\ SetTimes \subseteq Nat /\ FallbackAid \in Nat
  /\ MaxCommands \in Nat /\ MaxFaults \in Nat

VARIABLES
  millis,
  offset,     \* g_unix_offset_seconds; clock is now_unix_seconds()
  mode,       \* setup(): "boot", then "loaded" or "blind", "window", "cli"; "run"
  start,      \* start_ms, local to setup(): 0 once the window is over
  localAid,
  dirty,      \* g_id_dirty
  lastSave,
  retry,      \* g_id_retry_attempt
  nextRetry,
  disk,       \* the file: whether it exists, and its lease lines
  commands,   \* how many commands there have been
  faults      \* how many faults

persistVars == <<dirty, lastSave, retry, nextRetry>>
bootVars    == <<mode, start, localAid>>
timeVars    == <<millis, offset>>
sketchVars == <<allocVars, persistVars, bootVars, timeVars, disk, commands, faults>>

NoFile == [exists |-> FALSE, lines |-> <<>>]

FileOf(lines) == [exists |-> TRUE, lines |-> lines]

Started == {"window", "cli", "run"}

SketchInit ==
  /\ \E p \in Pools : pool = PoolOf(p) /\ policy = InitPolicy(p)
  /\ table = EmptyTable /\ windowStart = 0 /\ recent = 0
  /\ clock = BootTime /\ millis = 0 /\ offset = BootTime
  /\ mode = "boot" /\ start = 0 /\ localAid = FallbackAid
  /\ dirty = FALSE /\ lastSave = 0 /\ retry = 0 /\ nextRetry = 0
  /\ disk = NoFile
  /\ commands = 0 /\ faults = 0
-----------------------------------------------------------------------------
(* Time *)

\* now_unix_seconds: the seconds of millis() wrap with it.
UnixTime(ms, off) == IF ms + off < 0 THEN 0 ELSE ms + off

Since(t) == (millis - t) % MilliMod

\* time_reached: the difference as a signed number.
TimeReached(t) == 2 * Since(t) < MilliMod

\* A slip: the last attempt is the last.
SaveDueGivingUp ==
  IF retry > 0 THEN retry < MaxRetry /\ TimeReached(nextRetry) ELSE Since(lastSave) >= Autosave

SaveDue ==
  IF retry > 0 THEN TimeReached(nextRetry) ELSE Since(lastSave) >= Autosave

TickDue == mode \in Started /\ dirty /\ SaveDue

WindowOver == mode = "window" /\ Since(start) >= Window

TimePasses ==
  /\ mode \in Started /\ ~TickDue /\ ~WindowOver
  /\ millis' = (millis + 1) % MilliMod
  /\ clock' = UnixTime(millis', offset)
  /\ UNCHANGED <<pool, policy, table, windowStart, recent, offset, bootVars, persistVars,
                 disk, commands, faults>>

Command ==
  /\ mode = "cli"
  /\ commands < MaxCommands
  /\ commands' = commands + 1

SetTime(t) ==
  /\ Command
  /\ offset' = t - millis
  /\ clock' = UnixTime(millis, offset')
  /\ UNCHANGED <<pool, policy, table, windowStart, recent, millis, bootVars, persistVars,
                 disk, faults>>
-----------------------------------------------------------------------------
(* id_save_now and id_load_now *)

SavedLine(s) == [aid |-> table[s].aid, until |-> table[s].until]

InUse == {s \in Slots : table[s].inUse}

\* The lines of a whole save, slot by slot.
Lines == [i \in 1 .. Cardinality(InUse) |-> SavedLine(NthSlot(InUse, i))]

SaveOk ==
  /\ disk' = FileOf(Lines)
  /\ dirty' = FALSE
  /\ lastSave' = millis
  /\ retry' = 0
  /\ nextRetry' = 0
  /\ UNCHANGED faults

\* The file could not be opened, or the save stopped after some line.
Torn == disk' = disk \/ \E n \in 0 .. Cardinality(InUse) : disk' = FileOf(SubSeq(Lines, 1, n))

RetryNext == IF retry < MaxRetry THEN retry + 1 ELSE retry

\* A slip: the sum is kept in a wider type.
RetryTimeUnwrapped == millis + RetryNext * RetryBase

RetryTime == (millis + RetryNext * RetryBase) % MilliMod

SaveFails ==
  /\ faults < MaxFaults
  /\ Torn
  /\ retry' = RetryNext
  /\ nextRetry' = RetryTime
  /\ faults' = faults + 1
  /\ UNCHANGED <<dirty, lastSave>>

IdSave == (SaveOk \/ SaveFails) /\ UNCHANGED <<allocVars, bootVars, timeVars>>

Leasing(line) == [inUse |-> TRUE, aid |-> line.aid, until |-> line.until]

\* A slip: the last line is not read.
LoadedShort(n) ==
  [s \in Slots |-> IF s < n THEN Leasing(disk.lines[s]) ELSE Free]

\* The table after the first n lines.
Loaded(n) ==
  [s \in Slots |-> IF s <= n THEN Leasing(disk.lines[s]) ELSE Free]

LoadOk ==
  /\ disk # NoFile
  /\ table' = Loaded(Len(disk.lines))
  /\ dirty' = FALSE
  /\ lastSave' = millis
  /\ retry' = 0
  /\ nextRetry' = 0
  /\ UNCHANGED faults

\* Without a file nothing happens; a line that cannot be read leaves the table
\* with the lines before it, and whatever was dirty stays so.
LoadFails ==
  /\ \/ disk = NoFile /\ UNCHANGED <<table, faults>>
     \/ /\ disk # NoFile
        /\ faults < MaxFaults
        /\ \E n \in 0 .. Len(disk.lines) : table' = Loaded(n)
        /\ faults' = faults + 1
  /\ UNCHANGED persistVars

loadUnchanged == <<pool, policy, windowStart, recent, clock, timeVars, disk>>
-----------------------------------------------------------------------------
(* setup *)

BootLoad ==
  /\ mode = "boot"
  /\ \/ LoadOk /\ mode' = "loaded"
     \/ LoadFails /\ mode' = "blind"
  /\ UNCHANGED <<start, localAid, commands, loadUnchanged>>

BootAllocate ==
  /\ mode \in {"loaded", "blind"}
  /\ \/ /\ \E a \in Aid, s \in Slots : Grant(a, s) /\ localAid' = a
        /\ dirty' = TRUE
     \/ /\ Refuse
        /\ localAid' = FallbackAid
        /\ UNCHANGED dirty
  /\ mode' = "window"
  /\ start' = millis
  /\ UNCHANGED <<lastSave, retry, nextRetry, timeVars, disk, commands, faults>>

\* The line "cli" in time.
EnterCli ==
  /\ mode = "window"
  /\ mode' = "cli"
  /\ start' = 0
  /\ UNCHANGED <<allocVars, localAid, persistVars, timeVars, disk, commands, faults>>

EnterRun ==
  /\ WindowOver
  /\ mode' = "run"
  /\ start' = 0
  /\ UNCHANGED <<allocVars, localAid, persistVars, timeVars, disk, commands, faults>>

\* id_persist_tick: in the window, in the command loop and in loop().
PersistTick == TickDue /\ IdSave /\ UNCHANGED commands
-----------------------------------------------------------------------------
(* The commands *)

ExitCli ==
  /\ mode = "cli"
  /\ mode' = "run"
  /\ UNCHANGED <<allocVars, start, localAid, persistVars, timeVars, disk, commands, faults>>

SaveId == Command /\ IdSave

LoadId ==
  /\ Command
  /\ LoadOk \/ LoadFails
  /\ UNCHANGED <<bootVars, loadUnchanged>>

allocUnchanged == <<lastSave, retry, nextRetry, bootVars, timeVars, disk, faults>>

AllocId ==
  /\ Command
  /\ \/ (\E a \in Aid, s \in Slots : Grant(a, s)) /\ dirty' = TRUE
     \/ Refuse /\ UNCHANGED dirty
  /\ UNCHANGED allocUnchanged

\* A slip: a touched lease is not saved.
TouchIdClean ==
  /\ Command
  /\ \E a \in Aid, s \in Slots : Touch(a, s)
  /\ UNCHANGED <<dirty, allocUnchanged>>

TouchId ==
  /\ Command
  /\ \E a \in Aid, s \in Slots : Touch(a, s)
  /\ dirty' = TRUE
  /\ UNCHANGED allocUnchanged

ReleaseId ==
  /\ Command
  /\ \E a \in Aid, s \in Slots : Release(a, s)
  /\ dirty' = TRUE
  /\ UNCHANGED allocUnchanged
-----------------------------------------------------------------------------
\* Power loss, maybe in the middle of a save; then setup() runs again.
PowerLoss ==
  /\ faults < MaxFaults
  /\ \/ disk' = disk
     \/ (TickDue \/ mode = "cli") /\ Torn
  /\ \E p \in Pools : pool' = PoolOf(p) /\ policy' = InitPolicy(p)
  /\ table' = EmptyTable /\ windowStart' = 0 /\ recent' = 0
  /\ clock' = BootTime /\ millis' = 0 /\ offset' = BootTime
  /\ mode' = "boot" /\ start' = 0 /\ localAid' = FallbackAid
  /\ dirty' = FALSE /\ lastSave' = 0 /\ retry' = 0 /\ nextRetry' = 0
  /\ faults' = faults + 1
  /\ UNCHANGED commands

SketchNext ==
  \/ BootLoad \/ BootAllocate \/ EnterCli \/ EnterRun \/ PersistTick
  \/ ExitCli \/ SaveId \/ LoadId \/ AllocId \/ TouchId \/ ReleaseId
  \/ \E t \in SetTimes : SetTime(t)
  \/ TimePasses
  \/ PowerLoss

SketchFairness ==
  /\ WF_sketchVars(TimePasses)
  /\ WF_sketchVars(BootLoad \/ BootAllocate \/ EnterRun)
  /\ WF_sketchVars(PersistTick)

SketchSpec == SketchInit /\ [][SketchNext]_sketchVars /\ SketchFairness
-----------------------------------------------------------------------------
(* Correctness *)

\* Type invariant: the allocator's, and that of the sketch's variables; all its
\* times are values millis() takes.
SketchTypeOK ==
  /\ TypeOK
  /\ millis \in 0 .. MilliMod - 1 /\ lastSave \in 0 .. MilliMod - 1
  /\ nextRetry \in 0 .. MilliMod - 1 /\ start \in 0 .. MilliMod - 1
  /\ offset \in Int
  /\ mode \in {"boot", "loaded", "blind"} \cup Started
  /\ localAid \in Aid \cup {FallbackAid}
  /\ dirty \in BOOLEAN
  /\ retry \in 0 .. MaxRetry
  /\ commands \in 0 .. MaxCommands /\ faults \in 0 .. MaxFaults

UsedLeases == {SavedLine(s) : s \in InUse}

DiskLeases == {disk.lines[i] : i \in 1 .. Len(disk.lines)}

\* A table that is neither dirty nor waiting for a retry has nothing the file
\* has not: whatever was granted, touched, loaded or torn in between, a reboot
\* loses no lease.
CleanIsOnDisk == ~dirty /\ retry = 0 => UsedLeases \subseteq DiskLeases

\* After a load that succeeded the sketch does not lease itself an aid that has
\* a lease on file which has not run out.
LocalAidIsFresh ==
  [][mode = "loaded" /\ mode' = "window" /\ localAid' # FallbackAid
       => \A l \in DiskLeases : l.aid = localAid' => l.until < clock]_sketchVars

\* As long as saving fails only so often, a change is saved at last: however the
\* clock is set, millis() wraps and commands save or load in between.
ChangesAreSaved == dirty ~> ~dirty

=============================================================================
