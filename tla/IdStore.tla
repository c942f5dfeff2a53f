------------------------------- MODULE IdStore ------------------------------
(***************************************************************************)
(* Persistence of the ID allocator (osfx_id_save, osfx_id_load) through    *)
(* the storage abstraction of src/osfx_storage.c, with power loss.         *)
(*                                                                         *)
(* The file is text: three header lines (range, policy, policy_ex), then a *)
(* line for each entry in use.  Neither call is atomic: a save truncates   *)
(* the file and then writes it line by line, a load clears the table and   *)
(* then applies it line by line, and each may stop between two lines,      *)
(* because a line cannot be written or read or because the power goes.     *)
(* Nothing else runs meanwhile: `job' names the call under way.            *)
(***************************************************************************)
EXTENDS IdAllocator, Sequences

VARIABLES
  file,     \* the content of the file
  job,      \* "idle", "saving" or "loading"
  cursor    \* the slot to write next, or the line to read next

storeVars == <<file, job, cursor>>
vars == <<pool, policy, table, windowStart, recent, clock, file, job, cursor>>

Line == [aid : Aid, until : Nat]

\* header: how many of the header lines are there; pool and policy: what they
\* say; complete: the save that wrote the file returned 1.
FileType == [exists : BOOLEAN, header : 0 .. 3, pool : PoolType,
             policy : PolicyType, leases : Seq(Line), complete : BOOLEAN]

Truncated == [exists |-> TRUE, header |-> 0, pool |-> pool, policy |-> policy,
              leases |-> <<>>, complete |-> FALSE]

LastLine == file.header + Len(file.leases)

StoreInit ==
  /\ Init
  /\ file = [Truncated EXCEPT !.exists = FALSE]
  /\ job = "idle"
  /\ cursor = 1

\* Any other call on the allocator.
AllocatorStep ==
  /\ job = "idle"
  /\ Next
  /\ UNCHANGED storeVars
-----------------------------------------------------------------------------
(* osfx_id_save *)

BeginSave ==
  /\ job = "idle"
  /\ file' = Truncated
  /\ job' = "saving"
  /\ cursor' = 1
  /\ UNCHANGED allocVars

WriteHeader ==
  /\ job = "saving"
  /\ file.header < 3
  /\ file' = [file EXCEPT !.header = @ + 1]
  /\ UNCHANGED <<job, cursor, allocVars>>

LineOf(s) == [aid |-> table[s].aid, until |-> table[s].until]

\* A slip: the in_use test of the loop is missing.
WithLineOfAnySlot(lines, s) == Append(lines, LineOf(s))

\* The file's lease lines once the loop has dealt with slot s.
WithLine(lines, s) == IF table[s].inUse THEN Append(lines, LineOf(s)) ELSE lines

WriteEntry ==
  /\ job = "saving"
  /\ file.header = 3
  /\ cursor \in Slots
  /\ file' = [file EXCEPT !.leases = WithLine(@, cursor)]
  /\ cursor' = cursor + 1
  /\ UNCHANGED <<job, allocVars>>

\* A slip: the loop over the entries stops one short.
EndSaveEarly ==
  /\ job = "saving"
  /\ file.header = 3
  /\ cursor = MaxEntries
  /\ file' = [file EXCEPT !.complete = TRUE]
  /\ job' = "idle"
  /\ cursor' = 1
  /\ UNCHANGED allocVars

EndSave ==
  /\ job = "saving"
  /\ file.header = 3
  /\ cursor = MaxEntries + 1
  /\ file' = [file EXCEPT !.complete = TRUE]
  /\ job' = "idle"
  /\ cursor' = 1
  /\ UNCHANGED allocVars

\* A line could not be written, or the close failed: save returns 0 and leaves
\* the file as far as it got.
AbortSave ==
  /\ job = "saving"
  /\ job' = "idle"
  /\ cursor' = 1
  /\ UNCHANGED <<file, allocVars>>
-----------------------------------------------------------------------------
(* osfx_id_load *)

\* Without a file the load returns 0 before it touches the table.
BeginLoad ==
  /\ job = "idle"
  /\ file.exists
  /\ table' = EmptyTable
  /\ job' = "loading"
  /\ cursor' = 1
  /\ UNCHANGED <<pool, policy, windowStart, recent, clock, file>>

\* The factors are in the file with six decimals (%.6f): percentages come back as
\* they were, finer factors would not.

\* The policy line goes through osfx_id_set_policy, ...
PolicyFromShortLine == Normalised(ShortForm(file.policy))

\* ... the policy_ex line through osfx_id_set_policy_ex, with what it does not
\* carry as it is by now.
LongForm(line) ==
  [min            |-> policy.min,
   max            |-> line.max,
   window         |-> line.window,
   threshold      |-> policy.threshold,
   rateFactor     |-> policy.rateFactor,
   watermark      |-> line.watermark,
   pressureFactor |-> line.pressureFactor,
   touchFactor    |-> line.touchFactor,
   adaptive       |-> policy.adaptive]

\* A slip: the policy_ex line goes the way of the policy line.
PolicyFromLongLineShortened == Normalised(ShortForm(file.policy))

PolicyFromLongLine == Normalised(LongForm(file.policy))

ReadHeader ==
  /\ job = "loading"
  /\ cursor <= file.header
  /\ \/ /\ cursor = 1
        /\ pool' = file.pool
        /\ UNCHANGED policy
     \/ /\ cursor = 2
        /\ policy' = PolicyFromShortLine
        /\ UNCHANGED pool
     \/ /\ cursor = 3
        /\ policy' = PolicyFromLongLine
        /\ UNCHANGED pool
  /\ cursor' = cursor + 1
  /\ UNCHANGED <<job, file, table, windowStart, recent, clock>>

\* A lease line goes to the first free slot and is dropped if there is none.
ReadLease ==
  /\ job = "loading"
  /\ cursor > file.header
  /\ cursor <= LastLine
  /\ LET line == file.leases[cursor - file.header]
     IN  IF \E s \in Slots : ~table[s].inUse
         THEN \E s \in Slots :
                /\ AllocSlot(table, s)
                /\ table' = [table EXCEPT ![s] =
                               [inUse |-> TRUE, aid |-> line.aid, until |-> line.until]]
         ELSE UNCHANGED table
  /\ cursor' = cursor + 1
  /\ UNCHANGED <<job, file, pool, policy, windowStart, recent, clock>>

EndLoad ==
  /\ job = "loading"
  /\ cursor = LastLine + 1
  /\ job' = "idle"
  /\ cursor' = 1
  /\ UNCHANGED <<file, allocVars>>

\* read_line failed: load returns 0 with what it had applied so far.
AbortLoad ==
  /\ job = "loading"
  /\ job' = "idle"
  /\ cursor' = 1
  /\ UNCHANGED <<file, allocVars>>
-----------------------------------------------------------------------------
\* Power loss: the memory goes, the file stays as far as it was written, and
\* the program boots with the pool it is built with.
Restart(p) ==
  /\ Reinitialise(p)
  /\ job' = "idle"
  /\ cursor' = 1
  /\ UNCHANGED file

StoreNext ==
  \/ AllocatorStep
  \/ BeginSave
  \/ WriteHeader
  \/ WriteEntry
  \/ EndSave
  \/ AbortSave
  \/ BeginLoad
  \/ ReadHeader
  \/ ReadLease
  \/ EndLoad
  \/ AbortLoad
  \/ \E p \in Pools : Restart(p)

StoreSpec == StoreInit /\ [][StoreNext]_vars
-----------------------------------------------------------------------------
(* Correctness *)

\* Type invariant: the allocator's, and that of the file and the job.
StoreTypeOK ==
  /\ TypeOK
  /\ file \in FileType
  /\ job \in {"idle", "saving", "loading"}
  /\ cursor \in 1 .. MaxEntries + 4

FileLeases == {file.leases[i] : i \in 1 .. Len(file.leases)}

LeasesBelow(n) == {LineOf(s) : s \in {r \in Slots : r < n /\ table[r].inUse}}

TableLeases == LeasesBelow(MaxEntries + 1)

\* No file, not even one a power loss cut short, names an aid twice or holds
\* more leases than the table, ...
FileSound ==
  /\ Len(file.leases) <= MaxEntries
  /\ \A i, j \in 1 .. Len(file.leases) :
       file.leases[i].aid = file.leases[j].aid => i = j

\* ... what a save in progress has written is what the slots before its cursor
\* hold, ...
SaveProgress ==
  job = "saving" => /\ Len(file.leases) < cursor
                    /\ cursor <= MaxEntries + 1
                    /\ FileLeases = LeasesBelow(cursor)

\* ... and a load in progress has put the lease lines before its cursor into the
\* first slots, in order.
LoadProgress ==
  job = "loading" =>
    /\ cursor <= LastLine + 1
    /\ \A s \in Slots :
         IF s < cursor - file.header
         THEN table[s].inUse /\ LineOf(s) = file.leases[s]
         ELSE ~table[s].inUse

\* Whatever save or load is cut short, and wherever, no file names an aid twice
\* (osfx_id_load does not look for duplicates: it relies on it), and table and
\* file agree on the part the call under way has dealt with.
FileConsistent == FileSound /\ SaveProgress /\ LoadProgress

\* A load that runs to its end brings back exactly the leases, the pool and the
\* policy of the file, however full the table was and whatever was in it.  Only
\* a policy whose maximum is below its minimum, which osfx_id_allocator_init
\* makes of a short default lease, comes back changed.
LoadRestores ==
  [][EndLoad =>
       /\ TableLeases = FileLeases
       /\ file.header >= 1 => pool = file.pool
       /\ file.header = 3 /\ file.policy.min <= file.policy.max
            => policy = file.policy]_vars

\* A save that returns 1 has written every lease of the table, and a save that
\* does not has not made up any.
SaveIsFaithful ==
  [][/\ EndSave => FileLeases = TableLeases
     /\ AbortSave => FileLeases \subseteq TableLeases]_vars
=============================================================================
