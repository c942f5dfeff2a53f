----------------------------- MODULE LeaseTable -----------------------------
(***************************************************************************)
(* What the ID allocator of OSynaptic-FX promises its callers: a map from  *)
(* application ids (aids) to the time their lease runs out.  An aid whose  *)
(* lease is alive is never granted again; a lease ends by release, by      *)
(* expiry, or because the whole table is re-initialised.                   *)
(***************************************************************************)
EXTENDS Integers

CONSTANT Aid            \* the ids the allocator can name

VARIABLES lease,        \* lease[a]: the last second of a's lease, or NoLease
          clock         \* the time the callers pass in

tableVars == <<lease, clock>>

NoLease == -1

Empty == [a \in Aid |-> NoLease]

Alive(a) == lease[a] # NoLease /\ clock <= lease[a]

\* The table once every lease that has run out is forgotten.
Swept == [a \in Aid |-> IF Alive(a) THEN lease[a] ELSE NoLease]

Init == /\ lease = Empty
        /\ clock \in Nat

\* The aid granted is one nobody holds a live lease on.
Grant(a) == /\ ~Alive(a)
            /\ lease' = [Swept EXCEPT ![a] = lease'[a]]
            /\ lease'[a] >= clock
            /\ UNCHANGED clock

\* A lease that has run out but is not swept yet may still be renewed.
Renew(a) == /\ lease[a] # NoLease
            /\ lease' = [lease EXCEPT ![a] = lease'[a]]
            /\ lease'[a] >= clock
            /\ UNCHANGED clock

Release(a) == /\ lease[a] # NoLease
              /\ lease' = [lease EXCEPT ![a] = NoLease]
              /\ UNCHANGED clock

Sweep == lease' = Swept /\ UNCHANGED clock

Reset == lease' = Empty /\ UNCHANGED clock

Tick == clock' > clock /\ UNCHANGED lease

Next == \/ \E a \in Aid : Grant(a) \/ Renew(a) \/ Release(a)
        \/ Sweep
        \/ Reset
        \/ Tick

Spec == Init /\ [][Next]_tableVars
=============================================================================
