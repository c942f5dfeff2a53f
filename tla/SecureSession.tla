---------------------------- MODULE SecureSession ---------------------------
(***************************************************************************)
(* The secure session store (src/osfx_secure_session.c): a fixed table of  *)
(* sessions, one per aid.  Both ends of a channel keep one, so the calls   *)
(* are operators from a store to the store they leave behind.              *)
(*                                                                         *)
(* A key is named by the timestamp it is derived from: derive_key is a     *)
(* function of the aid and that timestamp, and both ends use the same aid. *)
(* last_seen, which only tells which sessions a clean-up finds idle, is    *)
(* left out: a clean-up may find any of them idle.                         *)
(***************************************************************************)
EXTENDS Integers, FiniteSets, Sequences

CONSTANT SessionMax   \* OSFX_SESSION_MAX

ASSUME SessionAssumption == SessionMax \in Nat \ {0}

Sessions == 1 .. SessionMax

None == -1

States == {"INIT", "PLAINTEXT_SENT", "DICT_READY", "SECURE"}

\* last is last_data_timestamp; pending and key stand for the pending_key and
\* key with their _set flags, and for pending_timestamp and first_plaintext_ts.
Session == [used : BOOLEAN, aid : Nat, last : Nat,
            pending : Nat \cup {None}, key : Nat \cup {None},
            dict : BOOLEAN, confirmed : BOOLEAN, state : States]

Store == [Sessions -> Session]

\* memset(s, 0, sizeof(*s))
Unused == [used |-> FALSE, aid |-> 0, last |-> 0, pending |-> None,
           key |-> None, dict |-> FALSE, confirmed |-> FALSE, state |-> "INIT"]

StateAgrees(session) ==
  /\ session.state = "SECURE" => session.confirmed
  /\ session.state = "DICT_READY" => session.dict
  /\ session.key # None => session.dict

EmptyStore == [s \in Sessions |-> Unused]

Mine(st, aid) == {s \in Sessions : st[s].used /\ st[s].aid = aid}
Spare(st)     == {s \in Sessions : ~st[s].used}

First(S) == CHOOSE s \in S : \A r \in S : s <= r

\* find_or_alloc: the session of aid, or else the first unused one; a store
\* that is full of others has no room.
HasRoom(st, aid) == Mine(st, aid) # {} \/ Spare(st) # {}

Place(st, aid) == IF Mine(st, aid) # {} THEN First(Mine(st, aid)) ELSE First(Spare(st))

Fresh(aid) == [Unused EXCEPT !.used = TRUE, !.aid = aid]

SessionOf(st, aid) == IF Mine(st, aid) # {} THEN st[First(Mine(st, aid))] ELSE Fresh(aid)

Kept(st, aid, session) ==
  IF HasRoom(st, aid) THEN [st EXCEPT ![Place(st, aid)] = session] ELSE st

\* osfx_secure_note_plaintext_sent
PlaintextNoted(st, aid, ts) ==
  Kept(st, aid, [SessionOf(st, aid) EXCEPT !.pending = ts, !.state = "PLAINTEXT_SENT"])

\* A slip: the key is made of what is pending only.
DictConfirmedBlindly(st, aid, ts) ==
  LET old == SessionOf(st, aid)
  IN  Kept(st, aid, [old EXCEPT !.key = IF old.pending = None THEN 0 ELSE old.pending,
                                !.dict = TRUE, !.state = "DICT_READY"])

\* osfx_secure_confirm_dict: what is pending here decides the key, the
\* timestamp of the message only where nothing is.
DictConfirmed(st, aid, ts) ==
  LET old   == SessionOf(st, aid)
      basis == IF old.pending = None THEN ts ELSE old.pending
  IN  Kept(st, aid, [old EXCEPT !.pending = basis, !.key = basis, !.dict = TRUE,
                                !.state = "DICT_READY"])

\* A slip: the channel is marked in the state only.
ChannelMarkedInState(st, aid) ==
  Kept(st, aid, [SessionOf(st, aid) EXCEPT !.state = "SECURE"])

\* osfx_secure_mark_channel
ChannelMarked(st, aid) ==
  Kept(st, aid, [SessionOf(st, aid) EXCEPT !.confirmed = TRUE, !.state = "SECURE"])

\* osfx_secure_should_encrypt
ShouldEncrypt(st, aid) == \E s \in Mine(st, aid) : st[s].dict /\ st[s].key # None

\* osfx_secure_get_key, None where it fails.
KeyOf(st, aid) == IF Mine(st, aid) # {} THEN st[First(Mine(st, aid))].key ELSE None

\* osfx_secure_is_channel_confirmed
ChannelConfirmed(st, aid) == \E s \in Mine(st, aid) : st[s].confirmed

\* A slip: a session that has no timestamp yet is not told apart.
TimestampResultUndated(st, aid, ts) ==
  LET last == SessionOf(st, aid).last
  IN  IF ~HasRoom(st, aid) THEN "OUT_OF_ORDER"
      ELSE IF ts > last THEN "ACCEPT"
      ELSE IF ts = last THEN "REPLAY"
      ELSE "OUT_OF_ORDER"

\* osfx_secure_check_and_update_timestamp: its result, and what it leaves.
\* A last timestamp of 0 means that there is none.
TimestampResult(st, aid, ts) ==
  LET last == SessionOf(st, aid).last
  IN  IF ~HasRoom(st, aid) THEN "OUT_OF_ORDER"
      ELSE IF last = 0 \/ ts > last THEN "ACCEPT"
      ELSE IF ts = last THEN "REPLAY"
      ELSE "OUT_OF_ORDER"

TimestampChecked(st, aid, ts) ==
  Kept(st, aid, [SessionOf(st, aid) EXCEPT
                   !.last = IF TimestampResult(st, aid, ts) = "ACCEPT" THEN ts ELSE @])

\* osfx_secure_store_cleanup, where the sessions in `idle' have been idle longer
\* than the store's expiry time.
CleanedUp(st, idle) == [s \in Sessions |-> IF s \in idle THEN Unused ELSE st[s]]
-----------------------------------------------------------------------------
(* osfx_secure_store_save and osfx_secure_store_load.  The file is one line  *)
(* per session in use.  The save ignores the result of every write, so its   *)
(* last line may be cut anywhere and the ones after it be missing.           *)

\* The sessions in use, in the order of their slots: the slots of line 1, 2, ...
\* (a set of one function).
LineOrder(st) ==
  LET used == {s \in Sessions : st[s].used}
  IN  {e \in [1 .. Cardinality(used) -> used] :
         \A i, j \in DOMAIN e : i < j => e[i] < e[j]}

\* A line cut inside the key has ten fields left that the format of older
\* files also has, and is read as one: the flags move over by two, the last
\* data timestamp is lost and neither key is legal hex.  A line cut inside the
\* pending key only loses that.
MisreadAsLegacy(session) ==
  [session EXCEPT !.last = 0, !.key = None, !.pending = None,
                  !.dict = (session.pending # None),
                  !.confirmed = session.dict,
                  !.state = IF session.pending # None THEN "DICT_READY" ELSE "INIT"]

CutShort(session) == {MisreadAsLegacy(session), [session EXCEPT !.pending = None]}

\* What a load can make of the file a save of st leaves behind.
SavedLines(st) ==
  UNION {LET first(n) == [i \in 1 .. n |-> st[e[i]]]
         IN  {first(n) : n \in {0} \cup DOMAIN e}
               \cup UNION {{[first(n) EXCEPT ![n] = cut] : cut \in CutShort(st[e[n]])}
                             : n \in DOMAIN e}
           : e \in LineOrder(st)}

\* The lines of a file go to the slots in order.
Loaded(lines) == [s \in Sessions |-> IF s <= Len(lines) THEN lines[s] ELSE Unused]
=============================================================================
