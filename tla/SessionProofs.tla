--------------------------- MODULE SessionProofs ----------------------------
(***************************************************************************)
(* Lemmas on the session store: what a call leaves of every session, for a *)
(* store of any size.  Every call keeps all sessions but the one of its    *)
(* aid, the first of that aid, or else an unused one.                      *)
(***************************************************************************)
EXTENDS SecureSession, FiniteSets, FiniteSetTheorems, TLAPS

\* A set of slots has a first one.  (The slots before it are a smallest set
\* among those before a member.)
LEMMA SmallestOfInterval ==
  ASSUME NEW n \in Nat, NEW S, S \subseteq 1 .. n, S # {}
  PROVE  \E s \in S : \A r \in S : s <= r
<1> DEFINE below(s) == {r \in S : r < s}
           T == {below(s) : s \in S}
<1>1. IsFiniteSet(S) /\ S \subseteq Nat
  <2>1. IsFiniteSet(1 .. n)
    BY FS_Interval
  <2>2. IsFiniteSet(S)
    BY <2>1, FS_Subset, S \in SUBSET (1 .. n)
  <2> QED  BY <2>2
<1>2. T \subseteq FiniteSubsetsOf(S) /\ T # {}
  <2>1. FiniteSubsetsOf(S) = SUBSET S
    BY <1>1, FS_FiniteSubsetsOfFinite
  <2>2. \A C \in T : C \in SUBSET S
    OBVIOUS
  <2>3. PICK s : s \in S
    OBVIOUS
  <2>4. below(s) \in T
    BY <2>3
  <2> HIDE DEF T
  <2> QED  BY <2>1, <2>2, <2>4
<1>3. PICK B \in T : \A C \in T : <<C, B>> \notin StrictSubsetOrdering(S)
  <2> HIDE DEF T
  <2> QED BY <1>1, <1>2, FS_StrictSubsetOrderingWellFounded, WFMin
<1>4. PICK s \in S : B = below(s)
  BY <1>3
<1>5. ASSUME NEW r \in S, r < s PROVE FALSE
  <2>1. below(r) \subseteq below(s)
    <3>1. \A x, y, z \in Nat : x < y /\ y < z => x < z
      OBVIOUS
    <3> QED  BY <1>1, <1>5, <3>1
  <2>2. r \in below(s) /\ r \notin below(r)
    BY <1>1, <1>5
  <2>3. <<below(r), below(s)>> \in StrictSubsetOrdering(S)
    <3>1. below(r) \in SUBSET S /\ below(s) \in SUBSET S /\ below(r) # below(s)
      BY <2>2
    <3> HIDE DEF below
    <3> QED  BY <2>1, <3>1 DEF StrictSubsetOrdering
  <2>4. below(r) \in T
    OBVIOUS
  <2> QED  BY <1>3, <1>4, <2>3, <2>4
<1> QED BY <1>1, <1>5
-----------------------------------------------------------------------------
LEMMA FirstIsIn ==
  ASSUME NEW T \in SUBSET Sessions, T # {}
  PROVE  First(T) \in T
BY SmallestOfInterval, SessionAssumption DEF First, Sessions

LEMMA FreshIs ==
  ASSUME NEW aid \in Nat
  PROVE  /\ Fresh(aid) \in Session /\ Fresh(aid).used /\ Fresh(aid).aid = aid
         /\ Fresh(aid).last = 0 /\ Fresh(aid).pending = None /\ Fresh(aid).key = None
         /\ ~Fresh(aid).dict /\ ~Fresh(aid).confirmed /\ Fresh(aid).state = "INIT"
BY DEF Fresh, Unused, Session, States

LEMMA SessionOfIs ==
  ASSUME NEW st \in Store, NEW aid \in Nat
  PROVE  /\ SessionOf(st, aid) \in Session
         /\ SessionOf(st, aid).used /\ SessionOf(st, aid).aid = aid
         /\ \/ /\ First(Mine(st, aid)) \in Mine(st, aid)
               /\ SessionOf(st, aid) = st[First(Mine(st, aid))]
            \/ /\ Mine(st, aid) = {}
               /\ SessionOf(st, aid) = Fresh(aid)
<1>1. CASE Mine(st, aid) # {}
  <2>1. First(Mine(st, aid)) \in Mine(st, aid)
    BY <1>1, FirstIsIn DEF Mine
  <2> QED  BY <1>1, <2>1 DEF SessionOf, Mine, Store
<1>2. CASE Mine(st, aid) = {}
  BY <1>2, FreshIs DEF SessionOf
<1> QED  BY <1>1, <1>2

\* What is put where the session of an aid is, or would be.
LEMMA KeptIs ==
  ASSUME NEW st \in Store, NEW aid \in Nat, NEW session \in Session
  PROVE  /\ Kept(st, aid, session) \in Store
         /\ \A s \in Sessions :
              \/ Kept(st, aid, session)[s] = st[s]
              \/ /\ Kept(st, aid, session)[s] = session
                 /\ st[s].used => st[s] = SessionOf(st, aid)
         /\ HasRoom(st, aid) =>
              \E s \in Sessions : Kept(st, aid, session)[s] = session
<1>1. CASE ~HasRoom(st, aid)
  BY <1>1 DEF Kept
<1>2. CASE HasRoom(st, aid)
  <2>1. Place(st, aid) \in Sessions
        /\ (st[Place(st, aid)].used => st[Place(st, aid)] = SessionOf(st, aid))
    <3>1. CASE Mine(st, aid) # {}
      BY <3>1, FirstIsIn, Mine(st, aid) \in SUBSET Sessions DEF Place, SessionOf, Mine
    <3>2. CASE Mine(st, aid) = {}
      BY <1>2, <3>2, FirstIsIn, Spare(st) \in SUBSET Sessions DEF Place, Spare, HasRoom
    <3> QED  BY <3>1, <3>2
  <2> QED  BY <1>2, <2>1 DEF Kept, Store
<1> QED  BY <1>1, <1>2

\* A call that leaves a session able to encrypt leaves every aid so that was.
LEMMA KeptEncrypts ==
  ASSUME NEW st \in Store, NEW aid \in Nat, NEW session \in Session,
         session.used, session.aid = aid,
         SessionOf(st, aid).dict /\ SessionOf(st, aid).key # None
           => session.dict /\ session.key # None,
         NEW a, ShouldEncrypt(st, a)
  PROVE  ShouldEncrypt(Kept(st, aid, session), a)
<1>1. PICK s \in Sessions : st[s].used /\ st[s].aid = a /\ st[s].dict /\ st[s].key # None
  BY DEF ShouldEncrypt, Mine
<1>2. \/ Kept(st, aid, session)[s] = st[s]
      \/ Kept(st, aid, session)[s] = session /\ st[s] = SessionOf(st, aid)
  BY <1>1, KeptIs
<1>3. SessionOf(st, aid).aid = aid
  BY SessionOfIs
<1> QED  BY <1>1, <1>2, <1>3 DEF ShouldEncrypt, Mine

\* And the other way round.
LEMMA KeptEncryptsOnly ==
  ASSUME NEW st \in Store, NEW aid \in Nat, NEW session \in Session,
         session.used, session.aid = aid,
         NEW a, ShouldEncrypt(Kept(st, aid, session), a)
  PROVE  \/ ShouldEncrypt(st, a)
         \/ a = aid /\ session.dict /\ session.key # None
<1>1. PICK s \in Sessions :
        LET kept == Kept(st, aid, session)[s]
        IN  kept.used /\ kept.aid = a /\ kept.dict /\ kept.key # None
  BY DEF ShouldEncrypt, Mine
<1>2. CASE Kept(st, aid, session)[s] = st[s]
  BY <1>1, <1>2 DEF ShouldEncrypt, Mine
<1>3. CASE Kept(st, aid, session)[s] = session
  BY <1>1, <1>3
<1> QED  BY <1>2, <1>3, KeptIs

LEMMA SessionOfEncrypts ==
  ASSUME NEW st \in Store, NEW aid \in Nat,
         SessionOf(st, aid).dict, SessionOf(st, aid).key # None
  PROVE  ShouldEncrypt(st, aid)
<1>1. Mine(st, aid) # {}
  BY FreshIs DEF SessionOf
<1>2. PICK s \in Mine(st, aid) : SessionOf(st, aid) = st[s]
  BY <1>1, SessionOfIs
<1> QED  BY <1>2 DEF ShouldEncrypt

StoreOK(st) ==
  /\ st \in Store
  /\ \A s \in Sessions : StateAgrees(st[s])

LEMMA SessionOfAgrees ==
  ASSUME NEW st, StoreOK(st), NEW aid \in Nat
  PROVE  StateAgrees(SessionOf(st, aid))
<1>1. CASE Mine(st, aid) = {}
  BY <1>1, FreshIs DEF SessionOf, StateAgrees
<1>2. CASE Mine(st, aid) # {}
  <2>1. First(Mine(st, aid)) \in Sessions
    BY <1>2, FirstIsIn, Mine(st, aid) \in SUBSET Sessions DEF Mine
  <2> QED  BY <1>2, <2>1 DEF StoreOK, SessionOf
<1> QED  BY <1>1, <1>2

\* The timestamps a store remembers, each with its aid, are in T.
StampsIn(st, T) ==
  \A s \in Sessions : st[s].used /\ st[s].last # 0 => <<st[s].aid, st[s].last>> \in T

LEMMA KeptStamps ==
  ASSUME NEW st \in Store, NEW aid \in Nat, NEW session \in Session, session.aid = aid,
         NEW T, StampsIn(st, T),
         session.last = SessionOf(st, aid).last \/ <<aid, session.last>> \in T
  PROVE  StampsIn(Kept(st, aid, session), T)
<1>1. SessionOf(st, aid).last # 0 => <<aid, SessionOf(st, aid).last>> \in T
  <2>1. CASE Mine(st, aid) = {}
    BY <2>1, FreshIs DEF SessionOf
  <2>2. CASE Mine(st, aid) # {}
    <3>1. First(Mine(st, aid)) \in Mine(st, aid)
      BY <2>2, FirstIsIn, Mine(st, aid) \in SUBSET Sessions DEF Mine
    <3> QED  BY <2>2, <3>1 DEF Mine, StampsIn, SessionOf
  <2> QED  BY <2>1, <2>2
<1> SUFFICES ASSUME NEW s \in Sessions, Kept(st, aid, session)[s].used,
                    Kept(st, aid, session)[s].last # 0
             PROVE  <<Kept(st, aid, session)[s].aid, Kept(st, aid, session)[s].last>> \in T
  BY DEF StampsIn
<1>2. CASE Kept(st, aid, session)[s] = st[s]
  BY <1>2 DEF StampsIn
<1>3. CASE Kept(st, aid, session)[s] = session
  BY <1>1, <1>3
<1> QED  BY <1>2, <1>3, KeptIs

\* The calls that change no key.
LEMMA KeyKept ==
  ASSUME NEW st, StoreOK(st), NEW aid \in Nat, NEW session \in Session, StateAgrees(session),
         session.used, session.aid = aid,
         session.dict = SessionOf(st, aid).dict, session.key = SessionOf(st, aid).key
  PROVE  /\ StoreOK(Kept(st, aid, session))
         /\ \A a : ShouldEncrypt(Kept(st, aid, session), a) <=> ShouldEncrypt(st, a)
<1>1. st \in Store
  BY DEF StoreOK
<1>2. StoreOK(Kept(st, aid, session))
  BY <1>1, KeptIs DEF StoreOK
<1>3. ASSUME NEW a, ShouldEncrypt(st, a) PROVE ShouldEncrypt(Kept(st, aid, session), a)
  BY <1>1, <1>3, KeptEncrypts
<1>4. ASSUME NEW a, ShouldEncrypt(Kept(st, aid, session), a) PROVE ShouldEncrypt(st, a)
  BY <1>1, <1>4, KeptEncryptsOnly, SessionOfEncrypts
<1> QED  BY <1>2, <1>3, <1>4
-----------------------------------------------------------------------------
(* The calls, each as one session put in its place. *)

LEMMA PlaintextNotedForm ==
  ASSUME NEW st, StoreOK(st), NEW aid \in Nat, NEW ts \in Nat
  PROVE  \E x \in Session :
           /\ PlaintextNoted(st, aid, ts) = Kept(st, aid, x)
           /\ x.used /\ x.aid = aid /\ StateAgrees(x)
           /\ x.last = SessionOf(st, aid).last /\ x.pending = ts
           /\ x.key = SessionOf(st, aid).key /\ x.dict = SessionOf(st, aid).dict
<1> DEFINE old == SessionOf(st, aid)
           x   == [old EXCEPT !.pending = ts, !.state = "PLAINTEXT_SENT"]
<1>1. old \in Session /\ StateAgrees(old) /\ old.used /\ old.aid = aid
  BY SessionOfIs, SessionOfAgrees DEF StoreOK
<1>2. /\ x \in Session /\ x.used /\ x.aid = aid /\ StateAgrees(x)
      /\ x.last = old.last /\ x.pending = ts /\ x.key = old.key /\ x.dict = old.dict
  BY <1>1 DEF Session, StateAgrees, States
<1>3. PlaintextNoted(st, aid, ts) = Kept(st, aid, x)
  BY DEF PlaintextNoted
<1> HIDE DEF x
<1> QED  BY <1>2, <1>3

LEMMA ChannelMarkedForm ==
  ASSUME NEW st, StoreOK(st), NEW aid \in Nat
  PROVE  \E x \in Session :
           /\ ChannelMarked(st, aid) = Kept(st, aid, x)
           /\ x.used /\ x.aid = aid /\ StateAgrees(x)
           /\ x.last = SessionOf(st, aid).last /\ x.pending = SessionOf(st, aid).pending
           /\ x.key = SessionOf(st, aid).key /\ x.dict = SessionOf(st, aid).dict
<1> DEFINE old == SessionOf(st, aid)
           x   == [old EXCEPT !.confirmed = TRUE, !.state = "SECURE"]
<1>1. old \in Session /\ StateAgrees(old) /\ old.used /\ old.aid = aid
  BY SessionOfIs, SessionOfAgrees DEF StoreOK
<1>2. /\ x \in Session /\ x.used /\ x.aid = aid /\ StateAgrees(x)
      /\ x.last = old.last /\ x.pending = old.pending /\ x.key = old.key /\ x.dict = old.dict
  BY <1>1 DEF Session, StateAgrees, States
<1>3. ChannelMarked(st, aid) = Kept(st, aid, x)
  BY DEF ChannelMarked
<1> HIDE DEF x
<1> QED  BY <1>2, <1>3

LEMMA TimestampCheckedForm ==
  ASSUME NEW st, StoreOK(st), NEW aid \in Nat, NEW ts \in Nat
  PROVE  \E x \in Session :
           /\ TimestampChecked(st, aid, ts) = Kept(st, aid, x)
           /\ x.used /\ x.aid = aid /\ StateAgrees(x)
           /\ TimestampResult(st, aid, ts) = "ACCEPT" => x.last = ts
           /\ TimestampResult(st, aid, ts) # "ACCEPT" => x.last = SessionOf(st, aid).last
           /\ x.pending = SessionOf(st, aid).pending
           /\ x.key = SessionOf(st, aid).key /\ x.dict = SessionOf(st, aid).dict
<1> DEFINE old == SessionOf(st, aid)
           x   == [old EXCEPT !.last = IF TimestampResult(st, aid, ts) = "ACCEPT" THEN ts ELSE @]
<1>1. old \in Session /\ StateAgrees(old) /\ old.used /\ old.aid = aid
  BY SessionOfIs, SessionOfAgrees DEF StoreOK
<1>2. /\ x \in Session /\ x.used /\ x.aid = aid /\ StateAgrees(x)
      /\ TimestampResult(st, aid, ts) = "ACCEPT" => x.last = ts
      /\ TimestampResult(st, aid, ts) # "ACCEPT" => x.last = old.last
      /\ x.pending = old.pending /\ x.key = old.key /\ x.dict = old.dict
  BY <1>1 DEF Session, StateAgrees
<1>3. TimestampChecked(st, aid, ts) = Kept(st, aid, x)
  BY DEF TimestampChecked
<1> HIDE DEF x
<1> QED  BY <1>2, <1>3

LEMMA DictConfirmedForm ==
  ASSUME NEW st, StoreOK(st), NEW aid \in Nat, NEW ts \in Nat
  PROVE  \E x \in Session :
           /\ DictConfirmed(st, aid, ts) = Kept(st, aid, x)
           /\ x.used /\ x.aid = aid /\ StateAgrees(x)
           /\ x.last = SessionOf(st, aid).last
           /\ x.key \in Nat /\ x.pending = x.key /\ x.dict
           /\ x.key = ts \/ x.key = SessionOf(st, aid).pending
<1> DEFINE old   == SessionOf(st, aid)
           basis == IF old.pending = None THEN ts ELSE old.pending
           x     == [old EXCEPT !.pending = basis, !.key = basis, !.dict = TRUE,
                                !.state = "DICT_READY"]
<1>1. old \in Session /\ old.used /\ old.aid = aid
  BY SessionOfIs DEF StoreOK
<1>2. basis \in Nat /\ (basis = ts \/ basis = old.pending)
  BY <1>1 DEF Session
<1>3. /\ x \in Session /\ x.used /\ x.aid = aid /\ StateAgrees(x)
      /\ x.last = old.last /\ x.key = basis /\ x.pending = basis /\ x.dict
  <2> HIDE DEF basis
  <2> QED  BY <1>1, <1>2 DEF Session, StateAgrees, States
<1>4. DictConfirmed(st, aid, ts) = Kept(st, aid, x)
  BY DEF DictConfirmed
<1> HIDE DEF x, basis
<1> QED  BY <1>2, <1>3, <1>4
-----------------------------------------------------------------------------
LEMMA PlaintextNotedIs ==
  ASSUME NEW st, StoreOK(st), NEW aid \in Nat, NEW ts \in Nat
  PROVE  /\ StoreOK(PlaintextNoted(st, aid, ts))
         /\ \A a : ShouldEncrypt(PlaintextNoted(st, aid, ts), a) <=> ShouldEncrypt(st, a)
<1>1. PICK x \in Session :
        /\ PlaintextNoted(st, aid, ts) = Kept(st, aid, x)
        /\ x.used /\ x.aid = aid /\ StateAgrees(x)
        /\ x.key = SessionOf(st, aid).key /\ x.dict = SessionOf(st, aid).dict
  BY PlaintextNotedForm
<1> QED  BY <1>1, KeyKept

LEMMA ChannelMarkedIs ==
  ASSUME NEW st, StoreOK(st), NEW aid \in Nat
  PROVE  /\ StoreOK(ChannelMarked(st, aid))
         /\ \A a : ShouldEncrypt(ChannelMarked(st, aid), a) <=> ShouldEncrypt(st, a)
         /\ \A T : StampsIn(st, T) => StampsIn(ChannelMarked(st, aid), T)
<1>1. PICK x \in Session :
        /\ ChannelMarked(st, aid) = Kept(st, aid, x)
        /\ x.used /\ x.aid = aid /\ StateAgrees(x) /\ x.last = SessionOf(st, aid).last
        /\ x.key = SessionOf(st, aid).key /\ x.dict = SessionOf(st, aid).dict
  BY ChannelMarkedForm
<1>2. ASSUME NEW T, StampsIn(st, T) PROVE StampsIn(Kept(st, aid, x), T)
  BY <1>1, <1>2, KeptStamps DEF StoreOK
<1> QED  BY <1>1, <1>2, KeyKept

LEMMA TimestampCheckedIs ==
  ASSUME NEW st, StoreOK(st), NEW aid \in Nat, NEW ts \in Nat
  PROVE  /\ StoreOK(TimestampChecked(st, aid, ts))
         /\ \A a : ShouldEncrypt(TimestampChecked(st, aid, ts), a) <=> ShouldEncrypt(st, a)
         /\ HasRoom(st, aid) => HasRoom(TimestampChecked(st, aid, ts), aid)
         /\ \A T : StampsIn(st, T)
                    /\ (TimestampResult(st, aid, ts) = "ACCEPT" => <<aid, ts>> \in T)
                    => StampsIn(TimestampChecked(st, aid, ts), T)
<1>1. PICK x \in Session :
        /\ TimestampChecked(st, aid, ts) = Kept(st, aid, x)
        /\ x.used /\ x.aid = aid /\ StateAgrees(x)
        /\ TimestampResult(st, aid, ts) = "ACCEPT" => x.last = ts
        /\ TimestampResult(st, aid, ts) # "ACCEPT" => x.last = SessionOf(st, aid).last
        /\ x.key = SessionOf(st, aid).key /\ x.dict = SessionOf(st, aid).dict
  BY TimestampCheckedForm
<1>2. HasRoom(st, aid) => HasRoom(Kept(st, aid, x), aid)
  BY <1>1, KeptIs DEF StoreOK, HasRoom, Mine
<1>3. ASSUME NEW T, StampsIn(st, T),
             TimestampResult(st, aid, ts) = "ACCEPT" => <<aid, ts>> \in T
      PROVE  StampsIn(Kept(st, aid, x), T)
  <2>1. st \in Store /\ (x.last = SessionOf(st, aid).last \/ <<aid, x.last>> \in T)
    BY <1>1, <1>3 DEF StoreOK
  <2> QED  BY <1>1, <1>3, <2>1, KeptStamps
<1> QED  BY <1>1, <1>2, <1>3, KeyKept

LEMMA DictConfirmedIs ==
  ASSUME NEW st, StoreOK(st), NEW aid \in Nat, NEW ts \in Nat
  PROVE  /\ StoreOK(DictConfirmed(st, aid, ts))
         /\ \A a : ShouldEncrypt(st, a) => ShouldEncrypt(DictConfirmed(st, aid, ts), a)
         /\ \A a : ShouldEncrypt(DictConfirmed(st, aid, ts), a) => ShouldEncrypt(st, a) \/ a = aid
         /\ HasRoom(st, aid) => ShouldEncrypt(DictConfirmed(st, aid, ts), aid)
         /\ \A T : StampsIn(st, T) => StampsIn(DictConfirmed(st, aid, ts), T)
<1>1. PICK x \in Session :
        /\ DictConfirmed(st, aid, ts) = Kept(st, aid, x)
        /\ x.used /\ x.aid = aid /\ StateAgrees(x)
        /\ x.last = SessionOf(st, aid).last
        /\ x.key \in Nat /\ x.pending = x.key /\ x.dict
        /\ x.key = ts \/ x.key = SessionOf(st, aid).pending
  BY DictConfirmedForm
<1>2. st \in Store /\ x.key # None
  <2>1. st \in Store
    BY DEF StoreOK
  <2>2. x.key # None
    BY <1>1 DEF None
  <2> QED  BY <2>1, <2>2
<1>3. StoreOK(Kept(st, aid, x))
  BY <1>1, <1>2, KeptIs DEF StoreOK
<1>4. ASSUME NEW a, ShouldEncrypt(st, a) PROVE ShouldEncrypt(Kept(st, aid, x), a)
  BY <1>1, <1>2, <1>4, KeptEncrypts
<1>5. ASSUME NEW a, ShouldEncrypt(Kept(st, aid, x), a)
      PROVE  ShouldEncrypt(st, a) \/ a = aid
  BY <1>1, <1>2, <1>5, KeptEncryptsOnly
<1>6. HasRoom(st, aid) => ShouldEncrypt(Kept(st, aid, x), aid)
  BY <1>1, <1>2, KeptIs DEF ShouldEncrypt, Mine
<1>7. ASSUME NEW T, StampsIn(st, T) PROVE StampsIn(Kept(st, aid, x), T)
  BY <1>1, <1>2, <1>7, KeptStamps
<1> QED  BY <1>1, <1>3, <1>4, <1>5, <1>6, <1>7
-----------------------------------------------------------------------------
(* One session per aid *)

OnePerAid(st) ==
  \A s, t \in Sessions : st[s].used /\ st[t].used /\ st[s].aid = st[t].aid => s = t

LEMMA KeptOne ==
  ASSUME NEW st \in Store, OnePerAid(st), NEW aid \in Nat, NEW session \in Session,
         session.used, session.aid = aid
  PROVE  OnePerAid(Kept(st, aid, session))
<1>1. CASE ~HasRoom(st, aid)
  BY <1>1 DEF Kept
<1>2. CASE HasRoom(st, aid)
  <2> DEFINE p == Place(st, aid)
  <2>1. p \in Sessions /\ \A s \in Sessions : st[s].used /\ st[s].aid = aid => s = p
    <3>1. CASE Mine(st, aid) # {}
      BY <3>1, FirstIsIn, Mine(st, aid) \in SUBSET Sessions DEF Place, Mine, OnePerAid
    <3>2. CASE Mine(st, aid) = {}
      BY <1>2, <3>2, FirstIsIn, Spare(st) \in SUBSET Sessions DEF Place, Spare, HasRoom, Mine
    <3> QED  BY <3>1, <3>2
  <2>2. Kept(st, aid, session) = [st EXCEPT ![p] = session]
    BY <1>2 DEF Kept
  <2> HIDE DEF p
  <2> QED  BY <2>1, <2>2 DEF OnePerAid, Store
<1> QED  BY <1>1, <1>2

LEMMA SessionAt ==
  ASSUME NEW st \in Store, OnePerAid(st), NEW a, NEW s \in Mine(st, a)
  PROVE  SessionOf(st, a) = st[s] /\ KeyOf(st, a) = st[s].key
<1>1. First(Mine(st, a)) \in Mine(st, a)
  BY FirstIsIn, Mine(st, a) \in SUBSET Sessions DEF Mine
<1>2. First(Mine(st, a)) = s
  BY <1>1 DEF OnePerAid, Mine
<1> QED  BY <1>2 DEF SessionOf, KeyOf

\* Another aid's key stays, and this aid's is the new session's.
LEMMA KeptKey ==
  ASSUME NEW st \in Store, OnePerAid(st), NEW aid \in Nat, NEW session \in Session,
         session.used, session.aid = aid, NEW a, KeyOf(st, a) # None
  PROVE  \/ KeyOf(Kept(st, aid, session), a) = KeyOf(st, a)
         \/ /\ a = aid /\ KeyOf(Kept(st, aid, session), a) = session.key
            /\ KeyOf(st, a) = SessionOf(st, aid).key
<1>1. PICK s \in Mine(st, a) : KeyOf(st, a) = st[s].key /\ SessionOf(st, a) = st[s]
  BY SessionAt DEF KeyOf
<1>2. s \in Sessions /\ st[s].used /\ st[s].aid = a
  BY DEF Mine
<1>3. Kept(st, aid, session) \in Store /\ OnePerAid(Kept(st, aid, session))
  BY KeptIs, KeptOne
<1>4. CASE Kept(st, aid, session)[s] = st[s]
  <2>1. s \in Mine(Kept(st, aid, session), a)
    BY <1>2, <1>4 DEF Mine
  <2> QED  BY <1>1, <1>3, <1>4, <2>1, SessionAt
<1>5. CASE Kept(st, aid, session)[s] = session /\ st[s] = SessionOf(st, aid)
  <2>1. a = aid
    BY <1>2, <1>5, SessionOfIs
  <2>2. s \in Mine(Kept(st, aid, session), a)
    BY <1>2, <1>5, <2>1 DEF Mine
  <2> QED  BY <1>1, <1>3, <1>5, <2>1, <2>2, SessionAt
<1> QED  BY <1>2, <1>4, <1>5, KeptIs

-----------------------------------------------------------------------------
(* The file *)

LEMMA UsedCount ==
  ASSUME NEW U \in SUBSET Sessions
  PROVE  Cardinality(U) \in Nat /\ Cardinality(U) <= SessionMax
<1>1. IsFiniteSet(Sessions) /\ Cardinality(Sessions) = SessionMax
  BY FS_Interval, SessionAssumption DEF Sessions
<1> QED  BY <1>1, FS_Subset, FS_CardinalityType

\* The lines of a file and the sessions they were made of.
LinesOf(f, st, e) ==
  /\ Len(f) <= SessionMax
  /\ e \in [1 .. Len(f) -> Sessions]
  /\ \A i, j \in 1 .. Len(f) : e[i] = e[j] => i = j
  /\ \A i \in 1 .. Len(f) :
       st[e[i]].used /\ (f[i] = st[e[i]] \/ f[i] \in CutShort(st[e[i]]))

LEMMA CutShortIs ==
  ASSUME NEW session \in Session, NEW cut \in CutShort(session)
  PROVE  /\ cut \in Session /\ cut.used = session.used /\ cut.aid = session.aid
         /\ cut.pending = None
         /\ cut.key = session.key \/ cut.key = None
         /\ StateAgrees(session) => StateAgrees(cut)
<1>1. CASE cut = MisreadAsLegacy(session)
  BY <1>1 DEF MisreadAsLegacy, Session, StateAgrees, States
<1>2. CASE cut = [session EXCEPT !.pending = None]
  BY <1>2 DEF Session, StateAgrees, States
<1> QED  BY <1>1, <1>2 DEF CutShort

LEMMA SavedIs ==
  ASSUME NEW st \in Store, NEW f \in SavedLines(st)
  PROVE  f \in Seq(Session) /\ \E e : LinesOf(f, st, e)
<1> DEFINE used     == {s \in Sessions : st[s].used}
           k        == Cardinality(used)
           first(e, n) == [i \in 1 .. n |-> st[e[i]]]
<1>1. k \in Nat /\ k <= SessionMax
  BY UsedCount
<1>2. PICK e \in LineOrder(st) :
        \/ f \in {first(e, n) : n \in {0} \cup DOMAIN e}
        \/ \E n \in DOMAIN e : f \in {[first(e, n) EXCEPT ![n] = cut] : cut \in CutShort(st[e[n]])}
  BY DEF SavedLines
<1>3. e \in [1 .. k -> used] /\ \A i, j \in 1 .. k : i < j => e[i] < e[j]
  BY <1>2 DEF LineOrder
<1> DEFINE made(n) ==
      \/ f = first(e, n)
      \/ n # 0 /\ \E cut \in CutShort(st[e[n]]) : f = [first(e, n) EXCEPT ![n] = cut]
<1>d. DOMAIN e = 1 .. k
  BY <1>3
<1>4. \E n \in 0 .. k : made(n)
  <2>1. ASSUME NEW n \in DOMAIN e,
               f \in {[first(e, n) EXCEPT ![n] = cut] : cut \in CutShort(st[e[n]])}
        PROVE  n \in 0 .. k /\ made(n)
    <3>1. n \in 0 .. k /\ n # 0
      BY <1>1, <1>d
    <3> QED  BY <2>1, <3>1
  <2>2. ASSUME f \in {first(e, n) : n \in {0} \cup DOMAIN e} PROVE \E n \in 0 .. k : made(n)
    <3>1. PICK n \in {0} \cup 1 .. k : f = first(e, n)
      BY <1>d, <2>2
    <3>2. n \in 0 .. k
      BY <1>1
    <3> QED  BY <3>1, <3>2
  <2> QED  BY <1>2, <2>1, <2>2
<1>n. PICK n \in 0 .. k : made(n)
  BY <1>4
<1>5. \A i \in 1 .. n : i \in 1 .. k /\ e[i] \in Sessions /\ st[e[i]].used /\ st[e[i]] \in Session
  BY <1>1, <1>3 DEF Store
<1>6. /\ f \in Seq(Session) /\ Len(f) = n
      /\ \A i \in 1 .. n : f[i] = st[e[i]] \/ f[i] \in CutShort(st[e[i]])
  <2>1. first(e, n) \in [1 .. n -> Session]
    BY <1>5
  <2>2. CASE f = first(e, n)
    BY <1>1, <2>1, <2>2
  <2>3. ASSUME n # 0, NEW cut \in CutShort(st[e[n]]), f = [first(e, n) EXCEPT ![n] = cut]
        PROVE  <1>6
    <3>1. n \in 1 .. n /\ cut \in Session
      BY <1>1, <1>5, <2>3, CutShortIs
    <3>2. f \in [1 .. n -> Session]
      BY <2>1, <2>3, <3>1
    <3>3. \A i \in 1 .. n : f[i] = IF i = n THEN cut ELSE st[e[i]]
      BY <2>3
    <3> QED  BY <1>1, <3>1, <3>2, <3>3
  <2> QED  BY <1>n, <2>2, <2>3
<1>7. \A i, j \in 1 .. n : e[i] = e[j] => i = j
  <2> SUFFICES ASSUME NEW i \in 1 .. n, NEW j \in 1 .. n, i # j PROVE e[i] # e[j]
    OBVIOUS
  <2>1. e[i] \in Nat /\ e[j] \in Nat
    BY <1>5 DEF Sessions
  <2> QED  BY <1>3, <1>5, <2>1
<1> DEFINE slots == [i \in 1 .. n |-> e[i]]
<1>8. slots \in [1 .. n -> Sessions] /\ \A i \in 1 .. n : slots[i] = e[i]
  BY <1>5
<1>9. Len(f) = n /\ n <= SessionMax
  BY <1>1, <1>6, SessionAssumption
<1>10. \A i, j \in 1 .. n : slots[i] = slots[j] => i = j
  BY <1>7, <1>8
<1>11. \A i \in 1 .. n :
         st[slots[i]].used /\ (f[i] = st[slots[i]] \/ f[i] \in CutShort(st[slots[i]]))
  BY <1>5, <1>6, <1>8
<1> HIDE DEF slots, first, made, k, used
<1>12. LinesOf(f, st, slots)
  BY <1>8, <1>9, <1>10, <1>11 DEF LinesOf
<1> QED  BY <1>6, <1>12

LinesOK(f) ==
  /\ f \in Seq(Session) /\ Len(f) <= SessionMax
  /\ \A i \in 1 .. Len(f) : f[i].used /\ StateAgrees(f[i])
  /\ \A i, j \in 1 .. Len(f) : f[i].aid = f[j].aid => i = j

LEMMA SavedOK ==
  ASSUME NEW st, StoreOK(st), OnePerAid(st), NEW f \in SavedLines(st),
         NEW G, \A s \in Sessions : st[s] \in G,
         \A x \in G \cap Session : CutShort(x) \subseteq G
  PROVE  LinesOK(f) /\ \A i \in 1 .. Len(f) : f[i] \in G
<1>0. st \in Store
  BY DEF StoreOK
<1>1. f \in Seq(Session)
  BY <1>0, SavedIs
<1>2. PICK e : LinesOf(f, st, e)
  BY <1>0, SavedIs
<1>3. ASSUME NEW i \in 1 .. Len(f)
      PROVE  /\ e[i] \in Sessions /\ st[e[i]].used /\ f[i].aid = st[e[i]].aid
             /\ f[i].used /\ StateAgrees(f[i]) /\ f[i] \in G
  <2>1. e[i] \in Sessions /\ st[e[i]].used /\ st[e[i]] \in Session /\ StateAgrees(st[e[i]])
    BY <1>2 DEF LinesOf, StoreOK, Store
  <2>2. CASE f[i] = st[e[i]]
    BY <2>1, <2>2
  <2>3. CASE f[i] \in CutShort(st[e[i]])
    BY <2>1, <2>3, CutShortIs
  <2> QED  BY <1>2, <2>2, <2>3 DEF LinesOf
<1>4. \A i, j \in 1 .. Len(f) : f[i].aid = f[j].aid => i = j
  BY <1>2, <1>3 DEF LinesOf, OnePerAid
<1> QED  BY <1>1, <1>2, <1>3, <1>4 DEF LinesOK, LinesOf

\* A line that still has its key has the last timestamp of its session.
LEMMA SavedLast ==
  ASSUME NEW st \in Store, NEW f \in SavedLines(st), NEW i \in 1 .. Len(f), f[i].key # None
  PROVE  /\ f[i].used
         /\ \E s \in Sessions : st[s].used /\ st[s].aid = f[i].aid /\ st[s].last = f[i].last
<1>1. PICK e : LinesOf(f, st, e)
  BY SavedIs
<1>2. e[i] \in Sessions /\ st[e[i]].used /\ st[e[i]] \in Session
  BY <1>1 DEF LinesOf, Store
<1>3. CASE f[i] = st[e[i]]
  BY <1>2, <1>3
<1>4. CASE f[i] \in CutShort(st[e[i]])
  <2>1. MisreadAsLegacy(st[e[i]]).key = None
    BY <1>2 DEF MisreadAsLegacy, Session
  <2>2. f[i] = [st[e[i]] EXCEPT !.pending = None]
    BY <1>4, <2>1 DEF CutShort
  <2> QED  BY <1>2, <2>2 DEF Session
<1> QED  BY <1>1, <1>3, <1>4 DEF LinesOf

LEMMA UnusedIs ==
  /\ Unused \in Session /\ StateAgrees(Unused) /\ ~Unused.used
  /\ Unused.key = None /\ Unused.pending = None
BY DEF Unused, Session, States, StateAgrees

LEMMA LoadedIs ==
  ASSUME NEW f, LinesOK(f)
  PROVE  /\ StoreOK(Loaded(f)) /\ OnePerAid(Loaded(f))
         /\ \A s \in Sessions :
              Loaded(f)[s] = Unused \/ \E i \in 1 .. Len(f) : Loaded(f)[s] = f[i]
<1>1. ASSUME NEW s \in Sessions
      PROVE  \/ s \notin 1 .. Len(f) /\ Loaded(f)[s] = Unused
             \/ s \in 1 .. Len(f) /\ Loaded(f)[s] = f[s]
  BY DEF Loaded, Sessions, LinesOK
<1>2. \A i \in 1 .. Len(f) : f[i] \in Session
  BY DEF LinesOK
<1>3. Loaded(f) \in Store
  <2>1. \A s \in Sessions : Loaded(f)[s] \in Session
    BY <1>1, <1>2, UnusedIs
  <2> QED  BY <2>1 DEF Loaded, Store
<1> QED  BY <1>1, <1>3, UnusedIs DEF StoreOK, OnePerAid, LinesOK

LEMMA LoadedLine ==
  ASSUME NEW f, LinesOK(f), NEW i \in 1 .. Len(f)
  PROVE  i \in Sessions /\ Loaded(f)[i] = f[i]
BY SessionAssumption DEF Loaded, Sessions, LinesOK

LEMMA CleanedIs ==
  ASSUME NEW st, StoreOK(st), OnePerAid(st), NEW idle
  PROVE  /\ StoreOK(CleanedUp(st, idle)) /\ OnePerAid(CleanedUp(st, idle))
         /\ \A s \in Sessions :
              CleanedUp(st, idle)[s] = Unused \/ CleanedUp(st, idle)[s] = st[s]
<1>1. /\ CleanedUp(st, idle) \in Store
      /\ \A s \in Sessions :
           CleanedUp(st, idle)[s] = Unused \/ CleanedUp(st, idle)[s] = st[s]
  BY UnusedIs DEF CleanedUp, StoreOK, Store
<1> QED  BY <1>1, UnusedIs DEF StoreOK, OnePerAid
-----------------------------------------------------------------------------
\* No session that may encrypt: no key.
LEMMA NoKeyLeft ==
  ASSUME NEW st, StoreOK(st), NEW a, ~ShouldEncrypt(st, a)
  PROVE  KeyOf(st, a) = None
<1>1. CASE Mine(st, a) = {}
  BY <1>1 DEF KeyOf
<1>2. CASE Mine(st, a) # {}
  <2>1. First(Mine(st, a)) \in Mine(st, a)
    BY <1>2, FirstIsIn, Mine(st, a) \in SUBSET Sessions DEF Mine
  <2> QED  BY <1>2, <2>1 DEF KeyOf, ShouldEncrypt, Mine, StoreOK, StateAgrees
<1> QED  BY <1>1, <1>2

\* A packet of a session that took a later one already.
Covered(st, a, ts) == \E s \in Mine(st, a) : st[s].last >= ts

LEMMA KeptCovered ==
  ASSUME NEW st \in Store, NEW aid \in Nat, NEW session \in Session,
         session.used, session.aid = aid, session.last >= SessionOf(st, aid).last,
         NEW a, NEW ts \in Nat, Covered(st, a, ts)
  PROVE  Covered(Kept(st, aid, session), a, ts)
<1>1. PICK s \in Sessions : st[s].used /\ st[s].aid = a /\ st[s].last >= ts
  BY DEF Covered, Mine
<1>2. CASE Kept(st, aid, session)[s] = st[s]
  BY <1>1, <1>2 DEF Covered, Mine
<1>3. CASE Kept(st, aid, session)[s] = session /\ st[s] = SessionOf(st, aid)
  <2>1. a = aid /\ session.last \in Nat /\ SessionOf(st, aid).last \in Nat
    BY <1>1, <1>3, SessionOfIs DEF Session
  <2>2. session.last >= ts
    BY <1>1, <1>3, <2>1
  <2>3. s \in Mine(Kept(st, aid, session), a)
    BY <1>3, <2>1 DEF Mine
  <2> QED  BY <1>3, <2>2, <2>3 DEF Covered
<1> QED  BY <1>1, <1>2, <1>3, KeptIs

\* What the server accepts was not covered.
LEMMA AcceptedIsNew ==
  ASSUME NEW st \in Store, OnePerAid(st), NEW a, NEW ts \in Nat, ts > 0,
         TimestampResult(st, a, ts) = "ACCEPT"
  PROVE  ~Covered(st, a, ts)
<1> SUFFICES ASSUME NEW s \in Mine(st, a), st[s].last >= ts PROVE FALSE
  BY DEF Covered
<1>1. SessionOf(st, a) = st[s] /\ st[s].last \in Nat
  BY SessionAt DEF Mine, Store, Session
<1> QED  BY <1>1 DEF TimestampResult
=============================================================================
