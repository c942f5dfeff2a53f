----------------------------- MODULE FusionState ----------------------------
(***************************************************************************)
(* Fusion coding (src/osfx_fusion_state.c): an encoder and a decoder that  *)
(* each cache the last body of every stream (aid and template id), so that *)
(* a body costs a FULL, a DIFF of what changed, or an empty HEART.  The    *)
(* packets travel in order, but any may be lost, repeated by a transport   *)
(* that retries, or damaged: the decoder does not look at the checksums.   *)
(* The encoder may fail after it has moved its cache; packets that never   *)
(* saw the cache may be mixed in; the decoder may be reset.                *)
(*                                                                         *)
(* A body is a header and sensors.  A sensor is a tag and its META and VAL *)
(* slots; fits tells whether a text is within the limits of the cache.     *)
(* Timestamps are in every packet and not part of the body.                *)
(***************************************************************************)
EXTENDS SlotOrder, Sequences

CONSTANTS
  Streams,
  EncEntries,    \* OSFX_FUSION_MAX_ENTRIES at the encoder
  MaxEntries,    \* OSFX_FUSION_MAX_ENTRIES at the decoder
  MaxSensors,    \* OSFX_FUSION_MAX_SENSORS
  MaxChannel,    \* bound: packets under way
  MaxFaults      \* bound: losses, repeats, damages, failed encodes and resets

ASSUME FusionAssumption ==
  /\ EncEntries \in Nat /\ MaxEntries \in Nat /\ MaxSensors \in Nat \ {0}
  /\ MaxChannel \in Nat /\ MaxFaults \in Nat

VARIABLES
  enc,       \* the encoder's entry of each stream
  dec,       \* the decoder's
  chan,      \* the packets under way
  stale,     \* history: streams the decoder has missed something of
  got,       \* history: the body the last step handed on, and the one it was coded from
  faults     \* how many faults there have been

vars == <<enc, dec, chan, stale, got, faults>>

NoEntry == [header |-> <<>>, tags |-> <<>>, vals |-> <<>>]

Fitting(sensors) == {i \in 1 .. Len(sensors) : sensors[i].fits}

\* The first n of them, or all.
FirstFitting(n, sensors) ==
  LET k == Cardinality(Fitting(sensors))
  IN  [i \in 1 .. IF k < n THEN k ELSE n |-> sensors[NthSlot(Fitting(sensors), i)]]

\* A slip: the sensor limit is off by one.
SlotsBeyond(sensors) == FirstFitting(MaxSensors + 1, sensors)

\* The sensors parse_body_slots keeps: it skips those that do not fit, one by
\* one, and stops at the limit.
Slots(sensors) == FirstFitting(MaxSensors, sensors)

\* Two slots per sensor, META before VAL.
Parsed(b) ==
  LET kept == IF b.fits THEN Slots(b.sensors) ELSE <<>>
  IN  IF kept = <<>> THEN NoEntry
      ELSE [header |-> b.header,
            tags |-> [i \in 1 .. Len(kept) |-> kept[i].tag],
            vals |-> [j \in 1 .. 2 * Len(kept) |->
                        IF j % 2 = 1 THEN kept[(j + 1) \div 2].meta ELSE kept[j \div 2].val]]

\* reconstruct_body
Rebuilt(e) ==
  [header |-> e.header,
   fits |-> TRUE,
   sensors |-> [i \in 1 .. Len(e.tags) |->
                  [tag |-> e.tags[i], meta |-> e.vals[2 * i - 1], val |-> e.vals[2 * i],
                   fits |-> TRUE]]]

Changed(e, new) == {j \in 1 .. Len(new.vals) : e.vals[j] # new.vals[j]}

\* A slip: the tags are not compared.
SameStructureByCount(e, new) == e.header = new.header /\ Len(e.vals) = Len(new.vals)

SameStructure(e, new) == e.header = new.header /\ e.tags = new.tags

\* find_entry or alloc_entry: entries are never given up again.
Room(t, s, entries) ==
  t[s] # NoEntry \/ Cardinality({r \in Streams : t[r] # NoEntry}) < entries

\* body is history: what the packet was made for.  text is what a FULL carries of
\* it.  sure is history: the packet does with the decoder's cache what was done
\* with the encoder's when it was made.
Full(s, b)     == [cmd |-> "FULL", stream |-> s, body |-> b, text |-> b, sure |-> TRUE]
Diff(s, b, ch) == [cmd |-> "DIFF", stream |-> s, body |-> b, changes |-> ch, sure |-> TRUE]
Heart(s, b)    == [cmd |-> "HEART", stream |-> s, body |-> b]
Lost(s)        == [cmd |-> "LOST", stream |-> s]

Nothing == [cmd |-> "NONE", stream |-> "none"]

Init ==
  /\ enc = [s \in Streams |-> NoEntry]
  /\ dec = [s \in Streams |-> NoEntry]
  /\ chan = <<>>
  /\ stale = {}
  /\ got = Nothing
  /\ faults = 0
-----------------------------------------------------------------------------
(* osfx_fusion_encode *)

\* The packet and the cache for body b of stream s.  A body without a usable
\* sensor goes out in full and past the cache.
PacketFor(s, b) ==
  LET new == Parsed(b)
      old == enc[s]
  IN  IF new = NoEntry \/ ~SameStructure(old, new) THEN Full(s, b)
      ELSE IF old.vals = new.vals THEN Heart(s, b)
      ELSE Diff(s, b, [i \in Changed(old, new) |-> new.vals[i]])

\* Without room for its stream a body that parses is refused, one that does not
\* goes out.
Encodable(s, b) == Parsed(b) = NoEntry \/ Room(enc, s, EncEntries)

CachedFor(s, b) == IF Parsed(b) = NoEntry THEN enc[s] ELSE Parsed(b)

Encode(s, b) ==
  /\ Encodable(s, b)
  /\ Len(chan) < MaxChannel
  /\ chan' = Append(chan, PacketFor(s, b))
  /\ enc' = [enc EXCEPT ![s] = CachedFor(s, b)]
  /\ got' = Nothing
  /\ UNCHANGED <<dec, stale, faults>>

\* The packet does not fit the caller's buffer: encode returns 0, but the cache
\* is already the new body's.
EncodeFails(s, b) ==
  /\ Encodable(s, b)
  /\ faults < MaxFaults
  /\ Len(chan) < MaxChannel
  /\ enc' = [enc EXCEPT ![s] = CachedFor(s, b)]
  /\ chan' = IF enc'[s] = enc[s] THEN chan ELSE Append(chan, Lost(s))
  /\ faults' = faults + 1
  /\ got' = Nothing
  /\ UNCHANGED <<dec, stale>>

\* A FULL that some other encoder of the sender made: this cache does not know,
\* which the decoder's will unless the body does not parse.
SendPast(s, b) ==
  /\ Len(chan) < MaxChannel
  /\ faults < MaxFaults
  /\ chan' = Append(chan, [Full(s, b) EXCEPT !.sure = Parsed(b) = NoEntry])
  /\ faults' = faults + 1
  /\ got' = Nothing
  /\ UNCHANGED <<enc, dec, stale>>
-----------------------------------------------------------------------------
(* osfx_fusion_decode_apply *)

Head1 == Head(chan)

\* What a FULL carries is handed on as it is, and cached if it parses and there
\* is room, damaged or not.
DecodeFull ==
  /\ Head1.cmd = "FULL"
  /\ LET s   == Head1.stream
         new == Parsed(Head1.text)
     IN  IF new # NoEntry /\ Room(dec, s, MaxEntries)
         THEN /\ dec' = [dec EXCEPT ![s] = new]
              /\ stale' = IF Head1.sure THEN stale \ {s} ELSE stale \cup {s}
         ELSE /\ UNCHANGED dec
              /\ stale' = IF Head1.sure THEN stale ELSE stale \cup {s}
  /\ got' = [cmd |-> "FULL", stream |-> Head1.stream, in |-> Head1.body, out |-> Head1.text,
             whole |-> Head1.text = Head1.body]

\* A slip: one change is taken.
AppliedOnce(e, changes) ==
  [e EXCEPT !.vals = [i \in DOMAIN @ |->
     IF i \in DOMAIN changes /\ (\A k \in DOMAIN changes : i <= k) THEN changes[i] ELSE @[i]]]

\* The changes of a DIFF, in place; bits beyond the entry's slots are ignored.
Applied(e, changes) ==
  [e EXCEPT !.vals = [i \in DOMAIN @ |-> IF i \in DOMAIN changes THEN changes[i] ELSE @[i]]]

DecodeDiff ==
  /\ Head1.cmd = "DIFF"
  /\ LET s == Head1.stream
     IN  IF dec[s] = NoEntry THEN got' = Nothing /\ UNCHANGED <<dec, stale>>
         ELSE /\ dec' = [dec EXCEPT ![s] = Applied(@, Head1.changes)]
              /\ stale' = IF Head1.sure THEN stale ELSE stale \cup {s}
              /\ got' = [cmd |-> "DIFF", stream |-> s, in |-> Head1.body,
                         out |-> Rebuilt(dec'[s])]

DecodeHeart ==
  /\ Head1.cmd = "HEART"
  /\ LET s == Head1.stream
     IN  got' = IF dec[s] = NoEntry THEN Nothing
                 ELSE [cmd |-> "HEART", stream |-> s, in |-> Head1.body,
                       out |-> Rebuilt(dec[s])]
  /\ UNCHANGED <<dec, stale>>

\* The place of a packet that never was.
PassGap ==
  /\ Head1.cmd = "LOST"
  /\ stale' = stale \cup {Head1.stream}
  /\ got' = Nothing
  /\ UNCHANGED dec

Receive ==
  /\ chan # <<>>
  /\ DecodeFull \/ DecodeDiff \/ DecodeHeart \/ PassGap
  /\ chan' = Tail(chan)
  /\ UNCHANGED <<enc, faults>>

Lose ==
  /\ chan # <<>>
  /\ faults < MaxFaults
  /\ stale' = IF Head1.cmd = "HEART" THEN stale ELSE stale \cup {Head1.stream}
  /\ chan' = Tail(chan)
  /\ faults' = faults + 1
  /\ got' = Nothing
  /\ UNCHANGED <<enc, dec>>

\* A transport that retries delivers a packet again.
Repeat ==
  /\ chan # <<>> /\ Head1.cmd # "LOST"
  /\ Len(chan) < MaxChannel
  /\ faults < MaxFaults
  /\ chan' = <<Head1>> \o chan
  /\ faults' = faults + 1
  /\ got' = Nothing
  /\ UNCHANGED <<enc, dec, stale>>

\* The texts of a FULL or a DIFF become those of b on the way; what the packet
\* was made for stays.  osfx_packet_decode_min computes crc8_ok and crc16_ok, but
\* decode_apply takes the packet all the same, where
\* docs/18-data-format-specification.md:20 has the receiver reject it.
Damage(b) ==
  /\ chan # <<>> /\ Head1.cmd \in {"FULL", "DIFF"}
  /\ faults < MaxFaults
  /\ LET hit == IF Head1.cmd = "FULL" THEN [Head1 EXCEPT !.text = b]
                ELSE [Head1 EXCEPT !.changes =
                        [j \in DOMAIN @ \cap DOMAIN Parsed(b).vals |-> Parsed(b).vals[j]]]
     IN  chan' = <<[hit EXCEPT !.sure = FALSE]>> \o Tail(chan)
  /\ faults' = faults + 1
  /\ got' = Nothing
  /\ UNCHANGED <<enc, dec, stale>>

\* osfx_fusion_state_reset at the decoder.
Reset ==
  /\ faults < MaxFaults
  /\ dec' = [s \in Streams |-> NoEntry]
  /\ stale' = {s \in Streams : enc[s] # NoEntry}
  /\ faults' = faults + 1
  /\ got' = Nothing
  /\ UNCHANGED <<enc, chan>>

-----------------------------------------------------------------------------
(* Correctness *)

\* Type invariant: an entry has a header, and two slots for each tag, at least
\* one tag and no more than the table has slots for; neither table overflows.
EntryOK(e) ==
  e # NoEntry => /\ e.header # NoEntry.header
                 /\ Len(e.vals) = 2 * Len(e.tags)
                 /\ Len(e.tags) \in 1 .. MaxSensors

TypeOK ==
  /\ \A s \in Streams : EntryOK(enc[s]) /\ EntryOK(dec[s])
  /\ Cardinality({s \in Streams : enc[s] # NoEntry}) <= EncEntries
  /\ Cardinality({s \in Streams : dec[s] # NoEntry}) <= MaxEntries
  /\ stale \subseteq Streams
  /\ Len(chan) <= MaxChannel
  /\ faults \in 0 .. MaxFaults

\* Once all packets of a stream have arrived, the decoder's cache is the
\* encoder's, unless the decoder missed a packet after the last FULL or had no
\* room: what it will make of the next DIFF depends on it.
CachesAgree ==
  \A s \in Streams :
    s \notin stale /\ dec[s] # NoEntry /\ (\A i \in 1 .. Len(chan) : chan[i].stream # s)
      => dec[s] = enc[s]

=============================================================================
