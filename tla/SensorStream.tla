----------------------------- MODULE SensorStream ---------------------------
(***************************************************************************)
(* The encode and decode calls of src/osfx_core_facade.c over the fusion   *)
(* state: readings are standardised, scaled to integers, written in base   *)
(* 62 and put into a template body (src/osfx_template_grammar.c); the      *)
(* receiver takes them out of what the fusion decoder hands on.  The       *)
(* encoders, the template and the fusion cache each have limits of their   *)
(* own, and what passes one need not pass the next.                        *)
(*                                                                         *)
(* Texts are names with a width.  Values count 1/Fine of the 1/10000 that  *)
(* is sent, so that truncation shows.  Geohash and URL, off by default,    *)
(* are handled as the message is and left out.                             *)
(***************************************************************************)
EXTENDS FusionState

CONSTANTS
  Multis,     \* each stream's calls of the multi-sensor encoder
  Readings,   \* each stream's calls of the single encoders
  Width,      \* the length of each text
  Units,      \* the catalog's units
  Prefix,     \* the factor of each prefix
  Spelling,   \* the ways to split each other unit into prefix and rest, in catalog order
  Fine,       \* values count 1/(10000 * Fine)
  Payload,    \* the OSFX_CFG_PAYLOAD switches that are on
  TmplMax     \* OSFX_TMPL_MAX_SENSORS

Texts     == DOMAIN Width
UnitNames == DOMAIN Units \cup DOMAIN Spelling
NoText    == ""

SensorInput == [id : Texts, state : Texts, unit : UnitNames, value : Int, msg : Texts]

IdMax    == 32
StateMax == 16
UnitMax  == 24
MsgMax   == 128
TagMax   == 12
SlotMax  == 16
SigMax   == 64
MultiMax  == 4096   \* OSFX_CFG_MULTI_SENSOR_BODY_CAP
SingleMax == 256    \* the body buffers of the single calls
SecureMax == 192    \* the body buffer of the secure decoder

\* One width for all timestamps.  The encoders write 8 characters of base 64, a
\* rebuilt body has up to 15 decimal digits; but with the code's limits the rebuilt
\* body of a single call has less than 140 characters and any other less than 280,
\* far below the limits that apply to them.
TsWidth == 10

\* A stream is its aid, a number of at most ten digits.
ASSUME TextAssumption ==
  /\ Width \in [Texts -> Nat]
  /\ {NoText, "S", "NA", "NODE", "U"} \cup Streams \cup UnitNames \subseteq Texts
  /\ Width["U"] = 1 /\ Width[NoText] = 0 /\ \A s \in Streams : Width[s] < IdMax

ASSUME CatalogAssumption ==
  /\ Units \in [DOMAIN Units ->
                  [base : Texts, factor : Int, offset : Int, can_take_prefix : BOOLEAN]]
  /\ Prefix \in [DOMAIN Prefix -> Int]
  /\ Spelling \in [DOMAIN Spelling -> Seq([prefix : DOMAIN Prefix, rest : STRING])]

ASSUME StreamAssumption ==
  /\ Fine \in Nat \ {0} /\ TmplMax \in Nat \ {0}
  /\ \A s \in Streams :
       /\ Multis[s] \subseteq [node : Texts, state : Texts, sensors : Seq(SensorInput)]
       /\ Readings[s] \subseteq [id : Texts, unit : UnitNames, value : Int]
-----------------------------------------------------------------------------
(* osfx_standardize_value and base 62 *)

Abs(n) == IF n < 0 THEN -n ELSE n

Ways(unit) ==
  {i \in 1 .. Len(Spelling[unit]) :
     LET rest == Spelling[unit][i].rest
     IN  rest \in DOMAIN Units /\ Units[rest].can_take_prefix}

\* The catalog's unit, else the first way to read a prefix and a unit; the
\* prefix does not scale the offset.  An unknown unit stays as it is.
Conversion(unit) ==
  IF unit \in DOMAIN Units THEN Units[unit]
  ELSE IF Ways(unit) # {}
  THEN LET way == Spelling[unit][NthSlot(Ways(unit), 1)]
       IN  [Units[way.rest] EXCEPT !.factor = @ * Prefix[way.prefix]]
  ELSE [base |-> unit, factor |-> 1, offset |-> 0]

BaseUnit(unit) == Conversion(unit).base

Standard(value, unit) == value * Conversion(unit).factor + Conversion(unit).offset

\* (long long)(std_value * OSFX_VALUE_SCALE) cuts towards zero, where
\* docs/18-data-format-specification.md:55 has round(standardized_value * 10000).
Scaled(value) == IF value < 0 THEN -((-value) \div Fine) ELSE value \div Fine

Digits[n \in Nat] == IF n < 62 THEN <<n>> ELSE Append(Digits[n \div 62], n % 62)

\* A slip: the sign is not written.
B62Unsigned(n) == [neg |-> FALSE, digits |-> Digits[Abs(n)]]

B62(n) == [neg |-> n < 0, digits |-> Digits[Abs(n)]]

\* The value after each digit.
ReadDigits(digits) ==
  LET value[i \in 0 .. Len(digits)] == IF i = 0 THEN 0 ELSE value[i - 1] * 62 + digits[i]
  IN  value

FromB62(text) ==
  LET n == ReadDigits(text.digits)[Len(text.digits)]
  IN  IF text.neg THEN -n ELSE n
-----------------------------------------------------------------------------
(* The template body *)

Shown(switch, text, fallback) == IF switch \in Payload THEN text ELSE fallback

ValueWidth(val) ==
  Len(val.b62.digits) + (IF val.b62.neg THEN 1 ELSE 0)
    + (IF val.msg = NoText THEN 0 ELSE 1 + Width[val.msg])

MetaWidth(meta) == Width[meta[1]] + 1 + Width[meta[2]]

\* Whether parse_body_slots keeps the sensor.
FitsSlots(id, meta, val) ==
  Width[id] \in 1 .. TagMax - 1 /\ MetaWidth(meta) < SlotMax /\ ValueWidth(val) < SlotMax

Segment(id, meta, val) ==
  [tag |-> id, meta |-> meta, val |-> val, fits |-> FitsSlots(id, meta, val)]

\* kind and of are history: the call a body was made for.
Body(header, sensors, kind, of) ==
  [header |-> header, sensors |-> sensors, kind |-> kind, of |-> of,
   fits |-> MetaWidth(header) + 2 <= SigMax]

SegmentWidth(x) == Width[x.tag] + MetaWidth(x.meta) + ValueWidth(x.val) + 3

\* How much is written after each sensor.
Written(b) ==
  LET off[i \in 0 .. Len(b.sensors)] ==
        IF i = 0 THEN MetaWidth(b.header) + TsWidth + 2
        ELSE off[i - 1] + SegmentWidth(b.sensors[i])
  IN  off

BodyWidth(b) == Written(b)[Len(b.sensors)]

MultiSegment(x) ==
  Segment(Shown("SENSOR_ID", x.id, "S"),
          <<Shown("SENSOR_STATUS", x.state, "NA"),
            Shown("PHYSICAL_ATTRIBUTE", BaseUnit(x.unit), "NA")>>,
          [b62 |-> IF "NORMALIZED_VALUE" \in Payload
                   THEN B62(Scaled(Standard(x.value, x.unit))) ELSE B62(0),
           msg |-> Shown("SUPPLEMENTARY_MESSAGE", x.msg, NoText)])

MultiBody(c) ==
  Body(<<Shown("DEVICE_ID", c.node, "NODE"), Shown("DEVICE_STATUS", c.state, "NA")>>,
       [i \in DOMAIN c.sensors |-> MultiSegment(c.sensors[i])], "multi", c)

SingleBody(s, r) ==
  Body(<<s, "U">>,
       <<Segment(r.id, <<"U", BaseUnit(r.unit)>>,
                 [b62 |-> B62(Scaled(Standard(r.value, r.unit))), msg |-> NoText])>>,
       "single", r)

\* What copy_text takes for a segment.
CopyOK(x) ==
  /\ Width[x.tag] < IdMax /\ Width[x.meta[1]] < StateMax /\ Width[x.meta[2]] < UnitMax
  /\ Width[x.val.msg] < MsgMax

\* The node's id and state are not copied, and have no limit of their own here.
MultiAccepted(c) ==
  /\ Len(c.sensors) \in 1 .. TmplMax
  /\ \A i \in DOMAIN c.sensors :
       Width[BaseUnit(c.sensors[i].unit)] < UnitMax /\ CopyOK(MultiBody(c).sensors[i])
  /\ BodyWidth(MultiBody(c)) < MultiMax

AutoAccepted(s, r) ==
  CopyOK(SingleBody(s, r).sensors[1]) /\ BodyWidth(SingleBody(s, r)) < SingleMax

\* The plain and the secure encoder have a smaller unit and no limit for the id.
PlainAccepted(s, r) ==
  Width[BaseUnit(r.unit)] < 16 /\ BodyWidth(SingleBody(s, r)) < SingleMax
-----------------------------------------------------------------------------
(* What the caller of a decode gets; the cache has moved either way *)

Refused == [cmd |-> "refused"]

\* osfx_template_decode has limits for all texts, the node's too.
Readable(b) ==
  /\ Width[b.header[1]] < IdMax /\ Width[b.header[2]] < StateMax
  /\ Len(b.sensors) <= TmplMax
  /\ \A i \in DOMAIN b.sensors : CopyOK(b.sensors[i])

Output(x) ==
  [id |-> x.tag, state |-> x.meta[1], unit |-> x.meta[2], msg |-> x.val.msg,
   value |-> FromB62(x.val.b62)]

MultiResult(b, cap) ==
  IF Readable(b) /\ Len(b.sensors) <= cap /\ BodyWidth(b) < MultiMax
  THEN [node |-> b.header[1], state |-> b.header[2],
        sensors |-> [i \in DOMAIN b.sensors |-> Output(b.sensors[i])]]
  ELSE Refused

\* The first sensor.
AutoResult(b) ==
  IF Readable(b) /\ b.sensors # <<>> /\ BodyWidth(b) < SingleMax
  THEN Output(b.sensors[1]) ELSE Refused

\* osfx_core_decode_sensor_body: the first sensor, whose value must be nothing
\* but digits; id and unit are limited by the caller's buffers.
PlainResult(b, cap) ==
  IF /\ b.sensors # <<>> /\ Width[b.sensors[1].tag] \in 1 .. cap - 1
     /\ Width[b.sensors[1].meta[2]] \in 1 .. cap - 1
     /\ b.sensors[1].val.msg = NoText
  THEN Output(b.sensors[1]) ELSE Refused

SecureResult(b, cap) == IF BodyWidth(b) <= SecureMax THEN PlainResult(b, cap) ELSE Refused
-----------------------------------------------------------------------------
EncodeMulti(s, c) ==
  /\ MultiAccepted(c)
  /\ Encode(s, MultiBody(c)) \/ EncodeFails(s, MultiBody(c))

EncodeAuto(s, r) ==
  /\ AutoAccepted(s, r)
  /\ Encode(s, SingleBody(s, r)) \/ EncodeFails(s, SingleBody(s, r))

EncodePlain(s, r) == PlainAccepted(s, r) /\ SendPast(s, SingleBody(s, r))

\* Damage that happens to spell another acceptable call.
DamageTo(c) == MultiAccepted(c) /\ Damage(MultiBody(c))

Next ==
  \/ \E s \in Streams : \/ \E c \in Multis[s] : EncodeMulti(s, c) \/ DamageTo(c)
                      \/ \E r \in Readings[s] : EncodeAuto(s, r) \/ EncodePlain(s, r)
  \/ Receive
  \/ Lose
  \/ Repeat
  \/ Reset

Spec == Init /\ [][Next]_vars
-----------------------------------------------------------------------------
(* Correctness *)

\* n/10000 is less than 1/10000 off the value, and not on the other side of zero:
\* what the code's cutting and the rounding of docs/18 have in common.
Near(n, value) == Abs(value - n * Fine) < Fine /\ n * value >= 0

\* What is received as y was given as x.
Carried(y, x) ==
  /\ y.id = Shown("SENSOR_ID", x.id, "S")
  /\ y.state = Shown("SENSOR_STATUS", x.state, "NA")
  /\ y.unit = Shown("PHYSICAL_ATTRIBUTE", BaseUnit(x.unit), "NA")
  /\ y.msg = Shown("SUPPLEMENTARY_MESSAGE", x.msg, NoText)
  /\ "NORMALIZED_VALUE" \in Payload => Near(y.value, Standard(x.value, x.unit))

\* Whether this step hands on a body that the decoder could know: a FULL that
\* came undamaged, or a DIFF or HEART of a stream of which it missed nothing.
Told ==
  /\ got' # Nothing
  /\ IF got'.cmd = "FULL" THEN got'.whole ELSE got'.stream \notin stale'

\* A FULL that came undamaged, and any packet of a stream of which the decoder
\* missed nothing, gives the receiver the readings of the call it was coded from,
\* in order, each within 1/10000: all of them in a FULL; in a DIFF or HEART those
\* that fit the cache's slots, up to its limit.  Only a node id or state beyond
\* the template's limit, which the encoder does not check, makes the receiver
\* refuse it.  Of a damaged packet, which the decoder takes for a good one, and of
\* the last decimal, which the code cuts and docs/18:55 rounds, it says nothing.
ReadingsArrive ==
  [][ Told /\ got'.in.kind = "multi"
      => LET call == got'.in.of
             node == Shown("DEVICE_ID", call.node, "NODE")
             state == Shown("DEVICE_STATUS", call.state, "NA")
             r    == MultiResult(got'.out, TmplMax)
             fit  == {i \in DOMAIN call.sensors : MultiSegment(call.sensors[i]).fits}
             kept == IF got'.cmd = "FULL" THEN DOMAIN call.sensors
                     ELSE {i \in fit : Place(fit, i) <= MaxSensors}
         IN  /\ r = Refused <=> Width[node] >= IdMax \/ Width[state] >= StateMax
             /\ r # Refused =>
                  /\ r.node = node /\ r.state = state
                  /\ Len(r.sensors) = Cardinality(kept)
                  /\ \A i \in kept : Carried(r.sensors[Place(kept, i)], call.sensors[i]) ]_vars

\* A single reading comes back, within 1/10000, whatever way it was sent.
\* Either decoder gives the same, but for an id the template refuses, an empty
\* id or unit, which only the template takes, or a body the secure decoder has
\* no room for.
SinglesArrive ==
  [][ Told /\ got'.in.kind = "single"
      => LET r     == got'.in.of
             base  == BaseUnit(r.unit)
             auto  == AutoResult(got'.out)
             plain == PlainResult(got'.out, IdMax)
         IN  /\ auto = Refused <=> Width[r.id] >= IdMax \/ Width[base] >= UnitMax
             /\ auto # Refused =>
                  /\ auto.id = r.id /\ auto.unit = base
                  /\ Near(auto.value, Standard(r.value, r.unit))
             /\ plain = IF Width[r.id] = 0 \/ Width[base] = 0 THEN Refused ELSE auto
             /\ SecureResult(got'.out, IdMax) # plain => BodyWidth(got'.in) > SecureMax ]_vars

\* README.md:370 and docs/19-input-specification.md:216: a call of the multi-sensor
\* encoder may have up to OSFX_TMPL_MAX_SENSORS sensors.  Then the receiver should
\* get as many as were given.
AllSensorsArrive ==
  [][ Told /\ got'.in.kind = "multi"
      => LET r == MultiResult(got'.out, TmplMax)
         IN  r # Refused => Len(r.sensors) = Len(got'.in.of.sensors) ]_vars

=============================================================================
