---------------------------- MODULE MCSensorStream --------------------------
(* Two streams, a decoder with room for one, a cache of two sensors and a    *)
(* template of four.  Stream a has calls with other tags, with more sensors  *)
(* than the cache holds and with one that does not fit a slot; b has a node  *)
(* id beyond the template's limit, a body none of whose sensors fits a slot, *)
(* and single readings with a unit that takes no prefix, an empty unit, a    *)
(* long id, and values that do not divide.                                   *)
EXTENDS SensorStream

MCStreams == {"a", "b"}

MCUnits == [C  |-> [base |-> "K",  factor |-> 2, offset |-> 7, can_take_prefix |-> FALSE],
            Pa |-> [base |-> "Pa", factor |-> 1, offset |-> 0, can_take_prefix |-> TRUE]]

MCPrefix == [k |-> 1000, h |-> 100]

MCSpelling ==
  [u \in {"kPa", "kC", ""} |->
     CASE u = "kPa" -> <<[prefix |-> "k", rest |-> "Pa"]>>
       [] u = "kC"  -> <<[prefix |-> "k", rest |-> "C"]>>
       [] u = ""    -> <<>>]

MCWidth ==
  [t \in {"", "N", "ok", "T", "H", "P", "C", "K", "Pa", "kPa", "kC", "NA", "U", "S", "NODE",
          "a", "b", "long12", "long40", "long180", "note"} |->
     CASE t = "" -> 0
       [] t \in {"N", "T", "H", "P", "C", "K", "U", "S", "a", "b"} -> 1
       [] t \in {"ok", "Pa", "kC", "NA"} -> 2
       [] t \in {"kPa"} -> 3
       [] t \in {"note", "NODE"} -> 4
       [] t = "long12" -> 12
       [] t = "long40" -> 40
       [] t = "long180" -> 180]

S(i, u, v, m) == [id |-> i, state |-> "ok", unit |-> u, value |-> v, msg |-> m]

Call(n, xs) == [node |-> n, state |-> "ok", sensors |-> xs]

Calls ==
  {Call("N", <<S("T", "C", 0, ""), S("H", "Pa", 1, "")>>),
   Call("N", <<S("P", "kPa", 3, ""), S("H", "Pa", -3, "note")>>),
   Call("N", <<S("long12", "C", 0, ""), S("T", "C", -5, ""), S("H", "Pa", 200, ""),
               S("P", "Pa", 5, "")>>)}

MCMultis == [s \in MCStreams |-> IF s = "a" THEN Calls
                                 ELSE {Call("long40", <<S("long12", "C", 0, "")>>)}]

MCReadings ==
  [s \in MCStreams |->
     IF s = "a" THEN {}
     ELSE {[id |-> "T", unit |-> "kC", value |-> -3], [id |-> "T", unit |-> "", value |-> 4],
           [id |-> "long180", unit |-> "C", value |-> 1]}]

MCPayload ==
  {"DEVICE_ID", "DEVICE_STATUS", "SENSOR_ID", "SENSOR_STATUS", "NORMALIZED_VALUE",
   "SUPPLEMENTARY_MESSAGE"}
=============================================================================
