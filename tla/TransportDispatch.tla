-------------------------- MODULE TransportDispatch -------------------------
(***************************************************************************)
(* The transporter runtime (src/osfx_transporter_runtime.c) with the four  *)
(* drivers of the protocol matrix (src/osfx_protocol_matrix.c): which      *)
(* driver a payload goes to, how often each is tried, and the frames an    *)
(* attempt hands to the emit function, which may refuse any of them.       *)
(*                                                                         *)
(* A payload is its length; a frame tells which of the payload's bytes it  *)
(* carries, from the first of them on, and on CAN its index.               *)
(***************************************************************************)
EXTENDS Integers, Sequences, FiniteSets, FiniteSetsExt

CONSTANTS
  MaxDrivers,    \* OSFX_TRANSPORTER_MAX
  Priorities,    \* the priorities the application registers with
  Floor,         \* -2147483647: a priority up to it is never the best
  Retries,       \* the numbers of retries the application asks for
  Lengths,       \* the lengths of payloads
  FrameSize,     \* 1500, the largest frame of TCP and UART
  ChunkSize,     \* 8, the payload bytes in a CAN frame
  IndexRange     \* 256, the values of the index byte of a CAN frame

Protos == {"udp", "tcp", "uart", "can"}

ASSUME TransportAssumption ==
  /\ MaxDrivers \in Nat \ {0}
  /\ Priorities \subseteq Int /\ Floor \in Int
  /\ Retries \subseteq Nat /\ Lengths \subseteq Nat
  /\ {FrameSize, ChunkSize, IndexRange} \subseteq Nat \ {0}

VARIABLES
  drivers,   \* drivers[]
  call       \* the dispatch under way, or that has just returned

transportVars == <<drivers, call>>

DriverSlots == 1 .. MaxDrivers

Free == [used |-> FALSE]
NoName == "no name"

NoCall == [phase |-> "none"]
Busy == call.phase = "busy"

TransportInit ==
  /\ drivers = [s \in DriverSlots |-> Free]
  /\ call = NoCall

Named(table, n) == {s \in DriverSlots : table[s].used /\ table[s].name = n}
FreeSlots(table) == {s \in DriverSlots : ~table[s].used}
HasRoom(table, n) == Named(table, n) # {} \/ FreeSlots(table) # {}

\* A slip: a driver of that name is not looked for.
RegisteredFresh(table, n, priority, proto) ==
  IF FreeSlots(table) = {} THEN table
  ELSE [table EXCEPT ![Min(FreeSlots(table))] =
          [used |-> TRUE, enabled |-> TRUE, name |-> n, priority |-> priority,
           proto |-> proto, retries |-> 0]]

\* osfx_transporter_register: the table after it, where there is room.  A driver
\* that is there keeps its retries.
Registered(table, n, priority, proto) ==
  LET s == IF Named(table, n) # {} THEN Min(Named(table, n)) ELSE Min(FreeSlots(table))
      retries == IF Named(table, n) # {} THEN table[s].retries ELSE 0
  IN  [table EXCEPT ![s] = [used |-> TRUE, enabled |-> TRUE, name |-> n, priority |-> priority,
                            proto |-> proto, retries |-> retries]]

Retried(table, n, retries) == [s \in DriverSlots |-> IF s \in Named(table, n)
                                                     THEN [table[s] EXCEPT !.retries = retries]
                                                     ELSE table[s]]

Register(n, priority) ==
  /\ HasRoom(drivers, n)
  /\ drivers' = Registered(drivers, n, priority, n)
  /\ UNCHANGED call

\* A name that is too long is the name of no driver: another slot is taken, and
\* stays in use without a name although the call returns 0.
RegisterLong(proto, priority) ==
  /\ FreeSlots(drivers) # {}
  /\ drivers' = [drivers EXCEPT ![Min(FreeSlots(drivers))] =
                   [used |-> TRUE, enabled |-> TRUE, name |-> NoName, priority |-> priority,
                    proto |-> proto, retries |-> 0]]
  /\ UNCHANGED call

Default(n, priority, retries) == [name |-> n, priority |-> priority, retries |-> retries]

WithDefault(acc, d) ==
  IF acc.going /\ HasRoom(acc.table, d.name)
  THEN [table |-> Retried(Registered(acc.table, d.name, d.priority, d.name), d.name, d.retries),
        going |-> TRUE]
  ELSE [table |-> acc.table, going |-> FALSE]

\* osfx_protocol_matrix_register_defaults stops at the first that has no room.
RegisterDefaults ==
  LET udp  == WithDefault([table |-> drivers, going |-> TRUE], Default("udp", 40, 0))
      tcp  == WithDefault(udp, Default("tcp", 35, 1))
      uart == WithDefault(tcp, Default("uart", 20, 1))
      can  == WithDefault(uart, Default("can", 15, 0))
  IN  /\ drivers' = can.table
      /\ UNCHANGED call

SetEnabled(n, e) ==
  /\ Named(drivers, n) # {}
  /\ drivers' = [drivers EXCEPT ![Min(Named(drivers, n))].enabled = e]
  /\ UNCHANGED call

SetRetry(n, retries) ==
  /\ drivers' = Retried(drivers, n, retries)
  /\ UNCHANGED call
-----------------------------------------------------------------------------
(* Dispatch *)

Eligible == {s \in DriverSlots : drivers[s].used /\ drivers[s].enabled}

\* A slip: the first one is taken for the best.
BestBySlot ==
  {s \in Eligible : drivers[s].priority > Floor /\ \A t \in Eligible : s <= t}

\* The first of those with the highest priority, if that is above the floor.
Best == {s \in Eligible :
           /\ drivers[s].priority > Floor
           /\ \A t \in Eligible : \/ drivers[t].priority < drivers[s].priority
                                  \/ drivers[t].priority = drivers[s].priority /\ s <= t}

\* at: the driver that is being tried; rest: those to try after it; made: the
\* attempts made with each; frames: those of the attempt.
Begin(len, first, rest, auto) ==
  /\ call' = [phase |-> IF first = {} THEN "failed" ELSE "busy", auto |-> auto, len |-> len,
              at |-> IF first = {} THEN 0 ELSE Min(first), rest |-> rest,
              made |-> [s \in DriverSlots |-> 0], frames |-> <<>>]
  /\ UNCHANGED drivers

\* A slip: the best one is not skipped when the others are tried.
DispatchAutoTwice(len) == Begin(len, Best, Eligible, TRUE)

\* The best one, then the others; none at all if there is no best one.
DispatchAuto(len) == Begin(len, Best, Eligible \ Best, TRUE)

DispatchNamed(n, len) == Begin(len, Named(drivers, n) \cap Eligible, {}, FALSE)

Sender == drivers[call.at]

Made == [call.made EXCEPT ![call.at] = @ + 1]

AttemptSucceeds(frames) ==
  call' = [call EXCEPT !.phase = "ok", !.made = Made, !.frames = frames]

\* A slip: the tries are not counted.
AttemptFailsUncounted ==
  call' = [call EXCEPT !.frames = <<>>]

\* The same driver again, or the next in the order of the slots, or the end.
AttemptFails ==
  LET failed == [call EXCEPT !.made = Made, !.frames = <<>>]
  IN  call' = IF Made[call.at] <= Sender.retries THEN failed
              ELSE IF call.rest = {} THEN [failed EXCEPT !.phase = "failed"]
              ELSE [failed EXCEPT !.at = Min(call.rest), !.rest = @ \ {Min(call.rest)}]

\* Where in the payload the next frame starts: off.
Offset(frames) ==
  IF frames = <<>> THEN 0 ELSE frames[Len(frames)].from + frames[Len(frames)].bytes

\* A slip: the index advances with the bytes and not with the frames.
NextChunkByOffset ==
  LET off == Offset(call.frames)
  IN  [index |-> off % IndexRange, from |-> off, bytes |-> Min({ChunkSize, call.len - off})]

\* The frame osfx_protocol_send_can emits next.
NextChunk ==
  LET off == Offset(call.frames)
  IN  [index |-> Len(call.frames) % IndexRange, from |-> off,
       bytes |-> Min({ChunkSize, call.len - off})]

\* One call of the emit function, or the end of an attempt without one.
Send ==
  /\ Busy
  /\ CASE Sender.proto = "can" ->
            IF Offset(call.frames) = call.len
            THEN AttemptSucceeds(call.frames)
            ELSE \/ call' = [call EXCEPT !.frames = Append(@, NextChunk)]
                 \/ AttemptFails
       [] Sender.proto \in {"tcp", "uart"} /\ call.len + 2 > FrameSize ->
            AttemptFails
       [] OTHER ->
            \/ AttemptSucceeds(<<[index |-> 0, from |-> 0, bytes |-> call.len]>>)
            \/ AttemptFails
  /\ UNCHANGED drivers

Return ==
  /\ call.phase \in {"ok", "failed"}
  /\ call' = NoCall
  /\ UNCHANGED drivers

Configure ==
  \/ \E n \in Protos, priority \in Priorities : Register(n, priority)
  \/ \E n \in Protos, priority \in Priorities : RegisterLong(n, priority)
  \/ RegisterDefaults
  \/ \E n \in Protos, e \in BOOLEAN : SetEnabled(n, e)
  \/ \E n \in Protos, retries \in Retries : SetRetry(n, retries)

Dispatch ==
  \/ \E len \in Lengths : DispatchAuto(len)
  \/ \E n \in Protos, len \in Lengths : DispatchNamed(n, len)

TransportNext ==
  \/ call = NoCall /\ Configure
  \/ call = NoCall /\ Dispatch
  \/ Send
  \/ Return

\* The emit function returns, and so does the loop around it.
TransportFairness == WF_transportVars(Send)

TransportSpec == TransportInit /\ [][TransportNext]_transportVars /\ TransportFairness
-----------------------------------------------------------------------------
(* Correctness *)

\* Type invariant: the driver table, where a name is held once, and the call.
TransportTypeOK ==
  /\ \A s \in DriverSlots :
       drivers[s] = Free \/
       drivers[s] \in [used : {TRUE}, enabled : BOOLEAN, name : Protos \cup {NoName},
                       priority : Int, proto : Protos, retries : Nat]
  /\ \A n \in Protos : Cardinality(Named(drivers, n)) <= 1
  /\ call = NoCall \/
     /\ call.phase \in {"busy", "ok", "failed"}
     /\ call.len \in Lengths
     /\ Busy => call.at \in Eligible
     /\ call.rest \subseteq Eligible

Tries(s) == 1 + drivers[s].retries

\* osfx_transporter_dispatch_auto lets a driver send only when one with the
\* highest priority has used up all its tries, whatever the order of the slots
\* they were registered in.
BestFirst ==
  call # NoCall /\ call.auto =>
    \A s \in DriverSlots : call.made[s] > 0 =>
      \E t \in Eligible :
        /\ \A u \in Eligible : drivers[u].priority <= drivers[t].priority
        /\ t = s \/ call.made[t] = Tries(t)

\* No driver is tried more often than it allows, and an automatic dispatch that
\* returns 0 has used up the tries of every enabled driver; unless none of them
\* has a priority above the floor, when it tries none.
TriesSpent ==
  call # NoCall =>
    /\ \A s \in Eligible : call.made[s] <= Tries(s)
    /\ call.auto /\ call.phase = "failed" =>
         \/ \A s \in Eligible : call.made[s] = Tries(s)
         \/ \A s \in Eligible : drivers[s].priority <= Floor /\ call.made[s] = 0

Carries(frame, byte) == byte \in frame.from .. frame.from + frame.bytes - 1

\* What a successful dispatch emitted in its last attempt carries every byte of
\* the payload once and nothing beyond it, in order, and on CAN every frame has
\* an index of its own as long as the index byte has values enough; frames of
\* attempts that failed do not count.
SentWhole ==
  call.phase = "ok" =>
    LET frames == call.frames
    IN  /\ \A byte \in 0 .. call.len - 1 : \E i \in DOMAIN frames : Carries(frames[i], byte)
        /\ \A i \in DOMAIN frames : frames[i].from + frames[i].bytes <= call.len
        /\ \A i, j \in DOMAIN frames :
             i < j => frames[i].from + frames[i].bytes <= frames[j].from
        /\ call.len <= ChunkSize * IndexRange =>
             \A i, j \in DOMAIN frames : frames[i].index = frames[j].index => i = j

\* Every dispatch returns.
DispatchReturns == Busy ~> ~Busy
=============================================================================
