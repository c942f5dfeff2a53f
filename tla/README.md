# OSynaptic-FX: TLA+ models, checks and proofs

Formal models of the OSynaptic-FX library (C99, `src/`) and of the long-running
sketch built on it: what its stateful components do, which properties make them
correct, what TLC finds on small instances and what TLAPS proves for every instance.

The library is single threaded. A step of a model is one call of an entry
point, except where something outside the program can come between two parts of
a call: power loss between two lines of a file, a refusal between two frames of
a dispatch. What is concurrent is the system around it: devices and servers that
exchange messages over networks that lose, repeat and reorder, callbacks that
fail, timers that wrap, and reboots.

## 1. Inventory

| component (source) | state | operations | hard because of | correct when |
|---|---|---|---|---|
| ID lease allocator (`osfx_id_allocator.c`) | lease table, pool, policy, rate window | init, set_policy(_ex), allocate, release, touch, cleanup_expired | expiry at the second, 32-bit wrap of the scan, adaptive lease lengths, limits that contradict each other | no aid is leased twice, leases stay in the pool and within the limits |
| its persistence (`osfx_id_save/load`, `osfx_storage*.c`) | the file | save and load, line by line | power loss and failed lines anywhere | no file names an aid twice, a load brings back what a save wrote |
| one-stop context (`osfx_easy.c`) | an allocator, the device's aid | init, set_aid, init_ids, allocate, touch, save, load, encode | the aid is in no file; flags out of step with the table | a ready aid is the one last given, live leases are kept, and what a lease still promises is not granted again |
| long-running sketch (`examples/BootCliOrRun/BootCliOrRun.ino`) | boot, command line and run mode; a dirty flag, an autosave and a retry timer; the clock | setup, cli commands, id_persist_tick, id_save_now, id_load_now | failing saves, retries over the wrap of `millis()`, power loss, commands between timers | a clean table is on file, a change is saved at last, a boot leases no aid that is leased on file |
| secure session store (`osfx_secure_session.c`) | one session per aid: timestamps, pending and final key, state | note_plaintext, confirm_dict, mark_channel, check_and_update_timestamp, cleanup, save, load | replay, full table, files cut inside a line | a packet is accepted once, state and flags agree |
| handshake dispatcher (`osfx_handshake_dispatch.c`, `osfx_handshake_cmd.c`, `osfx_glue.c`) | the store and the allocator it is given | one dispatch per packet, with its reply | order of messages, lost replies, retries; a session outlives the lease of its aid | keys come of plaintexts that were sent, replies come in order, the handshake completes, a packet is rejected only for a cause |
| sensor codec (`osfx_core_facade.c`, `osfx_template_grammar.c`, `osfx_standardization.c`, base 62 of `osfx_solidity.c`) | none but the session store and the fusion state | single, multi-sensor, automatic and secure encode and decode | each layer has limits of its own, and what passes one need not pass the next | a receiver gets the readings as given, to four decimals |
| fusion state (`osfx_fusion_state.c`, `osfx_fusion_packet.c`) | the last body of each stream, at both ends | encode to FULL, DIFF or HEART; decode_apply; reset | loss, repeats, unchecked damage, failures after the cache has moved, size limits | the ends' caches agree, a body comes back as it was encoded |
| service runtime (`osfx_service_runtime.c`) | table of services | register, enable, init_all, load, reload, close_all, tick, command | failing callbacks in any order | what is ticked is initialised |
| port forwarder (`osfx_plugin_port_forwarder.c`) | rule table, rule file | add, remove, enable, forward, save, load | adds that fail half way, freed slots, unchecked writes | one rule per name, rules survive a restart in their matching order |
| platform runtime (`osfx_platform_runtime.c`, `osfx_plugin_*.c`) | the runtime and three plugins | plugin load, command | forwarder's file against the runtime's calls | both of the above together |
| transporter runtime, protocol matrix (`osfx_transporter_runtime.c`, `osfx_protocol_matrix.c`) | driver table | register, defaults, set_enabled, set_retry, dispatch (auto, named) | retries, fallback, payloads that are cut into frames | best driver first, all tries used, success means the whole payload went out |
| command line, operations, storage backends, other examples, scripts | none of their own | formatting, I/O | | |

How they interact: a device's `osfx_easy` context owns an allocator and a
session store and calls the codec and the fusion encoder. The server side gives
a packet to `osfx_glue`, whose dispatcher reads and writes one session store and
one allocator and returns a reply. The platform runtime owns a service runtime,
with the transport, test and port-forwarder plugins as services called back
through function pointers; the transport plugin dispatches through the protocol
matrix and the transporter runtime. The sketch owns an allocator of its own, whose
file it writes from a timer and from commands.

The hazards of the code are listed line by line in `PROJECT.json`, each with the
properties aimed at it.

## 2. Modules

| module | models | composes |
|---|---|---|
| `LeaseTable` | abstract specification: a map from aids to the end of their lease | |
| `IdAllocator` | `osfx_id_allocator.c` without files | implements `LeaseTable` |
| `IdStore` | `osfx_id_save`, `osfx_id_load`, power loss | extends `IdAllocator` |
| `EasyNode` | `osfx_easy.c` | extends `IdStore` |
| `BootCliOrRun` | the sketch: modes, timers, retries, commands, power loss | extends `IdAllocator`, `SlotOrder` |
| `IdAssignment` | the `ID_REQUEST` branch, devices and a network | extends `IdAllocator` |
| `SecureSession` | `osfx_secure_session.c`: operators from store to store | |
| `SecureHandshake` | the data, `DICT_READY` and `CHANNEL_ACK` branches, devices, a server, a network, restarts | extends `SecureSession` |
| `GlueServer` | one glue context: leases and sessions behind one dispatcher | extends `IdAssignment`, `SecureSession`; the branches of `SecureHandshake` by `INSTANCE` |
| `FusionState` | encoder, channel and decoder | extends `SlotOrder` |
| `SensorStream` | the encode and decode calls over the fusion state: standardisation, base 62, template | extends `FusionState` |
| `SlotOrder` | the used slots of a table in order: what a save writes line by line | |
| `ServiceRuntime` | the service table and its callbacks | |
| `PortForwarder` | the rule table and its file | extends `SlotOrder` |
| `PlatformRuntime` | the forwarder as a service among others | extends `ServiceRuntime`, `PortForwarder` |
| `TransportDispatch` | transporter runtime and protocol matrix | |
| `IdAllocatorProofs`, `IdStoreProofs`, `SessionProofs`, `HandshakeProofs`, `GlueServerProofs`, `SlotOrderProofs`, `PlatformProofs` | theorems and lemmas about the modules they are named after; `IdStoreProofs` also about `EasyNode` and `BootCliOrRun`, `GlueServerProofs` about `IdAssignment` | |
| `DataPathProofs` | theorems and lemmas about `FusionState`, `SensorStream` and `TransportDispatch` | |

Variables and actions carry the names of the code; `PROJECT.json` maps each
definition to its lines. Definitions whose comment begins with "A slip" are not
part of any specification: each is a plausible error for a definition near it,
used to see that a property notices it.

Correspondences worth knowing:

* **Time.** `clock` is the `now_ts` the callers pass. It only goes forward, except in
  `BootCliOrRun`, where it is what the sketch computes from `millis()` and an offset:
  a command may set it back, and a wrap or a boot does.
* **Factors** of the lease policy are percentages; the code has doubles and casts
  the product to an integer, which rounds down as `\div` does. In the file they have six
  decimals (`%.6f`): percentages come back exactly, finer factors would not.
* **Keys** are named by the timestamp they are derived from: `derive_key` is a
  function of aid and timestamp.
* **Networks** are sets of messages: any message sent may arrive at any time,
  again or never. Between fusion encoder and decoder packets stay in order and
  may be lost, repeated by a transport that retries, or damaged into another body,
  since `decode_apply` looks at neither checksum.
* **Files** are what a later load makes of them. Writes that the code does not
  check may stop anywhere; `SecureSession` keeps the case of a line cut in the
  middle that then reads as a line of the older format. In `BootCliOrRun` a save or
  a load is one step that fails after any line; `IdStore` has the single lines.
* **Texts** in `SensorStream` are names with a width, values count fractions of the
  1/10000 that is sent, so that cutting shows. The catalog is a parameter, and so is
  the set of payload switches. All timestamps have one width: the encoders write 8
  characters and a rebuilt body has up to 15 digits, but with the code's limits a rebuilt
  body is far below every limit that applies to it.
* **A damaged packet** keeps, as history, the body it was made for (`body`) beside what
  it carries (`text`). The decoder hands on what it carries; the properties about
  readings leave it out (see the disagreements in section 3).
* **The rule file** of the forwarder is read and written by its init and close only if it
  has been given a path (`persistPath`); the runtime registers it without one.
* **The decoders' limits** differ: the template takes an empty id or unit, the plain and
  the secure decoder refuse both. The comment of `SinglesArrive` lists every difference.
* **The answer of a server** in `GlueServer` goes back to whoever sent the packet it
  answers, as the socket of the packet would; sender and end of lease are recorded in
  packets as history and read by properties only.
* **Callbacks** of services and the emit function fail or succeed freely. They do
  not call back into the runtime that called them.
* **Session expiry** at the server may find any session idle; `last_seen` is left out.
* **A service slot** is named by its service, since services are never
  unregistered.
* **Rule files** hold the lines that parse again; lines of half-made rules, which
  have an empty text and are skipped by the load, are left out.

## 3. Runs

| run | what it asks | states | result |
|---|---|---|---|
| `id_allocator` | types; unique aids; leases in the pool; lease lengths; implementation of `LeaseTable` | 2.3 x 10^4 | holds |
| `id_store` | save, load and power loss line by line: files consistent; loads restore; saves are faithful | 9.1 x 10^5 | holds |
| `easy_node` | aid and flags against table and file; live leases kept; no promised aid granted again | 4.7 x 10^5 | holds |
| `easy_reboot` | `README.md:422-423`: the id persists across reboots | | violated |
| `boot_sketch` | a clean table is on file; a boot leases itself nothing leased on file; changes are saved at last | 9.5 x 10^5 | holds |
| `secure_handshake` | replay, key agreement, order, key stability, completion | 6.1 x 10^4 | holds |
| `glue_server` | leases and sessions of one server: no live aid shared, leases known, packets rejected for a cause | 2.3 x 10^5 | holds |
| `id_exhausted` | `docs/02-architecture.md:26`: a NACK when the pool is exhausted | | violated |
| `sensor_stream` | caches agree; readings arrive as given, from single and multi-sensor calls | 9.0 x 10^4 | holds |
| `stream_dropped` | `README.md:370`, comment `osfx_fusion_state.c:316-317`: all sensors arrive | | violated |
| `platform` | running services are up; rule names unique; rules come back | 7.1 x 10^5 | holds |
| `transport` | best first; all tries; whole payload; dispatch returns | 2.1 x 10^5 | holds |

What the three violations show:

1. **Device id after a reboot.** `osfx_easy_load_ids` clears the aid; the lease
   table it loads still leases the old one, so the next allocation takes another.
   Allocating anew is deliberate (comment at `osfx_easy.c:111-114`), but the README
   says that the id persists.
2. **Exhausted pool.** The NACK with its reason needs 20 bytes and the reply
   buffer has 16: no reply is sent at all.
3. **Sensors dropped.** The multi-sensor call takes up to 16 sensors with ids of up to
   31 characters; an entry of the fusion cache holds 4 with tags of up to 11. Only a
   body without any usable sensor goes out uncached. Otherwise what does not fit is
   skipped, and the DIFF and HEART packets that follow rebuild the body without it.

Three more disagreements have no run of their own. The properties that touch them say
nothing that the code and the document see differently:

* **Rounding.** `docs/18-data-format-specification.md:55` has the value sent as
  `round(standardized_value * 10000)`. The code casts to `long long`
  (`osfx_core_facade.c:248`), which cuts towards zero: 1.99996 goes out as 19999 and not as
  20000. `Scaled` is the code's cast; `ReadingsArrive` and `SinglesArrive` ask for a value
  less than 1/10000 off and not on the other side of zero, which holds of both.
* **Damaged packets.** `docs/18-data-format-specification.md:20` has the receiver verify the
  CRC-16 first and reject on failure. `osfx_fusion_decode_apply` computes both checksums
  with the packet's meta data and looks at neither (`osfx_fusion_state.c:474`): a damaged
  FULL is handed on and cached, a damaged DIFF applied. The model does the same.
  `ReadingsArrive` and `SinglesArrive` leave a damaged packet out, and the packets of its
  stream up to the next good FULL; `CachesAgree` says that this FULL repairs the cache.
* **Rule order.** `docs/05-port-forwarder.md:10` has rules scanned "in registration order";
  rules are matched in slot order and a removed rule's slot is used again, so that a newer
  rule may come before older ones. `RulesComeBack` is about the slot order, which is what a
  save and a load keep.

History variables, read by properties only, tell what a property about the past needs:

* `SecureHandshake`: `accepted` are the dated packets the server has ever accepted and
  nothing takes one away. `saved` are those that its file remembers; a restart or a clean-up
  moves to `exposed` what went with the session or was not in the file, whatever the store
  then makes of it. A packet that is accepted again while not exposed is `replayed`, and
  `NoReplay` says that there is none. A server that did not write the timestamps, or
  did not read them back, is caught by it (its mutant).
* `GlueServer`: `baseless` collects the packets that were rejected, as a replay, for want of
  room or of a session, without one of the causes `RejectedForCause` lists. A rejection
  changes nothing else, so that the collection is what makes it a step one can speak of.
* `EasyNode`: `promised` are the leases the device was given, `onFile` those of them that
  the last finished save wrote; `PromisesKept` compares an allocation with them and not with
  the table it was made from.

### Bounds

Each model names its bounds in its CONSTANTS and guards with them.

* Allocator: aids modulo 4 or 5, so that a pool can end at the largest aid and
  the scan wraps; two or three slots, fewer than or as many as aids in the pool, so that
  table and pool each run full first; a clock long enough for a lease to be given,
  to end and to be given again; policies with contradictory limits, and arguments
  outside their ranges.
* Store: as many slots as make a file with several lease lines; every prefix is a file.
* Sketch: `millis()` wraps at 5, with an autosave after 2 and retries after 1 and 2, so
  that a retry set before a wrap is due after it, and the signed difference of
  `time_reached` has both signs; three commands and two faults: a save that fails, a load
  and a power loss in any order. `2 * RetryBase * MaxRetry < MilliMod` holds in the code
  (at most 5 times 3 s against 2^32 ms) and is what the signed comparison needs.
* Handshake: two devices and room for one session (the full table); timestamps 0,
  which the code takes for none, and 1; one save and one fault of any kind. A replay
  needs one timestamp, one save and one restart; a wrong key needs two timestamps.
* Glue server: two devices with one request each, one of them with a clock two ahead,
  leases of one unit, a clock of two, three data packets and one clean-up: an aid is
  leased, runs out, is leased to the other device, and that one's packets meet the
  session of the first.
* Stream: two streams, a decoder with room for one, two packets under way and two
  faults; a cache of two sensors under a template of four; calls that differ in values,
  in tags, in number, one with too many sensors and one that does not fit; single
  readings with an empty unit, a unit whose prefix the catalog refuses, an id beyond
  every limit but the plain encoder's, and values that are cut; a prefixed unit in a
  multi-sensor call.
* Platform: two services; one can be registered with either of two instances, one
  with and one without a reload callback; two rules and two names, interchangeable
  (symmetry). Ports are `*` only, since they play no part in the properties.
* Transport: three slots for four default drivers, so that `register_defaults` fails
  half way; one driver priority at the floor; frames of two bytes with an index of two
  values, and payloads that are empty, fit exactly and do not.

### Fairness

* `SecureHandshake`: weak fairness of the delivery of a device's plaintext to the
  server and of `DICT_READY` to the device, and of nothing else. The code never sends
  `DICT_READY` twice, so without the second nothing can complete; `HandshakeCompletes`
  is claimed only as long as neither end loses its sessions.
* `TransportDispatch`: weak fairness of `Send`. The loop over the tries runs to its
  end if the emit callback returns.
* `BootCliOrRun`: weak fairness of the passing of time, of the steps of `setup()` and of
  `id_persist_tick`, which `loop()`, the boot window and the command loop call every few
  milliseconds; none of commands, power loss or a save's success. What is due is done
  before time passes. Saves fail only a bounded number of times: `ChangesAreSaved` says
  that then a change is saved.
* The other specifications are safety specifications and state none.

## 4. Proofs

All for arbitrary constants within the assumptions named in the modules
(`SizeAssumption`, `ArgumentAssumption`, `TimeAssumption` of the allocator,
`AssignAssumption`, `GlueAssumption`, `SessionAssumption`, `FusionAssumption`,
`TransportAssumption` and the like: sizes are positive, fewer slots than aids, arguments
of their types; of the codec also `TextAssumption`, that texts have widths and an aid is
shorter than an id may be, and `CatalogAssumption`, that the catalog's entries have their
types). Every invariant and action property that a passing run checks has a theorem.

`IdAllocatorProofs`:

* `TypeCorrect`. The policy stays within the ranges that the lease computation divides
  and clamps with, whatever the callers pass: `NormalisedType`, `ShortFormType`.
* `AidsAreUnique`. Inductive with the type invariant: `NextAid` is in no entry of the
  cleaned table (`CleanedUnique`, `AddedUnique`).
* `LeasesStayInPool`. Holds unless the pool ends at the largest aid, where the scan
  wraps; an init that changes the pool empties the table.
* `LeasesWithinLimits`. `ClampBounds`: the maximum wins over the minimum.
* `AllocatorImplementsLeaseTable`. Every step is a step of `LeaseTable` or leaves it
  unchanged under the mapping from an aid to the end of its entry's lease. Uniqueness
  is what makes the mapping well defined: with two entries for an aid a release would
  not end its lease.

`IdStoreProofs`:

* `StoreInv` is the inductive invariant: types, unique aids, `FileConsistent` and
  `HeaderProgress`. Uniqueness alone is not inductive once files are read: a load does
  not look for duplicates. It needs that no file names an aid twice (`FileSound`), which
  needs that a save in progress has written what the slots before its cursor hold
  (`SaveProgress`), and that a load in progress has put the lines before its cursor
  into the first slots (`LoadProgress`).
* From it `StoreTypeCorrect`, `AidsAreUniqueAcrossRestarts`, `FilesAreConsistent`,
  `SavesAreFaithful` and `LoadsRestore`. The last has the exception that TLC found: a
  policy whose maximum is below its minimum does not come back as it was.
* The device context starts with cleared memory, so its pool and policy need not be
  legal and `StoreInv` does not hold there. What the operations really need of the types is
  less (`LooselyTyped`), and what file and table have to do with each other depends on
  neither pool nor policy (`InStep`, the part that both invariants share). `EasyInv` is
  those two, and that neither the pool in memory nor the one in the file is an inverted
  range. It gives `EasyTypeCorrect`, `ReadyPoolsAreNotEmpty`, `LeasesAreKept`,
  `DeviceFilesAreConsistent` and `DeviceSavesAreFaithful`, and `PromisesAreKept`:
  every promise that has not run out is an entry of the table, and one that was saved a line
  of the file, from which a load makes an entry again (`PromiseInv`); an allocation gives
  an aid that no entry has.

The sketch, also in `IdStoreProofs`: `SketchInv` adds to the types that the file is a
sequence of lease lines no longer than the table, that a clean table is on file, and that between the load and the
first lease every lease on file is in the table. A save writes the line of every entry
because the used slots are counted by their places (`SlotOrderProofs`); a load that fails
leaves part of the file and nothing else, so that a clean table stays on file. From it
`SketchTypeCorrect`, `CleanTablesAreOnDisk` and `LocalAidsAreFresh`.

`SlotOrderProofs`: that the n-th used slot exists, is used, and that each used slot is the
n-th for exactly one n. Places are an injection from the used slots into a set of as many
numbers, hence a surjection; no induction over the slots is needed. The first k used
slots keep their places (`PlaceKept`), which is what a cache that stops at its limit needs.

`SessionProofs` and `HandshakeProofs`: lemmas about each operation of the session store
(what it does to the session of the aid it is given and to the others, that the first
session of an aid is the only one, that a file cut anywhere reads as sessions that are
older than the ones that were saved), then `HandInv`: sessions fit the messages sent,
keys are of remembered plaintexts; each accepted packet that is not exposed is no later
than the last timestamp of its aid's session, and each saved one no later than the one in
the file (`Remembered`, `FileRemembers`), so that a restart from that file keeps what it
remembers. From it `HandshakeTypeCorrect`, `KeysComeFromPlaintext`,
`HandshakeInOrder`, `NoPacketTwice` and `ServerKeepsKeys`.

`GlueServerProofs`: `AssignInv` says that every reply on the network whose lease still runs
is in the table, and that two such replies for one aid are to one device; a device only
holds what some reply gave it, hence `AidsAreNotShared` and `AidsInUseAreLeased`. `GlueInv`
adds that packets carry an aid as it was assigned, that the timestamp of a session was
heard in a packet under its aid, that keys come from offers that were made, and that no
rejection was baseless, which for the next one follows from where timestamps and keys come
from; it gives the same two for the composed server, `GlueTypeCorrect` and `RejectionsHaveCause`.

`PlatformProofs`: running services are up unless their instance was replaced while they
ran; rule names are unique in the file too, which is what an interrupted save and a
reload need; a complete file holds the whole table as it was saved. From these
`PlatformTypeCorrect`, `RunningServicesAreUp`, `RuleNamesAreUnique` and `RulesAreRestored`.

`DataPathProofs`:

* The caches. `CachesAgree` speaks of a channel that is empty; the invariant behind it
  says what every packet under way will do. `FusionInv`: for each stream there is a trace
  with one cache entry before and after every packet, which ends at the encoder's entry,
  starts at the decoder's if nothing was missed since the last FULL, and of which each
  packet is a step (`Leads`, `Tells`, `Step`). A FULL sets the entry, a DIFF changes an
  entry into the one of its body, a HEART is of the entry's body; nothing is known of a
  packet that was lost, damaged or made past the cache, and those make the stream stale on
  arrival. Encoding adds a step at the end, receiving takes one off the front, a repeat
  doubles a step, which is harmless because each of them done twice is done once. From it
  `FusionTypeCorrect`, `CachesStayTogether` and `BodiesAreRebuilt`.
* The readings. A body that is handed on is the body of an accepted call or what is rebuilt
  of it (`ToldIs`, `RebuiltIs`): some of its segments, in order (`PartOf`). Such a part is
  no longer than the whole (`PartIsShorter`), each of its segments passed the encoder's
  limits, so that the decoder takes it, and what it takes out is what was given
  (`OutputIs`): base 62 read back is the number (`B62IsRead`), and the number is the value
  to four decimals (`ScaledIsNear`). From it `ReadingsComeBack` and `SinglesComeBack`.
* Induction. The lengths of bodies and the digits of base 62 are functions computed from
  their values at smaller numbers. That such a function exists and what it satisfies is
  shown here without the library's induction schemes, which take an operator that the
  provers do not instantiate: induction is stated for a set (`EveryNumber`: a set with 0
  and with each successor of its members holds every number, since the least number it
  lacks, a lowest slot of `SlotOrderProofs`, cannot be), and a function is had from its
  prefixes (`RecursiveFunction`, `LoopFunction`).
* The transport. `TransportInv`: no name is held twice; every driver still to come has all
  its tries and the one being tried has some left; the first that was tried is of the
  highest priority, and no other was tried before it had used up its tries; the frames so
  far are full chunks of the payload, one after the other (`InChunks`). From it
  `TransportTypeCorrect`, `BestGoesFirst`, `TriesAreSpent` and `SentIsWhole`.

What the proof of the caches found in the model, in its history and not in the code: a FULL
that is damaged into a body that does not parse leaves the decoder's cache alone, but the
body it should have brought is missed all the same, so the stream is stale from then on.

Model-checked only: liveness (`HandshakeCompletes`, `ChangesAreSaved`, `DispatchReturns`),
which the prover does not handle, and the three violations, which are counterexamples.

## 5. Plan

Done: the allocator, its file, the device context and the sketch; handshake, assignment
and their composition in one server; the sensor codec over the fusion state; services and
forwarder; transport. All with the theorems of their safety properties.

What could follow:

1. Refinements as theorems: `IdStore` between two power losses as a `LeaseTable`; a body
   channel that `FusionState` implements for the streams that missed nothing; a secure
   channel that `SecureHandshake` implements.
2. Steps towards liveness that are safety: that a dispatch has a measure which each
   refusal lowers (`DispatchReturns`), that the time left to the next save only falls
   while a change is unsaved (`ChangesAreSaved`).
3. The codec's stream inside encrypted packets: a DIFF that is rejected as a replay is
   lost to the fusion decoder.
4. CRC-8, CRC-16 and Base64URL against reference definitions on short inputs.
5. Repeated wrap of the 16-bit sequence numbers of requests.

## 6. Not modelled

* Branches of the dispatcher that change no state (PING, PONG, time, NACK, unknown
  commands), and packets rejected before any state is read (too short, wrong checksum):
  they are steps in which nothing changes.
* The bytes: command layouts, base 62 of timestamps, CRCs, XOR keystream. Of the template,
  geohash and URL, which are off by default, texts that contain the separators, the
  symbol tables and the switches `SUB_TEMPLATE_ID` and `TIMESTAMP`.
* `osfx_storage.c`, `osfx_storage_littlefs.c`: adapters; their failures are those of `IdStore`.
* Counters (hits, drops, ticks, reloads), configuration texts, output formatting, the
  command line and `osfx_ops.c`; the cut of a port argument to 16 bits before it is
  checked (`osfx_plugin_port_forwarder.c:427`) belongs to that parser.
* In the sketch, sending, the plugins and printing. The other examples call the library
  in a straight line and keep no state of their own; scripts and generated tables.
* Emit callbacks that reconfigure the runtime during a dispatch: the repository has none.
