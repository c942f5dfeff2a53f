--------------------------- MODULE PlatformProofs ---------------------------
(***************************************************************************)
(* Theorems about the platform runtime and the port forwarder's rules, for *)
(* any services, instances and size of the rule table.                     *)
(***************************************************************************)
EXTENDS PlatformRuntime, SlotOrderProofs, SequenceTheorems

(* The services *)

Serving(e, r, i) == [used |-> TRUE, enabled |-> e, running |-> r, instance |-> i]

\* What a slot of the service table may hold for service n.
Slot(v, n) ==
  v = Unregistered \/ \E e, r \in BOOLEAN, i \in InstancesOf[n] : v = Serving(e, r, i)

\* The service half of the invariant.
ServiceInv ==
  /\ services = [n \in Names |-> services[n]]
  /\ \A n \in Names : Slot(services[n], n)
  /\ IsFiniteSet(Registered)
  /\ Cardinality(Registered) <= MaxServices
  /\ up \subseteq Instances
  /\ RunningIsUp

LEMMA SlotIs ==
  ASSUME ServiceInv, NEW n \in Names
  PROVE  /\ n \in Registered <=> services[n].used
         /\ n \in Registered =>
              /\ services[n].enabled \in BOOLEAN
              /\ services[n].running \in BOOLEAN
              /\ services[n].instance \in InstancesOf[n]
              /\ services[n].instance \in Instances
         /\ n \notin Registered => services[n] = Unregistered /\ services[n].running = FALSE
<1>1. Slot(services[n], n)
  BY DEF ServiceInv
<1>2. CASE services[n] = Unregistered
  <2>1. ~Unregistered.used /\ Unregistered.running = FALSE
    BY DEF Unregistered
  <2>2. n \notin Registered
    BY <1>2, <2>1 DEF Registered
  <2> QED  BY <1>2, <2>1, <2>2
<1>3. ASSUME NEW e \in BOOLEAN, NEW r \in BOOLEAN, NEW i \in InstancesOf[n],
             services[n] = Serving(e, r, i)
      PROVE  /\ n \in Registered
             /\ services[n].used
             /\ services[n].enabled = e /\ services[n].running = r /\ services[n].instance = i
  BY <1>3 DEF Serving, Registered
<1>4. CASE \E e, r \in BOOLEAN, i \in InstancesOf[n] : services[n] = Serving(e, r, i)
  BY <1>3, <1>4 DEF Instances
<1> QED  BY <1>1, <1>2, <1>4 DEF Slot

LEMMA Served ==
  ASSUME ServiceInv, NEW n \in Registered
  PROVE  \E a, b \in BOOLEAN, i \in InstancesOf[n] : services[n] = Serving(a, b, i)
<1>1. Slot(services[n], n) /\ services[n].used
  BY DEF ServiceInv, Registered
<1>2. services[n] # Unregistered
  BY <1>1 DEF Unregistered
<1> QED  BY <1>1, <1>2 DEF Slot

\* Two services have two instances.
LEMMA OwnInstance ==
  ASSUME ServiceInv, NEW n \in Registered, NEW m \in Registered,
         services[m].instance = services[n].instance
  PROVE  m = n
<1>1. n \in Names /\ m \in Names
  BY DEF Registered
<1> QED  BY <1>1, SlotIs, ServiceAssumption

LEMMA RegisterInv ==
  ASSUME ServiceInv, NEW n \in Names, NEW i \in InstancesOf[n], Register(n, i)
  PROVE  ServiceInv'
<1> DEFINE new == Serving(TRUE, services[n].running, i)
<1>1. services' = [services EXCEPT ![n] = new]
  <2>1. new = [used |-> TRUE, enabled |-> TRUE, running |-> services[n].running, instance |-> i]
    BY DEF Serving
  <2> HIDE DEF new
  <2> QED  BY <2>1 DEF Register
<1>2. services[n].running \in BOOLEAN
  BY SlotIs
<1>3. \A m \in Names : services'[m] = IF m = n THEN new ELSE services[m]
  BY <1>1 DEF ServiceInv
<1>4. services' = [m \in Names |-> services'[m]]
  BY <1>1 DEF ServiceInv
<1>5. \A m \in Names : Slot(services'[m], m)
  <2>1. Slot(new, n)
    BY <1>2 DEF Slot
  <2> HIDE DEF new
  <2> QED  BY <2>1, <1>3 DEF ServiceInv
<1>6. new.used /\ new.running = services[n].running /\ new.instance = i
  BY DEF Serving
<1>7. Registered' = Registered \cup {n}
  <2> HIDE DEF new
  <2> QED  BY <1>3, <1>6 DEF Registered
<1>8. IsFiniteSet(Registered') /\ Cardinality(Registered') <= MaxServices
  <2>1. /\ IsFiniteSet(Registered') /\ Cardinality(Registered) \in Nat
        /\ Cardinality(Registered') = IF n \in Registered THEN Cardinality(Registered)
                                                       ELSE Cardinality(Registered) + 1
    BY <1>7, FS_AddElement, FS_CardinalityType DEF ServiceInv
  <2> QED  BY <2>1, ServiceAssumption DEF ServiceInv, Register
<1>9. RunningIsUp'
  <2> SUFFICES ASSUME NEW m \in Running', m \notin swapped' PROVE services'[m].instance \in up
    BY DEF RunningIsUp, Register
  <2>1. m \in Names /\ services'[m].running
    BY DEF Running, Registered
  <2>2. services[m].running
    <3> HIDE DEF new
    <3> QED  BY <1>3, <1>6, <2>1
  <2>3. m \in Running
    BY <2>1, <2>2, SlotIs DEF Running
  <2>4. services'[m].instance = services[m].instance /\ m \notin swapped
    <3>1. CASE m = n
      <4>1. services'[m].instance = i
        <5> HIDE DEF new
        <5> QED  BY <1>3, <1>6, <3>1
      <4>2. ~(n \in Running /\ services[n].instance # i)
        BY <3>1 DEF Register
      <4> QED  BY <2>3, <3>1, <4>1, <4>2 DEF Register
    <3>2. CASE m # n
      BY <1>3, <2>1, <3>2 DEF Register
    <3> QED  BY <3>1, <3>2
  <2> QED  BY <2>3, <2>4 DEF ServiceInv, RunningIsUp
<1> QED  BY <1>4, <1>5, <1>8, <1>9, SlotIs DEF ServiceInv, Register

\* What it is to set the running flag of a slot ...
LEMMA RunningSet ==
  ASSUME ServiceInv, NEW n \in Names, NEW r \in BOOLEAN, n \in Registered \/ ~r,
         services'[n] = [services[n] EXCEPT !.running = r]
  PROVE  /\ Slot(services'[n], n)
         /\ n \in Registered' <=> n \in Registered
         /\ services'[n].running = r
         /\ n \in Registered => services'[n].instance = services[n].instance
<1> DEFINE v == services[n]
           w == services'[n]
<1>1. w = [v EXCEPT !.running = r] /\ Slot(v, n)
  BY DEF ServiceInv
<1>2. (n \in Registered <=> v.used) /\ (n \in Registered' <=> w.used)
  BY DEF Registered
<1> HIDE DEF v, w
<1>3. CASE v = Unregistered
  <2>1. ~r
    BY <1>2, <1>3 DEF Unregistered
  <2>2. w = Unregistered
    BY <1>1, <1>3, <2>1 DEF Unregistered
  <2>3. ~w.used /\ ~v.used /\ w.running = r
    BY <1>3, <2>1, <2>2 DEF Unregistered
  <2> QED  BY <1>2, <2>2, <2>3 DEF Slot, v, w
<1>4. ASSUME NEW a \in BOOLEAN, NEW b \in BOOLEAN, NEW i \in InstancesOf[n], v = Serving(a, b, i)
      PROVE  w = Serving(a, r, i)
  <2>1. w \in [used : {TRUE}, enabled : BOOLEAN, running : BOOLEAN, instance : {i}]
    BY <1>1, <1>4 DEF Serving
  <2>2. w.enabled = a /\ w.running = r /\ w.instance = i
    BY <1>1, <1>4 DEF Serving
  <2> QED  BY <2>1, <2>2 DEF Serving
<1>5. ASSUME NEW a \in BOOLEAN, NEW b \in BOOLEAN, NEW i \in InstancesOf[n], v = Serving(a, b, i)
      PROVE  Slot(w, n) /\ w.used /\ v.used /\ w.running = r /\ w.instance = v.instance
  <2>1. w = Serving(a, r, i)
    BY <1>4, <1>5
  <2> QED  BY <1>5, <2>1 DEF Serving, Slot
<1> QED  BY <1>1, <1>2, <1>3, <1>5 DEF Slot, v, w

\* ... and the enabled flag.
LEMMA EnabledSet ==
  ASSUME ServiceInv, NEW n \in Registered, NEW e \in BOOLEAN,
         services'[n] = [services[n] EXCEPT !.enabled = e]
  PROVE  /\ Slot(services'[n], n)
         /\ n \in Registered'
         /\ services'[n].running = services[n].running
         /\ services'[n].instance = services[n].instance
<1> DEFINE v == services[n]
           w == services'[n]
<1>1. n \in Names
  BY DEF Registered
<1>2. PICK a \in BOOLEAN, b \in BOOLEAN, i \in InstancesOf[n] : v = Serving(a, b, i)
  BY Served
<1>3. w = [v EXCEPT !.enabled = e]
  OBVIOUS
<1> HIDE DEF v, w
<1>4. w = Serving(e, b, i)
  <2>1. w \in [used : {TRUE}, enabled : BOOLEAN, running : BOOLEAN, instance : {i}]
    BY <1>2, <1>3 DEF Serving
  <2>2. w.enabled = e /\ w.running = b /\ w.instance = i
    BY <1>2, <1>3 DEF Serving
  <2> QED  BY <2>1, <2>2 DEF Serving
<1>5. Slot(w, n) /\ w.used /\ w.running = v.running /\ w.instance = v.instance
  BY <1>2, <1>4 DEF Serving, Slot
<1> QED  BY <1>1, <1>5 DEF Registered, v, w

\* No call but a registration takes a slot or gives one back.
LEMMA SameSlots ==
  ASSUME ServiceInv, services' = [n \in Names |-> services'[n]],
         \A n \in Names : Slot(services'[n], n) /\ (n \in Registered' <=> n \in Registered),
         up' \subseteq Instances, RunningIsUp'
  PROVE  ServiceInv'
<1>1. Registered' = Registered
  BY DEF Registered
<1> QED  BY <1>1 DEF ServiceInv

LEMMA SetEnabledInv ==
  ASSUME ServiceInv, NEW n \in Names, NEW e \in BOOLEAN, SetEnabled(n, e)
  PROVE  ServiceInv'
<1>1. /\ services' = [m \in Names |-> services'[m]]
      /\ \A m \in Names : m # n => services'[m] = services[m]
      /\ services'[n] = [services[n] EXCEPT !.enabled = e]
      /\ n \in Registered /\ UNCHANGED <<up, swapped>>
  BY DEF SetEnabled, ServiceInv
<1>2. ASSUME NEW m \in Names
      PROVE  /\ Slot(services'[m], m) /\ (m \in Registered' <=> m \in Registered)
             /\ m \in Registered => /\ services'[m].running = services[m].running
                                    /\ services'[m].instance = services[m].instance
  <2>1. CASE m = n
    BY <1>1, <2>1, EnabledSet
  <2>2. CASE m # n
    BY <1>1, <2>2 DEF ServiceInv, Registered
  <2> QED  BY <2>1, <2>2
<1>3. RunningIsUp'
  BY <1>1, <1>2 DEF RunningIsUp, ServiceInv, Running, Registered
<1> QED  BY <1>1, <1>2, <1>3, SameSlots DEF ServiceInv

\* What the other calls make of the running flags.
Sets(running) ==
  /\ services' = [n \in Names |-> services'[n]]
  /\ \A n \in Names : services'[n] = [services[n] EXCEPT !.running = running[n]]

LEMMA SetsIs ==
  ASSUME ServiceInv, NEW running \in [Names -> BOOLEAN], Sets(running),
         \A n \in Names : running[n] => n \in Registered
  PROVE  /\ \A n \in Names : Slot(services'[n], n) /\ (n \in Registered' <=> n \in Registered)
         /\ \A n \in Running' : /\ n \in Registered /\ running[n]
                                /\ services'[n].instance = services[n].instance
<1>1. ASSUME NEW n \in Names
      PROVE  /\ Slot(services'[n], n)
             /\ n \in Registered' <=> n \in Registered
             /\ services'[n].running = running[n]
             /\ n \in Registered => services'[n].instance = services[n].instance
  <2>1. services'[n] = [services[n] EXCEPT !.running = running[n]]
    BY DEF Sets
  <2> QED  BY <2>1, RunningSet
<1> QED  BY <1>1 DEF Running, Registered

\* A flag that is set to what it was.
LEMMA SetToItself ==
  ASSUME ServiceInv, NEW n \in Names
  PROVE  /\ services[n].running \in BOOLEAN
         /\ services[n].running => n \in Registered
         /\ services[n] = [services[n] EXCEPT !.running = services[n].running]
<1> DEFINE v == services[n]
<1>1. Slot(v, n)
  BY DEF ServiceInv
<1>2. v.running \in BOOLEAN /\ (v.running => n \in Registered)
  BY SlotIs
<1> HIDE DEF v
<1>3. v = [v EXCEPT !.running = v.running]
  <2>1. CASE v = Unregistered
    BY <2>1 DEF Unregistered
  <2>2. ASSUME NEW a \in BOOLEAN, NEW b \in BOOLEAN, NEW i \in InstancesOf[n], v = Serving(a, b, i)
        PROVE  v = [v EXCEPT !.running = v.running]
    BY <2>2 DEF Serving
  <2> QED  BY <1>1, <2>1, <2>2 DEF Slot
<1> QED  BY <1>2, <1>3 DEF v

LEMMA OneSet ==
  ASSUME ServiceInv, NEW n \in Registered, NEW r \in BOOLEAN,
         services' = [services EXCEPT ![n].running = r]
  PROVE  Sets([m \in Names |-> IF m = n THEN r ELSE services[m].running])
<1>1. /\ services' = [m \in Names |-> services'[m]]
      /\ \A m \in Names : m # n => services'[m] = services[m]
      /\ services'[n] = [services[n] EXCEPT !.running = r]
  BY DEF ServiceInv, Registered
<1> QED  BY <1>1, SetToItself DEF Sets

LEMMA InitAllInv ==
  ASSUME ServiceInv, NEW ok \in SUBSET Instances, InitAll(ok)
  PROVE  ServiceInv'
<1> DEFINE running == [n \in Names |-> IF n \in Enabled THEN services[n].instance \in ok
                                                        ELSE services[n].running]
<1>1. running \in [Names -> BOOLEAN] /\ Sets(running)
  <2>1. running \in [Names -> BOOLEAN]
    <3>1. ASSUME NEW n \in Names PROVE running[n] \in BOOLEAN
      <4>1. (services[n].instance \in ok) = TRUE \/ (services[n].instance \in ok) = FALSE
        OBVIOUS
      <4>2. services[n].running \in BOOLEAN
        BY SetToItself
      <4>3. CASE n \in Enabled
        BY <4>1, <4>3
      <4>4. CASE n \notin Enabled
        BY <4>2, <4>4
      <4> QED  BY <4>3, <4>4
    <3> QED  BY <3>1
  <2>2. services' = [n \in Names |-> services'[n]]
    BY DEF InitAll
  <2>3. ASSUME NEW n \in Names
        PROVE  services'[n] = [services[n] EXCEPT !.running = running[n]]
    <3>1. CASE n \in Enabled
      <4>1. services'[n] = [services[n] EXCEPT !.running = services[n].instance \in ok]
        BY <3>1 DEF InitAll
      <4>2. running[n] = (services[n].instance \in ok)
        BY <3>1
      <4> QED  BY <4>1, <4>2
    <3>2. CASE n \notin Enabled
      <4>1. services'[n] = services[n] /\ running[n] = services[n].running
        BY <3>2 DEF InitAll
      <4> QED  BY <4>1, SetToItself
    <3> QED  BY <3>1, <3>2
  <2> QED  BY <2>1, <2>2, <2>3 DEF Sets
<1>2. \A n \in Names : running[n] => n \in Registered
  BY SetToItself DEF Enabled
<1>3. up' = up \cup (Of(Enabled) \cap ok) /\ swapped' = swapped \ Enabled
  BY DEF InitAll
<1>4. RunningIsUp'
  <2> SUFFICES ASSUME NEW n \in Running', n \notin swapped' PROVE services'[n].instance \in up'
    BY DEF RunningIsUp
  <2>1. n \in Names /\ running[n] /\ services'[n].instance = services[n].instance
    <3> HIDE DEF running
    <3> QED  BY <1>1, <1>2, SetsIs DEF Registered
  <2>2. CASE n \in Enabled
    BY <1>3, <2>1, <2>2 DEF Of
  <2>3. CASE n \notin Enabled
    <3>1. n \in Running /\ n \notin swapped
      BY <1>3, <2>1, <2>3, SetToItself DEF Running
    <3> QED  BY <1>3, <2>1, <3>1 DEF ServiceInv, RunningIsUp
  <2> QED  BY <2>2, <2>3
<1> HIDE DEF running
<1> QED  BY <1>1, <1>2, <1>3, <1>4, SetsIs, SameSlots DEF ServiceInv, Sets

\* The three calls about one service.
LEMMA OneServiceInv ==
  ASSUME ServiceInv, NEW n \in Registered, NEW r \in BOOLEAN,
         services' = [services EXCEPT ![n].running = r],
         up' \subseteq up \cup Of({n}), up \ Of({n}) \subseteq up',
         r => services[n].instance \in up' \/ n \in swapped',
         swapped \ {n} \subseteq swapped'
  PROVE  ServiceInv'
<1> DEFINE running == [m \in Names |-> IF m = n THEN r ELSE services[m].running]
<1>1. running \in [Names -> BOOLEAN] /\ \A m \in Names : running[m] => m \in Registered
  BY SetToItself
<1>2. Sets(running)
  BY OneSet
<1>3. RunningIsUp'
  <2> SUFFICES ASSUME NEW m \in Running', m \notin swapped' PROVE services'[m].instance \in up'
    BY DEF RunningIsUp
  <2>1. m \in Registered /\ running[m] /\ services'[m].instance = services[m].instance
    <3> HIDE DEF running
    <3> QED  BY <1>1, <1>2, SetsIs
  <2>2. CASE m = n
    BY <2>1, <2>2 DEF Registered
  <2>3. CASE m # n
    <3>1. m \in Running /\ m \notin swapped
      BY <2>1, <2>3 DEF Running, Registered
    <3>2. services[m].instance \in up
      BY <3>1 DEF ServiceInv, RunningIsUp
    <3>3. services[m].instance \notin Of({n})
      BY <2>1, <2>3, OwnInstance DEF Of
    <3> QED  BY <2>1, <3>2, <3>3
  <2> QED  BY <2>2, <2>3
<1>4. up' \subseteq Instances
  <2>1. services[n].instance \in Instances
    BY SlotIs DEF Registered
  <2> QED  BY <2>1 DEF ServiceInv, Of
<1> HIDE DEF running
<1> QED  BY <1>1, <1>2, <1>3, <1>4, SetsIs, SameSlots DEF Sets

LEMMA LoadInv ==
  ASSUME ServiceInv, NEW n \in Names, NEW ok \in BOOLEAN, Load(n, ok)
  PROVE  ServiceInv'
<1>1. n \in Registered /\ services[n].instance \in Of({n})
  BY DEF Load, Enabled, Of
<1> QED  BY <1>1, OneServiceInv DEF Load

LEMMA ReloadInPlaceInv ==
  ASSUME ServiceInv, NEW n \in Names, NEW ok \in BOOLEAN, ReloadInPlace(n, ok)
  PROVE  ServiceInv'
<1> DEFINE r == services[n].running /\ ok
<1>1. n \in Registered /\ services[n].instance \in Of({n}) /\ r \in BOOLEAN
  BY DEF ReloadInPlace, Enabled, Of
<1>2. services' = [services EXCEPT ![n].running = r]
  BY DEF ReloadInPlace
<1>3. /\ up' \subseteq up \cup Of({n}) /\ up \ Of({n}) \subseteq up'
      /\ r => services[n].instance \in up'
      /\ swapped \ {n} \subseteq swapped'
  BY <1>1 DEF ReloadInPlace
<1> HIDE DEF r
<1> QED  BY <1>1, <1>2, <1>3, OneServiceInv

LEMMA ReloadByRestartInv ==
  ASSUME ServiceInv, NEW n \in Names, NEW ok \in BOOLEAN, ReloadByRestart(n, ok)
  PROVE  ServiceInv'
<1>1. n \in Registered /\ services[n].instance \in Of({n})
  BY DEF ReloadByRestart, Enabled, Of
<1> QED  BY <1>1, OneServiceInv DEF ReloadByRestart

LEMMA CloseAllInv ==
  ASSUME ServiceInv, NEW ok \in SUBSET Instances, CloseAll(ok)
  PROVE  ServiceInv'
<1> DEFINE running == [n \in Names |-> FALSE]
<1>1. running \in [Names -> BOOLEAN] /\ Sets(running) /\ \A n \in Names : ~running[n]
  BY DEF CloseAll, Sets
<1>2. up' \subseteq Instances
  BY DEF CloseAll, ServiceInv
<1> HIDE DEF running
<1>3. Running' = {}
  BY <1>1, SetsIs DEF Running, Registered
<1>4. RunningIsUp'
  BY <1>3 DEF RunningIsUp
<1> QED  BY <1>1, <1>2, <1>4, SetsIs, SameSlots DEF Sets

\* After a power loss no slot is taken.
LEMMA NoServiceInv ==
  ASSUME services' = [n \in Names |-> Unregistered], up' = {}
  PROVE  ServiceInv'
<1>1. ~Unregistered.used
  BY DEF Unregistered
<1>2. Registered' = {} /\ Running' = {}
  BY <1>1 DEF Registered, Running
<1>3. IsFiniteSet(Registered') /\ Cardinality(Registered') <= MaxServices
  BY <1>2, FS_EmptySet, ServiceAssumption
<1> QED  BY <1>2, <1>3 DEF ServiceInv, Slot, RunningIsUp
-----------------------------------------------------------------------------
(* The rules and their file *)

\* No line of the file names a rule of another line, and every text is there.
LinesApart(f) ==
  \A i \in 1 .. Len(f) :
    /\ f[i].whole
    /\ \A j \in 1 .. Len(f) : f[i].name \in RuleNames /\ f[i].name = f[j].name => i = j

\* The forwarder's half of the invariant: the names of the file are as unique
\* as those of the table, or a load would bring two rules of one name.
ForwarderInv ==
  /\ rules \in [RuleSlots -> Rule \cup {FreeRule}]
  /\ file \in Seq(Rule) /\ Len(file) <= MaxRules
  /\ UniqueRuleNames
  /\ LinesApart(file)
  /\ saved # <<>> => file = saved

LEMMA FreeIs == ~FreeRule.used
BY DEF FreeRule

LEMMA UsedIs ==
  ASSUME ForwarderInv, NEW r \in RuleSlots, rules[r].used
  PROVE  rules[r] \in Rule
BY FreeIs DEF ForwarderInv

LEMMA NamesApart ==
  ASSUME ForwarderInv, NEW q \in RuleSlots, NEW r \in RuleSlots,
         rules[q].used, rules[r].used, rules[q].name \in RuleNames, rules[q].name = rules[r].name
  PROVE  q = r
BY DEF ForwarderInv, UniqueRuleNames, Named

\* A call that puts one rule into a slot.
LEMMA PutInv ==
  ASSUME ForwarderInv, NEW r, NEW rule \in Rule \cup {FreeRule}, Put(r, rule),
         rule.used /\ rule.name \in RuleNames => \A q \in Named(rule.name) : q = r
  PROVE  ForwarderInv'
<1>1. \A q \in RuleSlots : rules'[q] = IF q = r THEN rule ELSE rules[q]
  BY DEF Put, ForwarderInv
<1>2. rules' \in [RuleSlots -> Rule \cup {FreeRule}]
  BY DEF Put, ForwarderInv
<1>3. UniqueRuleNames'
  <2> SUFFICES ASSUME NEW n \in RuleNames, NEW p \in RuleSlots, NEW q \in RuleSlots,
                      rules'[p].used, rules'[p].name = n, rules'[q].used, rules'[q].name = n
               PROVE  p = q
    BY DEF UniqueRuleNames, Named
  <2>1. CASE p # r /\ q # r
    BY <1>1, <2>1, NamesApart
  <2>2. CASE p = r /\ q # r
    BY <1>1, <2>2 DEF Named
  <2>3. CASE p # r /\ q = r
    BY <1>1, <2>3 DEF Named
  <2> QED  BY <2>1, <2>2, <2>3
<1>4. UNCHANGED <<file, saved>>
  BY DEF Put
<1> QED  BY <1>2, <1>3, <1>4 DEF ForwarderInv, LinesApart

LEMMA SlotForNamed ==
  ASSUME ForwarderInv, NEW n \in RuleNames, NEW q \in Named(n)
  PROVE  /\ q = SlotFor(n) /\ q = Lowest(Named(n))
         /\ rules[q] \in Rule /\ q \in RuleSlots /\ rules[q].name = n
<1>1. q \in RuleSlots /\ rules[q].used /\ rules[q].name = n
  BY DEF Named
<1>2. \A p \in Named(n) : p = q
  BY <1>1, NamesApart DEF Named
<1>3. q <= q
  BY <1>1, ForwarderAssumption DEF RuleSlots
<1>4. Lowest(Named(n)) = q
  BY <1>2, <1>3, Zenon DEF Lowest
<1> QED  BY <1>1, <1>4, UsedIs DEF SlotFor

LEMMA AddRuleInv ==
  ASSUME ForwarderInv, NEW n \in RuleNames, NEW p \in Protos, NEW port \in Ports \cup {AnyPort},
         AddRule(n, p, port) \/ AddTruncated(n, p, port)
  PROVE  ForwarderInv'
<1> DEFINE rule(from, whole) == [used |-> TRUE, enabled |-> TRUE, name |-> n, from |-> from,
                                 port |-> port, whole |-> whole]
<1>1. PICK from \in {p, NoProto}, whole \in BOOLEAN : Put(SlotFor(n), rule(from, whole))
  BY DEF AddRule, AddTruncated
<1>2. rule(from, whole) \in Rule /\ rule(from, whole).name = n
  BY DEF Rule
<1>3. \A q \in Named(n) : q = SlotFor(n)
  BY SlotForNamed
<1> HIDE DEF rule
<1> QED  BY <1>1, <1>2, <1>3, PutInv

LEMMA AddUnnamedInv ==
  ASSUME ForwarderInv, NEW port \in Ports \cup {AnyPort}, AddUnnamed(port)
  PROVE  ForwarderInv'
<1> DEFINE rule == [used |-> TRUE, enabled |-> TRUE, name |-> NoName, from |-> NoProto,
                    port |-> port, whole |-> FALSE]
<1>1. Put(Lowest(FreeSlots), rule)
  BY DEF AddUnnamed
<1>2. rule \in Rule /\ rule.name \notin RuleNames
  BY ForwarderAssumption DEF Rule
<1> HIDE DEF rule
<1> QED  BY <1>1, <1>2, PutInv

LEMMA RemoveRuleInv ==
  ASSUME ForwarderInv, NEW n \in RuleNames, RemoveRule(n)
  PROVE  ForwarderInv'
BY PutInv, FreeIs DEF RemoveRule

LEMMA EnableRuleInv ==
  ASSUME ForwarderInv, NEW n \in RuleNames, NEW e \in BOOLEAN, EnableRule(n, e)
  PROVE  ForwarderInv'
<1> DEFINE r    == Lowest(Named(n))
           rule == [rules[r] EXCEPT !.enabled = e]
<1>1. Put(r, rule) /\ \E q : q \in Named(n)
  BY DEF EnableRule
<1>2. rules[r] \in Rule /\ rules[r].name = n /\ \A q \in Named(n) : q = r
  BY <1>1, SlotForNamed
<1>3. rule \in Rule /\ rule.name = n
  BY <1>2 DEF Rule
<1> HIDE DEF rule, r
<1> QED  BY <1>1, <1>2, <1>3, PutInv
-----------------------------------------------------------------------------

LEMMA LinesAre ==
  ASSUME ForwarderInv
  PROVE  RulesOf(Whole) \in Seq(Rule) /\ Len(RulesOf(Whole)) <= MaxRules /\ LinesApart(RulesOf(Whole))
<1> DEFINE k     == Cardinality(Whole)
           at(i) == NthSlot(Whole, i)
           f     == RulesOf(Whole)
<1>1. Whole \in SUBSET (1 .. MaxRules) /\ k \in Nat /\ k <= MaxRules
  <2>1. Whole \in SUBSET (1 .. MaxRules) /\ MaxRules \in Nat
    BY ForwarderAssumption DEF Whole, RuleSlots
  <2> QED  BY <2>1, CountOf
<1>2. ASSUME NEW i \in 1 .. k
      PROVE  /\ at(i) \in RuleSlots /\ Place(Whole, at(i)) = i
             /\ rules[at(i)].used /\ rules[at(i)].whole /\ rules[at(i)] \in Rule
  <2>1. at(i) \in Whole /\ Place(Whole, at(i)) = i
    BY <1>1, ForwarderAssumption, NthSlotIs
  <2>2. at(i) \in RuleSlots /\ rules[at(i)].used /\ rules[at(i)].whole
    BY <2>1 DEF Whole
  <2> QED  BY <2>1, <2>2, UsedIs
<1>3. f = [i \in 1 .. k |-> rules[at(i)]]
  BY DEF RulesOf
<1> HIDE DEF at, f
<1>4. f \in Seq(Rule) /\ Len(f) = k
  BY <1>1, <1>2, <1>3
<1>5. ASSUME NEW i \in 1 .. k, NEW j \in 1 .. k, f[i].name \in RuleNames, f[i].name = f[j].name
      PROVE  i = j
  <2>1. at(i) = at(j)
    BY <1>2, <1>3, <1>5, NamesApart
  <2> QED  BY <1>2, <2>1
<1>6. \A i \in 1 .. k : f[i].whole
  BY <1>2, <1>3
<1> QED  BY <1>1, <1>4, <1>5, <1>6 DEF LinesApart, f

LEMMA SaveInv ==
  ASSUME ForwarderInv, Save
  PROVE  ForwarderInv'
<1> DEFINE f == RulesOf(Whole)
<1>1. /\ \/ file' = f /\ saved' = f
         \/ \E k \in 0 .. Len(f) - 1 : file' = SubSeq(f, 1, k) /\ saved' = <<>>
      /\ UNCHANGED rules
  BY DEF Save, Lines
<1>2. f \in Seq(Rule) /\ Len(f) \in Nat /\ Len(f) <= MaxRules /\ LinesApart(f)
  BY LinesAre
<1> HIDE DEF f
<1>3. UniqueRuleNames'
  BY <1>1 DEF ForwarderInv, UniqueRuleNames, Named
<1>4. CASE file' = f /\ saved' = f
  BY <1>1, <1>2, <1>3, <1>4 DEF ForwarderInv, LinesApart
<1>5. ASSUME NEW k \in 0 .. Len(f) - 1, file' = SubSeq(f, 1, k), saved' = <<>>
      PROVE  ForwarderInv'
  <2>1. \A i \in 1 .. k : f[i] \in Rule
    BY <1>2
  <2>2. /\ file' \in Seq(Rule) /\ Len(file') = k
        /\ \A i \in 1 .. k : file'[i] = f[i]
    BY <1>2, <1>5, <2>1, SubSeqProperties
  <2>3. LinesApart(file')
    BY <1>2, <2>2 DEF LinesApart
  <2>4. Len(file') <= MaxRules
    BY <1>2, <2>2, ForwarderAssumption
  <2> QED  BY <1>1, <1>3, <1>5, <2>2, <2>3, <2>4 DEF ForwarderInv, LinesApart
<1> QED  BY <1>1, <1>4, <1>5

LEMMA LoadRulesIs ==
  ASSUME ForwarderInv, LoadRules, fileExists
  PROVE  /\ \A r \in RuleSlots : rules'[r] = IF r <= Len(file) THEN file[r] ELSE FreeRule
         /\ \A r \in RuleSlots : rules'[r].used => r \in 1 .. Len(file)
<1>1. \A r \in RuleSlots : rules'[r] = IF r <= Len(file) THEN file[r] ELSE FreeRule
  BY DEF LoadRules
<1>2. Len(file) \in Nat /\ \A r \in RuleSlots : r \in Nat /\ r >= 1
  BY ForwarderAssumption DEF ForwarderInv, RuleSlots
<1> QED  BY <1>1, <1>2, FreeIs

LEMMA LoadRulesInv ==
  ASSUME ForwarderInv, LoadRules
  PROVE  ForwarderInv'
<1>1. CASE ~fileExists
  BY <1>1 DEF LoadRules, ForwarderInv, UniqueRuleNames, Named, LinesApart
<1>2. CASE fileExists
  <2>1. rules' \in [RuleSlots -> Rule \cup {FreeRule}]
    <3>1. rules' = [r \in RuleSlots |-> IF r <= Len(file) THEN file[r] ELSE FreeRule]
      BY <1>2 DEF LoadRules
    <3>2. \A r \in RuleSlots : r <= Len(file) => file[r] \in Rule
      BY ForwarderAssumption DEF ForwarderInv, RuleSlots
    <3> QED  BY <3>1, <3>2
  <2>2. UniqueRuleNames'
    <3> SUFFICES ASSUME NEW n \in RuleNames, NEW p \in RuleSlots, NEW q \in RuleSlots,
                        rules'[p].used, rules'[p].name = n, rules'[q].used, rules'[q].name = n
                 PROVE  p = q
      BY DEF UniqueRuleNames, Named
    <3>1. /\ p \in 1 .. Len(file) /\ q \in 1 .. Len(file)
          /\ rules'[p] = file[p] /\ rules'[q] = file[q]
      BY <1>2, LoadRulesIs
    <3> QED  BY <3>1 DEF ForwarderInv, LinesApart
  <2> QED  BY <2>1, <2>2 DEF LoadRules, ForwarderInv, LinesApart
<1> QED  BY <1>1, <1>2
-----------------------------------------------------------------------------
(* Services and rules together *)

Inv == ServiceInv /\ ForwarderInv /\ persistPath \in BOOLEAN

LEMMA InitInv == Init => Inv
<1> SUFFICES ASSUME Init PROVE Inv
  OBVIOUS
<1>1. services = [n \in Names |-> Unregistered] /\ up = {}
  BY DEF Init, ServiceInit
<1>2. Registered = {} /\ Running = {}
  BY <1>1 DEF Registered, Running, Unregistered
<1>3. ServiceInv
  BY <1>1, <1>2, FS_EmptySet, ServiceAssumption DEF ServiceInv, Slot, RunningIsUp
<1>4. rules = NoRules /\ file = <<>> /\ saved = <<>>
  BY DEF Init, ForwarderInit
<1>5. UniqueRuleNames
  BY <1>4, FreeIs DEF NoRules, UniqueRuleNames, Named
<1>6. file \in Seq(Rule) /\ Len(file) = 0
  BY <1>4, EmptySeq
<1>7. persistPath \in BOOLEAN
  BY DEF Init
<1>8. ForwarderInv
  BY <1>4, <1>5, <1>6, ForwarderAssumption DEF ForwarderInv, LinesApart, NoRules
<1> QED  BY <1>3, <1>7, <1>8 DEF Inv

LEMMA ServiceKept ==
  ASSUME ServiceInv, UNCHANGED serviceVars
  PROVE  ServiceInv'
BY DEF serviceVars, ServiceInv, RunningIsUp, Running, Registered

LEMMA ForwarderKept ==
  ASSUME ForwarderInv, UNCHANGED forwarderVars
  PROVE  ForwarderInv'
BY DEF forwarderVars, ForwarderInv, UniqueRuleNames, Named, LinesApart

LEMMA StepInv == Inv /\ [Next]_vars => Inv'
<1> SUFFICES ASSUME ServiceInv, ForwarderInv, persistPath \in BOOLEAN, [Next]_vars
             PROVE  Inv'
  BY DEF Inv
<1>0. persistPath' \in BOOLEAN
  BY DEF Next, Registration, Enabling, PluginInitAll, PluginLoad, PluginReload, PluginCloseAll,
         Initialised, Closed, RuleCall, Reboot, vars
<1>1. CASE Registration
  BY <1>0, <1>1, RegisterInv, ForwarderKept DEF Registration, Inv
<1>2. CASE Enabling
  BY <1>0, <1>2, SetEnabledInv, ForwarderKept DEF Enabling, Inv
<1>3. ASSUME NEW S, Initialised(S) PROVE ForwarderInv'
  BY <1>3, LoadRulesInv, ForwarderKept DEF Initialised
<1>4. CASE PluginInitAll
  BY <1>0, <1>3, <1>4, InitAllInv DEF PluginInitAll, Outcomes, Inv
<1>5. CASE PluginLoad
  BY <1>0, <1>3, <1>5, LoadInv DEF PluginLoad, Inv
<1>6. CASE PluginReload
  BY <1>0, <1>3, <1>6, ReloadInPlaceInv, ReloadByRestartInv DEF PluginReload, Inv
<1>7. CASE PluginCloseAll
  BY <1>0, <1>7, CloseAllInv, SaveInv, ForwarderKept DEF PluginCloseAll, Outcomes, Closed, Inv
<1>8. CASE RuleCall
  <2>1. ForwarderInv'
    BY <1>8, AddRuleInv, AddUnnamedInv, RemoveRuleInv, EnableRuleInv, SaveInv, LoadRulesInv
       DEF RuleCall
  <2> QED  BY <1>0, <1>8, <2>1, ServiceKept DEF RuleCall, Inv
<1>9. CASE Reboot
  <2>1. ServiceInv'
    BY <1>9, NoServiceInv DEF Reboot
  <2>2. rules' = NoRules /\ UNCHANGED <<file, saved>>
    BY <1>9 DEF Reboot
  <2>3. UniqueRuleNames'
    BY <2>2, FreeIs DEF NoRules, UniqueRuleNames, Named
  <2>4. rules' \in [RuleSlots -> Rule \cup {FreeRule}]
    BY <2>2 DEF NoRules
  <2> QED  BY <1>0, <2>1, <2>2, <2>3, <2>4 DEF ForwarderInv, LinesApart, Inv
<1>10. CASE UNCHANGED vars
  BY <1>0, <1>10, ServiceKept, ForwarderKept DEF vars, Inv
<1> QED  BY <1>1, <1>2, <1>4, <1>5, <1>6, <1>7, <1>8, <1>9, <1>10 DEF Next

LEMMA Invariant == Spec => []Inv
BY InitInv, StepInv, PTL DEF Spec

LEMMA ServicesTyped ==
  ASSUME ServiceInv
  PROVE  ServiceTypeOK
<1>1. ASSUME NEW n \in Names
      PROVE  \/ services[n] = Unregistered
             \/ services[n] \in [used : {TRUE}, enabled : BOOLEAN, running : BOOLEAN,
                                 instance : InstancesOf[n]]
  <2> DEFINE v == services[n]
  <2>1. Slot(v, n)
    BY DEF ServiceInv
  <2> HIDE DEF v
  <2>2. ASSUME NEW e \in BOOLEAN, NEW r \in BOOLEAN, NEW i \in InstancesOf[n], v = Serving(e, r, i)
        PROVE  v \in [used : {TRUE}, enabled : BOOLEAN, running : BOOLEAN, instance : InstancesOf[n]]
    BY <2>2 DEF Serving
  <2>3. \/ v = Unregistered
        \/ v \in [used : {TRUE}, enabled : BOOLEAN, running : BOOLEAN, instance : InstancesOf[n]]
    BY <2>1, <2>2 DEF Slot
  <2> QED  BY <2>3 DEF v
<1> QED  BY <1>1 DEF ServiceInv, ServiceTypeOK

\* Both tables stay well typed, and neither table nor file outgrows its size.
THEOREM PlatformTypeCorrect == Spec => []TypeOK
<1>1. ForwarderInv => ForwarderTypeOK
  BY DEF ForwarderInv, ForwarderTypeOK
<1>2. Inv => TypeOK
  BY <1>1, ServicesTyped DEF Inv, TypeOK
<1> QED  BY <1>2, Invariant, PTL

\* However the callbacks fail, what the runtime calls running has an instance
\* that is initialised, for any number of services and instances.
THEOREM RunningServicesAreUp == Spec => []RunningIsUp
<1>1. Inv => RunningIsUp
  BY DEF Inv, ServiceInv
<1> QED  BY <1>1, Invariant, PTL

\* No name is ever in the rule table twice, through failing adds, files that a
\* save left short, reloads and power loss.
THEOREM RuleNamesAreUnique == Spec => []UniqueRuleNames
<1>1. Inv => UniqueRuleNames
  BY DEF Inv, ForwarderInv
<1> QED  BY <1>1, Invariant, PTL

\* A load from a finished file brings back every rule in its place.
THEOREM RulesAreRestored == Spec => RulesComeBack
<1> DEFINE Back ==
      LoadRules /\ rules' # rules /\ saved # <<>> =>
        /\ \A r \in RuleSlots :
             IF r <= Len(saved) THEN rules'[r] = saved[r] ELSE ~rules'[r].used
        /\ \A r \in RuleSlots, p \in Protos, port \in Ports \cup {AnyPort} :
             Takes(rules', r, p, port) => rules'[r].whole
<1>1. Inv => Back
  <2> SUFFICES ASSUME ForwarderInv, LoadRules, rules' # rules, saved # <<>>
               PROVE  /\ \A r \in RuleSlots :
                           IF r <= Len(saved) THEN rules'[r] = saved[r] ELSE ~rules'[r].used
                      /\ \A r \in RuleSlots, p \in Protos, port \in Ports \cup {AnyPort} :
                           Takes(rules', r, p, port) => rules'[r].whole
    BY DEF Inv
  <2>1. fileExists /\ saved = file
    BY DEF LoadRules, ForwarderInv
  <2>2. \A r \in RuleSlots : rules'[r] = IF r <= Len(file) THEN file[r] ELSE FreeRule
    BY <2>1, LoadRulesIs
  <2>3. ASSUME NEW r \in RuleSlots, rules'[r].used PROVE rules'[r].whole
    <3>1. r \in 1 .. Len(file)
      BY <2>1, <2>3, LoadRulesIs
    <3>2. rules'[r] = file[r]
      BY <2>2, <3>1
    <3> QED  BY <3>1, <3>2 DEF ForwarderInv, LinesApart
  <2> QED  BY <2>1, <2>2, <2>3, FreeIs DEF Takes, Matches
<1> HIDE DEF Back
<1>2. Inv => [Back]_forwarderVars
  BY <1>1
<1>3. Spec => [][Back]_forwarderVars
  BY <1>2, Invariant, PTL
<1> QED  BY <1>3 DEF RulesComeBack, Back
=============================================================================
