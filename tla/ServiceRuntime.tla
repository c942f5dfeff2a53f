--------------------------- MODULE ServiceRuntime ---------------------------
(***************************************************************************)
(* The service runtime (src/osfx_service_runtime.c): a table of named      *)
(* services, the init, reload and close callbacks it makes, and its idea   *)
(* of which services run.  A callback may fail; `up' is what the callbacks *)
(* made of the instances themselves.                                       *)
(*                                                                         *)
(* Ticks and commands change no state here but counters, which are left    *)
(* out with the configuration texts.  Services are never unregistered, so  *)
(* a slot of the table is named by its service.                            *)
(***************************************************************************)
EXTENDS Naturals, FiniteSets

CONSTANTS
  Names,
  InstancesOf,   \* the instances a service may be registered with
  Reloadable,    \* the instances with a reload callback
  MaxServices    \* OSFX_SERVICE_MAX

Instances == UNION {InstancesOf[n] : n \in Names}

ASSUME ServiceAssumption ==
  /\ \A n, m \in Names : n # m => InstancesOf[n] \cap InstancesOf[m] = {}
  /\ Reloadable \subseteq Instances
  /\ MaxServices \in Nat

VARIABLES
  services,   \* services[]
  up,         \* the instances that are initialised and not closed since
  swapped     \* history: services whose instance was replaced while running

serviceVars == <<services, up, swapped>>

Unregistered == [used |-> FALSE, enabled |-> FALSE, running |-> FALSE]

Registered == {n \in Names : services[n].used}
Enabled    == {n \in Registered : services[n].enabled}
Running    == {n \in Registered : services[n].running}

Of(S) == {services[n].instance : n \in S}

ServiceInit ==
  /\ services = [n \in Names |-> Unregistered]
  /\ up = {}
  /\ swapped = {}

\* osfx_service_register_ex: also over a service that is there, which keeps its
\* running flag with the new instance.
Register(n, i) ==
  /\ n \in Registered \/ Cardinality(Registered) < MaxServices
  /\ services' = [services EXCEPT ![n] =
                    [used |-> TRUE, enabled |-> TRUE, running |-> @.running, instance |-> i]]
  /\ swapped' = IF n \in Running /\ services[n].instance # i THEN swapped \cup {n} ELSE swapped
  /\ UNCHANGED up

SetEnabled(n, e) ==
  /\ n \in Registered
  /\ services' = [services EXCEPT ![n].enabled = e]
  /\ UNCHANGED <<up, swapped>>

\* The init callback of every enabled service, running or not; ok are the
\* instances for which it succeeds.
InitAll(ok) ==
  /\ services' = [n \in Names |-> IF n \in Enabled
                                  THEN [services[n] EXCEPT !.running = services[n].instance \in ok]
                                  ELSE services[n]]
  /\ up' = up \cup (Of(Enabled) \cap ok)
  /\ swapped' = swapped \ Enabled

\* osfx_service_load: the same for one service.
Load(n, ok) ==
  /\ n \in Enabled
  /\ services' = [services EXCEPT ![n].running = ok]
  /\ up' = IF ok THEN up \cup Of({n}) ELSE up
  /\ swapped' = swapped \ {n}

\* osfx_service_reload by the service's own callback: a failure takes the
\* running flag away without a close, a success does not set it.
ReloadInPlace(n, ok) ==
  /\ n \in Enabled
  /\ services[n].instance \in Reloadable
  /\ services' = [services EXCEPT ![n].running = @ /\ ok]
  /\ up' = IF ok THEN up \cup Of({n}) ELSE up
  /\ swapped' = IF ok \/ n \notin Running THEN swapped \ {n} ELSE swapped

\* A slip: the result of the second init is not looked at.
ReloadByRestartHopeful(n, ok) ==
  /\ n \in Enabled
  /\ services[n].instance \notin Reloadable
  /\ services' = [services EXCEPT ![n].running = TRUE]
  /\ up' = (IF n \in Running THEN up \ Of({n}) ELSE up) \cup (IF ok THEN Of({n}) ELSE {})
  /\ swapped' = swapped \ {n}

\* Without a callback of its own: close if running, then init.
ReloadByRestart(n, ok) ==
  /\ n \in Enabled
  /\ services[n].instance \notin Reloadable
  /\ services' = [services EXCEPT ![n].running = ok]
  /\ up' = (IF n \in Running THEN up \ Of({n}) ELSE up) \cup (IF ok THEN Of({n}) ELSE {})
  /\ swapped' = swapped \ {n}

\* osfx_service_close_all: every running service, enabled or not; ok are the
\* instances whose close succeeds.
CloseAll(ok) ==
  /\ services' = [n \in Names |-> [services[n] EXCEPT !.running = FALSE]]
  /\ up' = up \ (Of(Running) \cap ok)
  /\ swapped' = {}
-----------------------------------------------------------------------------
(* Correctness *)

ServiceTypeOK ==
  /\ \A n \in Names :
       services[n] = Unregistered \/
       services[n] \in [used : {TRUE}, enabled : BOOLEAN, running : BOOLEAN,
                        instance : InstancesOf[n]]
  /\ Cardinality(Registered) <= MaxServices
  /\ up \subseteq Instances

\* A service the runtime ticks and sends commands to has an instance that its
\* init made ready and nobody closed since, through every order of failing
\* init, reload and close calls; unless its instance was replaced meanwhile.
RunningIsUp == \A n \in Running \ swapped : services[n].instance \in up
=============================================================================
