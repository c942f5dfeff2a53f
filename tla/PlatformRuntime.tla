--------------------------- MODULE PlatformRuntime --------------------------
(***************************************************************************)
(* The platform runtime (src/osfx_platform_runtime.c): the port forwarder  *)
(* as one of the services of the runtime, loading its rules when it is     *)
(* initialised or reloaded and saving them when it is closed, in the file  *)
(* its configuration names, if it names one: the runtime registers it      *)
(* without.  The other services have callbacks that may fail.              *)
(***************************************************************************)
EXTENDS ServiceRuntime, PortForwarder

CONSTANTS
  Forwarder,        \* the name the port forwarder is registered under
  ForwarderObject   \* its instance, which has a reload callback

ASSUME PlatformAssumption ==
  /\ Forwarder \in Names
  /\ InstancesOf[Forwarder] = {ForwarderObject}
  /\ ForwarderObject \in Reloadable

VARIABLE persistPath   \* whether the forwarder has been given a path

vars == <<serviceVars, forwarderVars, persistPath>>

\* osfx_platform_runtime_init registers the plugins.
Init == ServiceInit /\ ForwarderInit /\ persistPath = FALSE

\* The forwarder's callbacks always succeed.
Outcomes == {ok \in SUBSET Instances : ForwarderObject \in ok}

\* What becomes of the rules when S are the services that are initialised, with
\* a path or without; a path once given is kept ...
Initialised(S) ==
  \/ /\ Forwarder \in S
     /\ \E given \in BOOLEAN : persistPath' = (persistPath \/ given)
     /\ IF persistPath' THEN LoadRules ELSE UNCHANGED forwarderVars
  \/ Forwarder \notin S /\ UNCHANGED <<forwarderVars, persistPath>>

\* ... or closed.
Closed(S) ==
  /\ IF Forwarder \in S /\ persistPath THEN Save ELSE UNCHANGED forwarderVars
  /\ UNCHANGED persistPath

Registration == \E n \in Names : \E i \in InstancesOf[n] :
                  Register(n, i) /\ UNCHANGED <<forwarderVars, persistPath>>

Enabling == \E n \in Names, e \in BOOLEAN :
              SetEnabled(n, e) /\ UNCHANGED <<forwarderVars, persistPath>>

PluginInitAll == \E ok \in Outcomes : InitAll(ok) /\ Initialised(Enabled)

\* osfx_platform_plugin_load
PluginLoad == \E n \in Names, ok \in BOOLEAN :
                /\ n = Forwarder => ok
                /\ Load(n, ok)
                /\ Initialised({n})

PluginReload == \E n \in Names, ok \in BOOLEAN :
                  /\ n = Forwarder => ok
                  /\ ReloadInPlace(n, ok) \/ ReloadByRestart(n, ok)
                  /\ Initialised({n})

PluginCloseAll == \E ok \in Outcomes : CloseAll(ok) /\ Closed(Running)

\* The application's calls of the forwarder.  The commands osfx_platform_plugin_cmd
\* passes to it while it runs make the same ones.  A save or a load may name the
\* path itself.
RuleCall ==
  /\ \/ \E n \in RuleNames, p \in Protos, port \in Ports \cup {AnyPort} :
          AddRule(n, p, port) \/ AddTruncated(n, p, port)
     \/ \E port \in Ports \cup {AnyPort} : AddUnnamed(port)
     \/ \E n \in RuleNames : RemoveRule(n)
     \/ \E n \in RuleNames, e \in BOOLEAN : EnableRule(n, e)
     \/ Save
     \/ LoadRules
  /\ UNCHANGED <<serviceVars, persistPath>>

\* Power loss: the file stays as it is.
Reboot ==
  /\ services' = [n \in Names |-> Unregistered]
  /\ up' = {}
  /\ swapped' = {}
  /\ rules' = NoRules
  /\ persistPath' = FALSE
  /\ UNCHANGED <<file, fileExists, saved>>

Next ==
  \/ Registration
  \/ Enabling
  \/ PluginInitAll
  \/ PluginLoad
  \/ PluginReload
  \/ PluginCloseAll
  \/ RuleCall
  \/ Reboot

Spec == Init /\ [][Next]_vars

\* Type invariant: the service table's, the rule table's and the path.
TypeOK == ServiceTypeOK /\ ForwarderTypeOK /\ persistPath \in BOOLEAN
=============================================================================
