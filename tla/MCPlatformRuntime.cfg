SPECIFICATION Spec
CONSTANTS
  Names <- MCNames
  InstancesOf <- MCInstancesOf
  Reloadable <- MCReloadable
  MaxServices = 2
  RuleNames = {r1, r2}
  Protos = {"udp"}
  Ports = {}
  MaxRules = 2
  Forwarder = "forwarder"
  ForwarderObject = "pf"
SYMMETRY
  RuleSymmetry
INVARIANTS
  TypeOK
  RunningIsUp
  UniqueRuleNames
PROPERTIES
  RulesComeBack
