SPECIFICATION Spec
CONSTANTS
  SessionMax = 1
  Devices = {1, 2}
  MaxStamp = 1
  MaxSaves = 1
  MaxFaults = 1
INVARIANTS
  TypeOK
  KeysAgree
  HandshakeOrder
  NoReplay
PROPERTIES
  ServerKeyStable
  HandshakeCompletes
