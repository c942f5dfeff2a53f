SPECIFICATION Spec
CONSTANTS
  Streams <- MCStreams
  EncEntries = 2
  MaxEntries = 1
  MaxSensors = 2
  MaxChannel = 2
  MaxFaults = 0
  Multis <- MCMultis
  Readings <- MCReadings
  Width <- MCWidth
  Units <- MCUnits
  Prefix <- MCPrefix
  Spelling <- MCSpelling
  Fine = 2
  Payload <- MCPayload
  TmplMax = 4
PROPERTIES
  AllSensorsArrive
