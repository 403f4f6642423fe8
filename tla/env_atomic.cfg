SPECIFICATION Spec
CONSTANTS
  Values <- MCValues
  Default = Default
  LastSerial = 4
  Drivers = {"sf", "mmc", "nand"}
  WriteFaults = {"sf"}
  ReadFaults = {"sf"}
INVARIANTS
  TypeOK
  SavedIsStored
PROPERTIES
  AtomicSave
