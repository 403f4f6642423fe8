SPECIFICATION Spec
CONSTANTS
  Values <- MCValues
  Default = Default
  LastSerial = 4
  Drivers = {"mmc", "nand"}
  WriteFaults = {}
  ReadFaults = {"mmc", "nand"}
INVARIANTS
  SavedIsStored
