SPECIFICATION Spec
CONSTANTS
  Writers = {w1, w2}
  Capacities = {3, 4, 7, 8}
  LineLength = 3
  MaxEntries = 2
  MaxFaults = 1
CHECK_DEADLOCK FALSE
INVARIANTS TypeOK PromisedIsDurable LostHasACause OneEntryPerLine
PROPERTIES ImplementsLog
