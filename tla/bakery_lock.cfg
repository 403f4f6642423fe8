SPECIFICATION Spec
CONSTANTS
  N = 3
  TicketRange = 8
INVARIANTS
  TypeOK
  HolderIsFirst
  NoLostWakeup
PROPERTIES
  LockPromise
