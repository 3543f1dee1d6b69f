\* Three callers and one slot: one request under way, two waiting or barging in.
SPECIFICATION Spec
CONSTANTS
  Requests = {r1, r2, r3}
  MaxPoolSize = 1
  States = {s1, s2}
  NoState = NoState
INVARIANTS
  TypeOK
  ActiveCounts
  NoSlotIdleWhileQueued
PROPERTIES
  EveryWaiterIsServed
