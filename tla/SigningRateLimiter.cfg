\* Four requests: one being signed, three queued; an interval that is waited in part.
SPECIFICATION Spec
CONSTANTS
  Requests = {r1, r2, r3, r4}
  Interval = 2
  MaxQueueSize = 3
INVARIANTS
  TypeOK
  QueueIsServed
PROPERTIES
  NeverTooFast
  EveryRequestSettles
