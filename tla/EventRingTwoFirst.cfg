\* Two event-loop threads make their first claim on the same fresh ring.
CONSTANTS
  t1 = t1
  t2 = t2
  NoThread = NoThread
  Threads = {t1, t2}
  FirstThreads = {t1, t2}
  Slots = 2
  MaxOffers = 3
SPECIFICATION Spec
INVARIANTS
  OneProducerPerRing
