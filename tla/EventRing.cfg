\* One thread opens the ring, a second one arrives later and is refused.
CONSTANTS
  t1 = t1
  t2 = t2
  NoThread = NoThread
  Threads = {t1, t2}
  FirstThreads = {t1}
  Slots = 2
  MaxOffers = 5
SPECIFICATION FairSpec
INVARIANTS
  TypeOK
  OneProducerPerRing
  NoSlotRace
  EncodedInOrder
  FreeSlotsHoldNothing
  NothingUnaccounted
PROPERTIES
  ImplementsQueue
