CONSTANTS
  Producers = {p1, p2}
  N = 2
  Writes = 3
SPECIFICATION FairSpec
INVARIANTS RingInv SlotExclusive LenWithinCapacity
PROPERTIES ImplementsTicketQueue EnqueueReturns
