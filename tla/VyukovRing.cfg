SPECIFICATION FairSpec
CONSTANTS
  Producers = {p1, p2}
  Consumers = {c1, c2}
  Items = {a, b}
  Capacity = 2
  MaxPos = 3
INVARIANTS NoDataRace PopsWhatWasPushed
PROPERTIES ImplementsQueue Drained
