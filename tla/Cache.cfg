\* Two threads fill the caches, all but the alias plans, while
\* the model is rebuilt and its family recreated.
SPECIFICATION FairSpec
CONSTANTS
  Kinds = {"extraction", "adapter", "canonical"}
  t1 = t1
  t2 = t2
  a1 = a1
  a2 = a2
  a3 = a3
  NoAddress = NoAddress
  NoEntry = NoEntry
  Threads <- TwoThreads
  Addresses <- TwoAddresses
  MaxRebuilds = 1
  MaxFamilies = 2
INVARIANTS
  PlansFresh
PROPERTIES
  LookupEnds
  AdapterBuiltOnce
