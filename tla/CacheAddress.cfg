\* Two rebuilds without a use in between give the model a schema at an old address.
SPECIFICATION Spec
CONSTANTS
  Kinds = {"aliases", "extraction"}
  t1 = t1
  t2 = t2
  a1 = a1
  a2 = a2
  a3 = a3
  NoAddress = NoAddress
  NoEntry = NoEntry
  Threads = {t1}
  Addresses <- ThreeAddresses
  MaxRebuilds = 2
  MaxFamilies = 3
INVARIANTS
  AliasPlansFresh
