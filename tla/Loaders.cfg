SPECIFICATION FairSpec
CONSTANTS
  l1 = l1
  l2 = l2
  a1 = a1
  m1 = m1
  None = None
  Loaders = {l1, l2, a1}
  Announcing = {a1}
  Macs = {m1}
  MacOf <- SameMac
  MaxOffers = 2
  OnlineTtl = 2
  RegistrationTtl = 2
  Retention = 3
INVARIANTS RegistryInv
PROPERTIES ExpiryIsShown
