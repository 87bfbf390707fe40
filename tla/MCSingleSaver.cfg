CONSTANTS
  p1 = p1
  p2 = p2
  r1 = r1
  r2 = r2
  i1 = i1
  i2 = i2
  NoFilter = NoFilter
  Providers <- MCProviders
  Trips = {"CGK-DPS"}
  Cabins = {"economy", "business"}
  Catalog <- MCCatalog
  Requests <- MCRequests
  Instances <- MCInstances
  InstanceOf <- MCInstanceOf
  Searches <- OneKeySearches
  Flaky = {p2}
  CacheExpiration = 1
  Faults = {}
  MaxFaults = 0
SPECIFICATION Spec
INVARIANTS
  SingleSaver
