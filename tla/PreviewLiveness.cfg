CONSTANTS
  Owner = o1
  Owners = {o1}
  Leases = {l1}
  NoLease = NoLease
  OwnerOf <- MCOwnerOf
  ttl = 2
  Retention = 3
  MaxDelay = 2
  MaxCommands = 2
SPECIFICATION FairSpec
PROPERTIES
  LeftIsCleaned
  StartConcludes
