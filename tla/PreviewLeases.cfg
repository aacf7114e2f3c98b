CONSTANTS
  Owner = o1
  Owners = {o1}
  Leases = {l1, l2}
  NoLease = NoLease
  OwnerOf <- MCOwnerOf
  ttl = 1
  Retention = 2
  MaxDelay = 1
  MaxCommands = 1
SPECIFICATION Spec
INVARIANTS
  TypeOK
  ProcessesAreLeased
  ReadyIsHeld
PROPERTIES
  ImplementsLease
  KeptWhileUsed
SYMMETRY LeaseSymmetry
