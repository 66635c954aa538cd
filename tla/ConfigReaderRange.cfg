CONSTANTS
  Addresses = {10, 12}
  FullLength = {12}
  LeaseTimes = {600}
  Largest = 15
  Junk = junk
  Unset = unset
  MaxLines = 1
SPECIFICATION Spec
INVARIANT
  PoolEndsAsNamed
