CONSTANTS
  Addresses = {10, 12}
  FullLength = {12}
  LeaseTimes = {600, 7200}
  Largest = 15
  Junk = junk
  Unset = unset
  MaxLines = 2
SPECIFICATION Spec
INVARIANTS
  TypeOK
  PoolFromLastRange
  LeaseAsNamed
  DnsFromOneLine
