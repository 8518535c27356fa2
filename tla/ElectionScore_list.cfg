\* Three VMs, up to three checksums: every pattern of groups and ties among them.
SPECIFICATION Spec
CONSTANTS
  Vm = {1, 2, 3}
  Checksum = {a, b, c}
  Time = {1, 2}
  Records <- RecordsThatMatter
  None = None
  Pending = Pending
SYMMETRY Checksums
INVARIANTS TypeOK SolePrimaryWins ElectedIsUpToDate NewGroupElects
PROPERTIES ElectionsAgree PrimaryStays
CHECK_DEADLOCK FALSE
