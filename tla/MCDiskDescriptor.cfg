CONSTANTS
  d1 = d1
  d2 = d2
  d3 = d3
  Disks = {d1, d2, d3}
  SizeOf <- SomeSizes
  TransportOf <- SomeTransports
  Rotational = {d2, d3}
  Removable = {}
  SerialOf <- SomeSerials
  TextOf <- SomeWords
  VendorTextOf <- SomeVendorWords
  Names = {1, 2, 3}
  NameText <- SomeNames
  AliasesOf <- SomeAliases
  Descriptors <- SomeDescriptors
SPECIFICATION Spec
INVARIANT MatchesAreExact
INVARIANT ErrorsAreHopeless
INVARIANT SameEveryBoot
