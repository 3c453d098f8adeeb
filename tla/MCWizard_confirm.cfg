CONSTANTS
  Stacks <- SomeStacks
  LlamaModule <- SomeBuilds
  Catalogue <- SomeModules
  Templates <- OneTemplate
  NDisks = 4
  Layouts = {"basic"}
  MaxLate = 0
SPECIFICATION Spec
INVARIANT ConfirmShowsTruth
CHECK_DEADLOCK FALSE
