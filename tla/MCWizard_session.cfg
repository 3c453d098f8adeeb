CONSTANTS
  Stacks <- SomeStacks
  LlamaModule <- SomeBuilds
  Catalogue <- SomeModules
  Templates <- SomeTemplates
  NDisks = 4
  Layouts = {"basic"}
  MaxLate = 1
SPECIFICATION FairSpec
INVARIANT InstallReady
INVARIANT ModeFollowsPath
INVARIANT ModulesAsTicked
INVARIANT OnePipeline
INVARIANT TruthfulExit
PROPERTY OutcomeReached
CHECK_DEADLOCK FALSE
