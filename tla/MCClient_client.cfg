SPECIFICATION FairSpec
CONSTANTS
  config = config  bundle = bundle
  Nil = Nil
  Sources = {config, bundle}
  CABundle = bundle
  MaxEvents = 2
INVARIANTS
  NothingLost
PROPERTIES
  PodKept
  ClientRuns
