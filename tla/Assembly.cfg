CONSTANTS
  Names = {1, 2, 3}
  Shards = 2
  Shard <- MCShard
  Clients = {c1}
  MaxVersions <- MCMaxVersions
  MaxViews = 2
  Whitelists <- MCWhitelists
  Manifests <- MCManifests
  Skills = {"recon"}
  Executors = {"child", "peer"}
  MaxSkills = 2
  MaxExecutors = 1
SPECIFICATION AssemblyFairSpec
INVARIANTS
  CatalogIsFaithful
  AgentAsDeclared
PROPERTY AssembliesEnd
CHECK_DEADLOCK FALSE
