SPECIFICATION FairSpec
CONSTANTS
  Packages <- MCPackages
  Versions <- MCVersions
  Ranges <- MCRanges
  Lockfiles <- MCLockfiles
  TargetLists <- MCTargetLists
  PublishedSets <- MCPublishedSets
  DependencyMaps <- MCDependencyMaps
INVARIANTS
  DependenciesLocked
  UnrelatedKept
PROPERTIES
  Ends
CHECK_DEADLOCK FALSE
