SPECIFICATION FairSpec
CONSTANTS
  Stems <- MCStems
  Versions <- MCVersions
  Digests <- MCDigests
  Selectors <- MCSelectors
  NoSelector = NoSelector
  NoRef = NoRef
  Packages <- MCPackages
  Rank <- MCRank
  FactoryEntries <- MCFactory
  NoDigest = NoDigest
  Unset = Unset
  NoRow = NoRow
  Forms <- MCForms
  MaxWrites = 2
  Pods = {p1}
  Images <- MCImages
  NoFile = NoFile
INVARIANTS
  EnabledEntriesPinned
PROPERTIES
  RestartSameBytes
  OutageCostsOnlyUnpinned
  BootEnds
  ImplementsPinStore
