SPECIFICATION ListsSpec
CONSTANTS
  Stems <- MCStems
  Versions <- MCVersions
  Digests <- MCDigests
  Selectors <- MCSelectors
  NoSelector = NoSelector
  NoRef = NoRef
  Packages <- MCPackages
  Rank <- MCRank
  FactoryEntries <- MCFactory
  NoDigest = NoDigest
  Unset = Unset
  NoRow = NoRow
  Forms <- MCForms
  MaxWrites = 4
  OperatorConfigs <- MCOperatorConfigs
  ExtensionsFiles <- MCExtensionsFiles
  Invalid = Invalid
  NoFile = NoFile
  Partial = Partial
INVARIANTS
  OneRowPerPlugin
  EnabledPluginKept
  FactoryDefaultWins
  InstallsThisBootsMerge
  OperatorWins
  DropsOnlySamePlugin
PROPERTIES
  UninstallIsLocal
