SPECIFICATION Spec
CONSTANTS
  Stems <- MCStems
  Versions <- MCVersions
  Digests <- MCDigests
  Selectors <- MCSelectors
  NoSelector = NoSelector
  NoRef = NoRef
  Packages <- MCOnePackage
  Rank <- MCRank
  FactoryEntries <- MCFactory
  NoDigest = NoDigest
  Unset = Unset
  NoRow = NoRow
  Forms <- MCForms
  MaxWrites = 1
  Pods = {p1, p2}
  Images <- MCImages
  NoFile = NoFile
PROPERTIES
  StoredDigestStays
