SPECIFICATION MCSpec
CONSTANTS
  g1 = g1
  g2 = g2
  g3 = g3
  g4 = g4
  team = team
  alice = alice
  bob = bob
  stranger = stranger
  v1 = v1
  v2 = v2
  Groups <- MCGroups
  Hierarchies <- MCHierarchies
  ParentSets <- MCParentSets
  OtherRefs = {team}
  Users <- MCUsers
  NotAGroup = NotAGroup
  None = None
  MaxEdits = 1
  Deployments <- MCDeployments
  Directories <- MCDirectories
  Identities <- MCIdentities
  Values = {v1, v2}
  RefNamed <- MCRefNamed
  Accounts <- MCAccounts
  Catalogs <- MCCatalogs
  Lifetimes = {Unset, 1, 300}
  Unset = Unset
  MaxTime = 2
  Environments <- MCEnvironments
  Installations <- MCInstallations
  Services <- MCServices
  Missing = Missing
INVARIANTS
  OwnsAllAncestors
  OwnsOnlyAncestors
  TokenOfVerifiedUser
  ResolversDecideInOrder
  ReportIsTrue
  BackendServesWhatIsInstalled
PROPERTIES
  SignInEnds
CHECK_DEADLOCK FALSE
