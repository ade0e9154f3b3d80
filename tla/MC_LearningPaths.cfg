SPECIFICATION MCSpec
CONSTANTS
  Frontends <- MCVisited
  Exports <- MCExports
  NullExporters <- MCNullExporters
  StaticIds <- MCStaticIds
  MenuScope <- MCMenuScope
  DefaultNames <- MCDefaultNames
  AdminNames <- MCAdminNames
  RbacName = "rbac"
  Entities <- MCEntities
  CardOf <- MCCardOf
  TabConfigOf <- MCTabConfigOf
  PluginAnswer <- MCPluginAnswer
  ResourceOf <- MCResourceOf
  RefOf <- MCRefOf
  StaticConfigs <- MCStaticConfigs
  OverrideFiles <- MCOverrideFiles
  Languages <- MCLanguages
  MessageKeys <- MCKeys
  Unset = Unset
  None = None
INVARIANTS
  FallbackRenders
CHECK_DEADLOCK FALSE
