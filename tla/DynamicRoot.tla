---------------------------- MODULE DynamicRoot ----------------------------
(***************************************************************************)
(* The start of the frontend: ScalprumRoot reads the configuration,        *)
(* DynamicRoot loads the modules of the plugins, fetches the translation   *)
(* overrides, creates the app and the registry of what the plugins         *)
(* contribute, and shows the page; Root then shows the sidebar, which      *)
(* depends on a permission that is answered, and answered anew, later.     *)
(* Until the page is shown the user sees a loader.                         *)
(*                                                                         *)
(* A plugin contributes routes, mount points, icons, ... : every           *)
(* contribution names an import of a module of its plugin.  Kinds that are *)
(* treated alike share the kind "part".  What a module exports, and what   *)
(* the servers answer, is outside the app.                                 *)
(***************************************************************************)
EXTENDS MenuItems

CONSTANTS
  Frontends,       \* the configurations of dynamicPlugins.frontend to start with
  Exports,         \* the imports of each module that exists, by <<scope, module>>
  NullExporters,   \* the modules that export an object without a prototype
  StaticIds,       \* ids of the APIs and themes that are compiled in
  MenuScope,       \* the scope 'default.main-menu-items', which has no module
  None

VARIABLES
  frontend,        \* the configuration of this deployment
  showAdministration,   \* app.sidebar.administration
  stage,           \* what the start waits for
  plugins,         \* the dynamicPlugins property of DynamicRoot
  manifests,       \* TRUE when the scalprum configuration was fetched
  answered,        \* the modules whose requests succeeded (read by properties only)
  loaded,          \* the modules initializeRemotePlugins returned
  app,             \* what createApp was given
  registry,        \* the contributions of the registry
  menu,            \* the menu tree of the registry
  permission,      \* may the user create policies
  refused          \* TRUE once the permission was refused (read by properties only)

start == <<stage, plugins, manifests, answered, loaded>>
page == <<app, registry, menu, permission, refused>>
vars == <<frontend, showAdministration, start, page>>

\* Kinds whose modules requiredModules lists: all but the TechDocs addons, and the
\* entity tabs, which name no module.
RequiredKinds == {"part", "override", "signIn", "translation"}
ImportKinds == RequiredKinds \cup {"addon"}

\* What extractDynamicConfig collects: kinds with an import, and the entity tabs.
DynamicConfig == ImportKinds \cup {"tab"}

MenuItemConfig(item) ==
  item.priority \in Int \cup {Unset} /\ item.enabled \in BOOLEAN \cup {Unset}

\* What the configuration says of a plugin: lists.
CustomProperties(plugin) ==
  /\ IsList(plugin.uses) /\ IsList(plugin.routes) /\ IsList(plugin.menuItems)
  /\ \A use \in ToSet(plugin.uses) : use.kind \in DynamicConfig
  /\ \A item \in ToSet(plugin.menuItems) : MenuItemConfig(item)

ASSUME FrontendsAssumption ==
  \A ps \in Frontends : IsList(ps) /\ \A plugin \in ToSet(ps) : CustomProperties(plugin)

ASSUME ExportsAssumption == MenuScope \notin {m[1] : m \in DOMAIN Exports}

-----------------------------------------------------------------------------
(* The contributions of a frontend, each with its place: the plugin, and where it  *)
(* comes among the contributions of that plugin.                                  *)

\* Whatever its kind, a scope, a module, an import, and what it is contributed to: a
\* path, a mount point, an id.
Contribution(ps, i, j) ==
  [at |-> <<i, j>>, kind |-> ps[i].uses[j].kind, scope |-> ps[i].scope,
   module |-> ps[i].uses[j].module, import |-> ps[i].uses[j].import,
   slot |-> ps[i].uses[j].slot]

Contributions(ps) ==
  UNION {{Contribution(ps, i, j) : j \in DOMAIN ps[i].uses} : i \in DOMAIN ps}

Earlier(c, d) ==
  c.at[1] < d.at[1] \/ (c.at[1] = d.at[1] /\ c.at[2] < d.at[2])
First(S) == CHOOSE c \in S : \A d \in S : ~ Earlier(d, c)

OfKinds(contributions, kinds) == {c \in contributions : c.kind \in kinds}

requiredModules(ps) ==
  {<<ps[i].scope, ps[i].module>> : i \in DOMAIN ps}
    \cup {<<c.scope, c.module>> : c \in OfKinds(Contributions(ps), RequiredKinds)}

\* allPlugins[scope]?.[module]?.[importName]
Found(c, modules) ==
  <<c.scope, c.module>> \in modules /\ c.import \in Exports[<<c.scope, c.module>>]

Served(ps, kinds, modules) ==
  {c \in OfKinds(Contributions(ps), kinds) : Found(c, modules)}

\* A tab takes its path if no tab before it did.
entityTabOverrides(ps) ==
  LET tabs == OfKinds(Contributions(ps), {"tab"})
  IN  {tab \in tabs : \A other \in tabs : Earlier(other, tab) => other.slot # tab.slot}

\* Plugins replace compiled-in APIs and themes by id; the first sign-in page that
\* was found is used, or else the static one.
AppOf(ps, modules) ==
  LET overrides == Served(ps, {"override"}, modules)
      pages == Served(ps, {"signIn"}, modules)
      taken == {c.slot : c \in overrides}
  IN  [static |-> StaticIds \ taken, dynamic |-> overrides,
       signInPage |-> IF pages = {} THEN None ELSE First(pages)]

RegistryOf(ps, modules) ==
  [served |-> Served(ps, {"part", "addon"}, modules),
   entityTabs |-> entityTabOverrides(ps)]

-----------------------------------------------------------------------------
Init ==
  /\ frontend \in Frontends
  /\ showAdministration \in BOOLEAN
  /\ stage = "config"
  /\ plugins = <<>>
  /\ manifests = FALSE
  /\ answered = {}
  /\ loaded = {}
  /\ app = None
  /\ registry = None
  /\ menu = None
  /\ permission = "loading"
  /\ refused = FALSE

\* ScalprumRoot has the configuration, and asks for the manifests of the plugins.
ConfigLoads ==
  /\ stage = "config"
  /\ stage' = "manifests"
  /\ plugins' = frontend
  /\ UNCHANGED <<frontend, showAdministration, manifests, answered, loaded, page>>

\* The configuration cannot be read: useAsync ends in an error, and DynamicRoot is
\* rendered without plugins.
ConfigFails ==
  /\ stage = "config"
  /\ stage' = "modules"
  /\ UNCHANGED <<frontend, showAdministration, plugins, manifests, answered, loaded, page>>

\* Broken: no catch around the request.
ManifestsAnswer_Uncaught(ok) ==
  /\ stage = "manifests"
  /\ manifests' = ok
  /\ stage' = IF ok THEN "modules" ELSE "manifests lost"
  /\ UNCHANGED <<frontend, showAdministration, plugins, answered, loaded, page>>

\* A failed request leaves the empty scalprum configuration.
ManifestsAnswer(ok) ==
  /\ stage = "manifests"
  /\ manifests' = ok
  /\ stage' = "modules"
  /\ UNCHANGED <<frontend, showAdministration, plugins, answered, loaded, page>>

\* The search for plugins among the imports looks fields up in the prototype of each,
\* which throws for an import that has none.
PluginSearchThrows(modules) == modules \cap NullExporters # {}

\* Broken: one module that fails fails them all.
ModulesSettle_AllOrNothing(modules) ==
  /\ stage = "modules"
  /\ modules \subseteq requiredModules(plugins) \cap DOMAIN Exports
  /\ ~ manifests => modules = {}
  /\ answered' = modules
  /\ loaded' = IF modules = requiredModules(plugins) \cap DOMAIN Exports
               THEN modules ELSE {}
  /\ stage' = IF PluginSearchThrows(loaded') THEN "null prototype" ELSE "translations"
  /\ UNCHANGED <<frontend, showAdministration, plugins, manifests, page>>

\* initializeRemotePlugins: every required module is loaded or fails by itself.
ModulesSettle(modules) ==
  /\ stage = "modules"
  /\ modules \subseteq requiredModules(plugins) \cap DOMAIN Exports
  /\ ~ manifests => modules = {}
  /\ answered' = modules
  /\ loaded' = modules
  /\ stage' = IF PluginSearchThrows(modules) THEN "null prototype" ELSE "translations"
  /\ UNCHANGED <<frontend, showAdministration, plugins, manifests, page>>

\* fetchOverrideTranslations came to an end, be it without overrides: the app and
\* the registry are made, and the chunk of the page is asked for.
TranslationsEnd ==
  /\ stage = "translations"
  /\ app' = AppOf(plugins, loaded)
  /\ registry' = RegistryOf(plugins, loaded)
  /\ \E items \in {extractMenuItems(plugins)} : menu' = buildTree(items)
  /\ stage' = "chunk"
  /\ UNCHANGED <<frontend, showAdministration, plugins, manifests, answered, loaded,
                 permission, refused>>

\* A body that is no JSON in an answer that is ok: the promise is returned, not
\* awaited, so the catch of fetchOverrideTranslations does not see it.
TranslationsNotJson ==
  /\ stage = "translations"
  /\ stage' = "translations not JSON"
  /\ UNCHANGED <<frontend, showAdministration, plugins, manifests, answered, loaded, page>>

\* afterInit
ChunkAnswer(ok) ==
  /\ stage = "chunk"
  /\ stage' = IF ok THEN "shown" ELSE "chunk lost"
  /\ UNCHANGED <<frontend, showAdministration, plugins, manifests, answered, loaded, page>>

\* Broken: the filtered children are not kept.
PermissionAnswer_NotFiltered(allowed) ==
  /\ stage = "shown"
  /\ permission' = IF allowed THEN "allowed" ELSE "denied"
  /\ refused' = (refused \/ ~ allowed)
  /\ UNCHANGED <<frontend, showAdministration, start, app, registry, menu>>

\* usePermission has an answer, a first or a new one; a failed request counts as a
\* refusal.  Root renders, and may change the menu of the registry.
PermissionAnswer(allowed) ==
  /\ stage = "shown"
  /\ permission' = IF allowed THEN "allowed" ELSE "denied"
  /\ refused' = (refused \/ ~ allowed)
  /\ menu' = IF ~ allowed /\ showAdministration THEN WithoutRbac(menu) ELSE menu
  /\ UNCHANGED <<frontend, showAdministration, start, app, registry>>

Next ==
  \/ ConfigLoads
  \/ ConfigFails
  \/ \E ok \in BOOLEAN : ManifestsAnswer(ok)
  \/ \E modules \in SUBSET (requiredModules(plugins) \cap DOMAIN Exports) :
       ModulesSettle(modules)
  \/ TranslationsEnd
  \/ TranslationsNotJson
  \/ \E ok \in BOOLEAN : ChunkAnswer(ok)
  \/ \E allowed \in BOOLEAN : PermissionAnswer(allowed)

Spec == Init /\ [][Next]_vars

\* Every request of the start is answered, or ends in an error when the browser
\* gives up; the user and the permissions need not do anything.
Starting ==
  \/ ConfigLoads
  \/ ConfigFails
  \/ \E ok \in BOOLEAN : ManifestsAnswer(ok)
  \/ \E modules \in SUBSET (requiredModules(plugins) \cap DOMAIN Exports) :
       ModulesSettle(modules)
  \/ TranslationsEnd
  \/ TranslationsNotJson
  \/ \E ok \in BOOLEAN : ChunkAnswer(ok)

FairSpec == Spec /\ WF_vars(Starting)

-----------------------------------------------------------------------------
Loadable == requiredModules(plugins) \cap DOMAIN Exports

\* The plugins all of whose modules were there to be had.
Intact ==
  {scope \in {plugins[i].scope : i \in DOMAIN plugins} :
     \A m \in Loadable : m[1] = scope => m \in answered}

OfIntact(contributions) == {c \in contributions : c.scope \in Intact}

\* A plugin that cannot be loaded costs its own contributions only: those of the
\* others are served, in the same order, as on a page where everything loads, and
\* what is compiled in is replaced only by what was loaded.
IntactPluginsServed ==
  registry # None =>
    /\ OfIntact(registry.served) = OfIntact(RegistryOf(plugins, Loadable).served)
    /\ OfIntact(app.dynamic) = OfIntact(AppOf(plugins, Loadable).dynamic)
    /\ \A id \in StaticIds \ app.static :
         \E c \in app.dynamic : c.slot = id /\ <<c.scope, c.module>> \in loaded

\* The loader goes away, whatever of the configuration, the manifests and the
\* plugins fails, but for three causes: an import without a prototype, translation
\* overrides that are no JSON, and the lost chunk of the page itself.
LoaderHasACause ==
  <>(stage \in {"shown", "null prototype", "translations not JSON", "chunk lost"})

-----------------------------------------------------------------------------
(* What the entries of a frontend mean, read off the entries and not the tree. *)

OfName(items, n) == {items[i] : i \in {i \in DOMAIN items : items[i].name = n}}

\* Names with a title that no entry takes away or disables.
Titled(items) ==
  {n \in {items[i].name : i \in DOMAIN items} :
     /\ \E item \in OfName(items, n) : item.title \notin {Unset, ""}
     /\ \A item \in OfName(items, n) : item.title # "" /\ item.enabled # FALSE}

Parents(items, n) == {item.parent : item \in OfName(items, n)} \ {Unset}

\* The names that have a place in the sidebar: roots of a section that is shown,
\* and two levels of names that are under such names only.
Placed(items) ==
  LET titled == Titled(items)
      roots == {n \in titled :
                  /\ Parents(items, n) = {}
                  /\ n \in AdminNames => n \in DefaultNames /\ showAdministration}
      under(names) ==
        {n \in titled : Parents(items, n) # {} /\ Parents(items, n) \subseteq names}
  IN  roots \cup under(roots) \cup under(under(roots))

\* Every entry with a title that nothing disables is in the sidebar, when the names
\* above it are (buildTree, Root): refusing the RBAC entry hides none but it and what
\* is under it.
PlacedEntriesShown ==
  stage = "shown" =>
    LET items == extractMenuItems(plugins) IN
    \A n \in Placed(items) :
      n # RbacName /\ RbacName \notin Parents(items, n) =>
        n \in Shown(menu, showAdministration)

\* The RBAC entry of the first group of the administration section is hidden from
\* who may not create policies, and shown to who was never refused.
RbacEntryFollowsPermission ==
  LET items == extractMenuItems(plugins)
      tree == buildTree(items)
  IN
  /\ stage = "shown"
  /\ RbacName \in Placed(items)
  /\ AdminSection(tree) # {} /\ Parents(items, RbacName) = {FirstAdminGroup(tree)}
  => /\ permission = "denied" => RbacName \notin Shown(menu, showAdministration)
     /\ ~ refused => RbacName \in Shown(menu, showAdministration)
=============================================================================
