---------------------------- MODULE BackendStart ----------------------------
(***************************************************************************)
(* The start of the backend (packages/backend/src/index.ts): services and  *)
(* features are put together from what is compiled in, what the            *)
(* environment switches off and what the dynamic plugins bring; then the   *)
(* plugins initialize, in any order, among them those that tell others     *)
(* which dynamic plugins there are: the scalprum backend, the plugin info, *)
(* the plugin ids for RBAC and the filter of exposed modules.  One that    *)
(* fails takes the start down.                                             *)
(*                                                                         *)
(* A package has a folder, and a name [style, id, suffix], <style><id><suffix>. *)
(***************************************************************************)
EXTENDS Integers, Sequences

CONSTANTS
  Environments,    \* overrides, authModule, unknownProvider (auth.providers names one that
                   \* has no factory), federation and persistence
  Installations,   \* what dynamic-plugins-root holds, in the order of the scan
  Services,        \* DEFAULT_SERVICE_FACTORIES, by id
  Missing          \* no folder, no file, no metadata

VARIABLES
  environment,
  packages,
  phase,          \* "adding", "loading", "starting", "running", "failed"
  services,       \* who provides each service: "backstage", "portal", or a folder
  features,       \* the plugins to initialize; those of packages by their folder
  served,         \* GET /api/scalprum/plugins: the folder of each manifest name
  loadedPlugins,  \* GET /api/dynamic-plugins-info/loaded-plugins
  pluginIds,      \* what RBAC is told
  remotes,        \* the modules exposed of each web package
  resolved        \* where each plugin that wraps another package found that one

\* The plugins that are compiled in or switched on.
OwnFeatures ==
  {"healthcheck", "permission", "dynamic-plugins-info", "scalprum", "auth providers",
   "nfs-module-filter", "user-settings"}

\* The folders of dynamic-plugins-root differ; where a feature is named by its folder, it
\* is none of the portal's own.
ASSUME InstallationsAssumption ==
  \A ps \in Installations :
    /\ Len(ps) \in Nat /\ DOMAIN ps = 1 .. Len(ps)
    /\ \A i \in DOMAIN ps : ps[i].folder \notin OwnFeatures \cup {Missing}
    /\ \A i, j \in DOMAIN ps : ps[i].folder = ps[j].folder => i = j

told == <<served, loadedPlugins, pluginIds, remotes, resolved>>
backend == <<environment, packages, phase, services, features, told>>

Indices == DOMAIN packages
OnWeb(i) == packages[i].role = "frontend-plugin"
OnNode(i) == packages[i].role \in {"backend-plugin", "backend-plugin-module"}

BackendInit ==
  /\ environment \in Environments
  /\ packages \in Installations
  /\ phase = "adding"
  /\ services = [id \in Services |-> "backstage"]
  /\ features = {}
  /\ served = [name \in {} |-> 0]
  /\ loadedPlugins = {}
  /\ pluginIds = {}
  /\ remotes = [i \in {} |-> {}]
  /\ resolved = [i \in {} |-> 0]

-----------------------------------------------------------------------------
(* Putting it together. *)

getDefaultServiceFactories == Services \ environment.overrides

StaticFeatures ==
  {"healthcheck", "permission", "dynamic-plugins-info", "scalprum"}
    \cup (IF environment.authModule THEN {"auth providers"} ELSE {})
    \cup (IF environment.federation THEN {"nfs-module-filter"} ELSE {})

AddStatically ==
  /\ phase = "adding"
  /\ services' = [id \in Services |->
                    IF id \in getDefaultServiceFactories THEN "portal" ELSE services[id]]
  /\ features' = StaticFeatures
  /\ phase' = "loading"
  /\ UNCHANGED <<environment, packages, told>>

\* userSettingsBackend
userSettings ==
  IF environment.persistence \in {Missing, "database"} THEN {"user-settings"} ELSE {}
InvalidPersistence == environment.persistence \notin {Missing, "database", "browser"}

Providers(id) == {i \in Indices : OnNode(i) /\ id \in packages[i].provides}

\* The feature loaders run: a service that was added is left as it is, and two packages
\* that provide the same one are an error.
RunFeatureLoaders ==
  LET open == {id \in Services : services[id] = "backstage" /\ Providers(id) # {}}
      clash == \E id \in open : \E i, j \in Providers(id) : i # j
  IN
  /\ phase = "loading"
  /\ IF InvalidPersistence \/ clash
     THEN phase' = "failed" /\ UNCHANGED <<services, features>>
     ELSE /\ phase' = "starting"
          /\ services' = [id \in Services |->
                            IF id \in open THEN packages[CHOOSE i \in Providers(id) : TRUE].folder
                            ELSE services[id]]
          /\ features' = features \cup userSettings
               \cup {packages[i].folder : i \in {i \in Indices : OnNode(i)}}
  /\ UNCHANGED <<environment, packages, told>>

-----------------------------------------------------------------------------
(* The plugins. *)

First(indices) == CHOOSE i \in indices : \A j \in indices : i <= j

PackageOf(i) ==
  First({j \in Indices : packages[j].name = packages[i].name
                           /\ packages[j].version = packages[i].version})

\* What dist-scalprum/plugin-manifest.json says, if it is there.
Manifests == {packages[PackageOf(i)].manifest : i \in {i \in Indices : OnWeb(i)}} \ {Missing}

\* Broken: a file that is not there is read as well.
ScalprumFails_Unchecked ==
  \E i \in Indices : OnWeb(i) /\ packages[PackageOf(i)].manifest \in {"not JSON", Missing}

\* JSON.parse throws.
ScalprumFails == "not JSON" \in Manifests

\* createRouter of the scalprum backend: two packages with one manifest name share the
\* entry, and the files of the first come first.
ServeScalprum ==
  served' = [name \in Manifests |->
               packages[PackageOf(First({i \in Indices :
                 OnWeb(i) /\ packages[PackageOf(i)].manifest = name}))].folder]

\* createRouter of the plugin info: the installer of a backend plugin is left out.
TellPlugins ==
  loadedPlugins' =
    {[name |-> packages[i].name, installer |-> OnWeb(i)] :
      i \in {i \in Indices : OnWeb(i) \/ OnNode(i)}}

KnownStyles == {"@scope/plugin-", "@scope/backstage-plugin-", "scope-plugin-"}
IdOf(name) ==
  [style |-> IF name.style \in KnownStyles THEN "" ELSE name.style, id |-> name.id,
   suffix |-> IF name.suffix = "-backend-dynamic" THEN "" ELSE name.suffix]
Plain(id) == [style |-> "", id |-> id, suffix |-> ""]

\* pluginIDProviderService, through rbacDynamicPluginsProvider
TellRbac ==
  pluginIds' = {Plain(id) : id \in {"catalog", "scaffolder", "permission"}}
    \cup {IdOf(packages[i].name) :
            i \in {i \in Indices : packages[i].role = "backend-plugin"}}

NfsFeatures == {"@backstage/FrontendPlugin", "@backstage/FrontendModule"}

\* overrideExposedModules: a package without features keeps all that it exposes.
kept(i) ==
  LET features_ == packages[i].features IN
  IF features_ = Missing \/ DOMAIN features_ = {} THEN packages[i].exposed
  ELSE {mod \in packages[i].exposed :
          mod \in DOMAIN features_ /\ features_[mod] \in NfsFeatures}

FilterModules == remotes' = [i \in {i \in Indices : OnWeb(i)} |-> kept(i)]

\* Broken: the first package that depends on it has to have it.
customResolveDynamicPackage_NoCatch(name) ==
  LET asked == {i \in Indices : name \in DOMAIN packages[i].dependencies} IN
  IF asked = {} THEN Missing
  ELSE IF packages[First(asked)].dependencies[name]
       THEN packages[First(asked)].folder ELSE Missing

\* The first package with the dependency in whose node_modules it is.
customResolveDynamicPackage(name) ==
  LET having == {i \in Indices : /\ name \in DOMAIN packages[i].dependencies
                                 /\ packages[i].dependencies[name]}
  IN  IF having = {} THEN Missing ELSE packages[First(having)].folder

Initialized(feature) ==
  /\ features' = features \ {feature}
  /\ phase' = IF features' = {} THEN "running" ELSE phase
  /\ UNCHANGED <<environment, packages, services>>

Failed == phase' = "failed" /\ UNCHANGED <<environment, packages, services, features, told>>

Initialize(feature) ==
  /\ phase = "starting"
  /\ feature \in features
  /\ \/ /\ feature = "scalprum" /\ ~ ScalprumFails
        /\ ServeScalprum /\ UNCHANGED <<loadedPlugins, pluginIds, remotes, resolved>>
        /\ Initialized(feature)
     \/ feature = "scalprum" /\ ScalprumFails /\ Failed
     \/ /\ feature = "dynamic-plugins-info"
        /\ TellPlugins /\ UNCHANGED <<served, pluginIds, remotes, resolved>>
        /\ Initialized(feature)
     \/ /\ feature = "permission"
        /\ TellRbac /\ UNCHANGED <<served, loadedPlugins, remotes, resolved>>
        /\ Initialized(feature)
     \/ /\ feature = "nfs-module-filter"
        /\ FilterModules /\ UNCHANGED <<served, loadedPlugins, pluginIds, resolved>>
        /\ Initialized(feature)
     \/ /\ feature \in {"healthcheck", "user-settings"}
        /\ UNCHANGED told /\ Initialized(feature)
     \/ /\ feature = "auth providers" /\ ~ environment.unknownProvider
        /\ UNCHANGED told /\ Initialized(feature)
     \/ feature = "auth providers" /\ environment.unknownProvider /\ Failed

\* A plugin of a package asks for the files of the package it wraps, if it wraps one.
InitializeDynamic(i) ==
  LET wrapped == packages[i].wraps
      folder == packages[i].folder
  IN
  /\ phase = "starting"
  /\ folder \in features
  /\ \/ /\ wrapped = Missing
        /\ UNCHANGED told /\ Initialized(folder)
     \/ /\ wrapped # Missing /\ customResolveDynamicPackage(wrapped) # Missing
        /\ resolved' = [j \in DOMAIN resolved \cup {i} |->
                          IF j = i THEN customResolveDynamicPackage(wrapped) ELSE resolved[j]]
        /\ UNCHANGED <<served, loadedPlugins, pluginIds, remotes>>
        /\ Initialized(folder)
     \/ wrapped # Missing /\ customResolveDynamicPackage(wrapped) = Missing /\ Failed

BackendNext ==
  \/ AddStatically
  \/ RunFeatureLoaders
  \/ \E feature \in StaticFeatures \cup userSettings : Initialize(feature)
  \/ \E i \in Indices : InitializeDynamic(i)

BackendSpec == BackendInit /\ [][BackendNext]_backend

-----------------------------------------------------------------------------
\* What may keep the backend from starting, read off the installation.
HasCause ==
  \/ environment.persistence \notin {Missing, "database", "browser"}
  \/ environment.authModule /\ environment.unknownProvider
  \/ \E i, j \in Indices :
       /\ OnWeb(i)
       /\ packages[i].name = packages[j].name /\ packages[i].version = packages[j].version
       /\ packages[j].manifest = "not JSON"
  \/ \E id \in environment.overrides, i, j \in Indices :
       i # j /\ i \in Providers(id) /\ j \in Providers(id)
  \/ \E i \in Indices :
       /\ OnNode(i) /\ packages[i].wraps # Missing
       /\ \A j \in Indices :
            packages[i].wraps \in DOMAIN packages[j].dependencies =>
              ~ packages[j].dependencies[packages[i].wraps]

\* A service is a package's where the environment allows it and a package has it.
ServicesAsAllowed ==
  \A id \in Services :
    IF id \notin environment.overrides THEN services[id] = "portal"
    ELSE IF Providers(id) = {} THEN services[id] = "backstage"
    ELSE \E i \in Providers(id) : services[id] = packages[i].folder

\* Two packages of one name and version are one: the second one's files are not read.
FirstOfItsName(i) ==
  \A j \in 1..(i - 1) : packages[j].name = packages[i].name =>
                    packages[j].version # packages[i].version

WebPluginsServed ==
  \A i \in Indices :
    OnWeb(i) /\ FirstOfItsName(i) /\ packages[i].manifest # Missing =>
      /\ packages[i].manifest \in DOMAIN served
      /\ \E j \in Indices : /\ packages[j].manifest = packages[i].manifest
                            /\ served[packages[i].manifest] = packages[j].folder

BackendPluginsKnown ==
  \A i \in Indices :
    /\ packages[i].role = "backend-plugin"
    /\ packages[i].name.style \in KnownStyles
    /\ packages[i].name.suffix = "-backend-dynamic"
    => Plain(packages[i].name.id) \in pluginIds

\* A wrapper whose wrapped package no other one depends on finds its own copy.
WrappersFindTheirs ==
  \A i \in DOMAIN resolved :
    (\A j \in Indices \ {i} : packages[i].wraps \notin DOMAIN packages[j].dependencies)
      => resolved[i] = packages[i].folder

\* Of the modules whose kind a package tells, those of the new frontend system are exposed.
EntryPointsExposed ==
  environment.federation =>
    \A i \in Indices : OnWeb(i) /\ packages[i].features # Missing =>
      \A mod \in packages[i].exposed \cap DOMAIN packages[i].features :
        mod \in remotes[i] <=> packages[i].features[mod] \in NfsFeatures

\* The backend starts but for five causes: a wrong persistence of the user settings, an
\* unknown auth provider, a manifest that is no JSON (createRouter of scalprum), an
\* overridden service that two packages bring, and a wrapped package that is nowhere.  Once it runs, it serves
\* every web plugin, RBAC knows every backend plugin, and a core service is replaced
\* exactly where the environment allows it.
BackendServesWhatIsInstalled ==
  /\ phase = "failed" => HasCause
  /\ phase = "running" =>
       /\ ServicesAsAllowed
       /\ WebPluginsServed
       /\ BackendPluginsKnown
       /\ WrappersFindTheirs
       /\ EntryPointsExposed
=============================================================================
