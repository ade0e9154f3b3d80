# Verification of VeeCode DevPortal core

TLA+ models of the parts of VeeCode DevPortal core whose behaviour is hard to test,
TLC configurations that check them on small instances, and proofs, checked by TLAPS,
of what matters most for every instance. Paths below are relative to `src/`.
`PROJECT.json` has, for each definition, the lines of the code it models, and the full
lists of components, hazards, runs, mutants, findings and theorems.

## 1. Inventory

DevPortal core is a Backstage distribution. A pod first runs three programs, chained
with `&&`: the **pre-step** rebuilds the user's plugin selection from Postgres, the
**merge** puts it behind the operator's own list, and the installer (not in this
repository) installs the result. Then the **backend** starts; it authenticates users and
serves the plugins to the **frontend**, which loads them at run time and assembles the
page from what they contribute. The repository also holds the programs that keep it
going: a tool that edits the lockfile, and end-to-end tests whose harness deploys the
portal to a cluster, changes its configuration and restarts it.

| Component | State it keeps | Operations | Correct when |
|---|---|---|---|
| Extensions pre-step, `veecode/regenerate-extensions-install.js` | rows read from `marketplace_installations`, digests found, rows left out; writes the table's `resolved_digest` and the pod's `extensions-install.yaml` | read, factory filter, one row per plugin, pin each row through the registry, UPDATE, atomic write | no bare tag of an enabled OCI plugin reaches the installer; no plugin twice; a digest, once stored, stays; failures cost only what they must; the boot ends |
| Level-1 merge, `veecode/merge-dynamic-plugins.js` | reads the operator's document and the file above, writes `dynamic-plugins.yaml` | validate, merge, write, check the installer's path | the installer reads this boot's merge; the operator wins every collision; nothing else is dropped |
| Installer, Marketplace backend | the table, the write-through file | install, disable, enable, uninstall, migrate | outside the repository: modelled as an environment from how the scripts use it |
| Sign-in: page, providers, resolvers, `packages/backend/src/modules/authProvidersModule.ts`, `resolverUtils.ts`, `rhdhSignInResolvers.ts`, `packages/app/src/components/SignInPage` | none beyond the request | choose the providers, try sign-in resolvers in order, check the `sub` claim | the token is for the user the identity provider vouched for |
| Ownership resolver, `packages/backend/src/transitiveGroupOwnershipResolver.ts` | groups visited, the recursion, one catalog request at a time | resolve the ownership references of a user | every ancestor group is in the token, none that is not one, and the walk ends |
| Dynamic frontend, `packages/app/src/components/DynamicRoot`, `utils/dynamicUI` | configuration, loaded modules, the app, the registry of contributions | read the configuration, fetch manifests, load modules, fetch translations, create the app | a plugin that fails costs only itself; the page comes up |
| Sidebar, `extractDynamicConfigFrontend.ts`, `components/Root/Root.tsx` | the menu tree of the registry, the RBAC permission | merge entries by name, build the tree, hide the RBAC entry | an entry that has a place is shown; the RBAC entry follows the permission |
| Language preference, `packages/app/src/hooks/useLanguagePreference.ts` | the language of the page, of the store, and the flag between them | two effects, late answers of the store | a pick is stored, what is stored is shown, the effects settle |
| Application drawers, `components/Root/ApplicationDrawer.tsx`, `ResizableDrawer.tsx` | reports of the drawers, the active one, its width | report, activate, close the others, drag | one drawer at a time, the open one displayed |
| Lockfile surgeon, `scripts/yarn-lockfile-surgeon` | the parsed `yarn.lock`, entries to add, the queue of the walk | replace, walk dependencies, write | every dependency of a new entry is locked, the rest of the file is untouched |
| Backend start, `packages/backend/src/index.ts`, `defaultServiceFactories.ts`, `modules`, `plugins/scalprum-backend`, `plugins/dynamic-plugins-info-backend` | services, features, and what four of the plugins tell others about the dynamic packages | add services and features, load the packages, initialize the plugins in any order | it starts but for known causes; every installed web plugin is served with its own files, RBAC knows every backend plugin, a core service is replaced only where allowed |
| Licensed users backend, `plugins/licensed-users-info-backend` | none; reads the users of the auth backend and the catalog | one request: read the rows, ask the catalog, join | who signed in, at the right time, with the right profile |
| Entity page, `packages/app/src/components/catalog/EntityPage` | the registry, read only | merge tabs by path, ask the conditions of tabs and cards | every card is seen by those it is meant for, and no tab is empty |
| Translations, `packages/app/src/utils/translations` | resources of plugins, of the app, overrides of the backend | merge language by language, key by key | overrides win, what they leave out stays |
| Learning paths, `components/learningPaths`, `hooks/useLearningPathData.ts` | the state of one hook | request, fallback, show | a visit comes to an answer |
| Deployment harness, `e2e-tests/playwright/utils/kube-client`, `runtime-*.ts`, `port-forward.ts`, `postgres-config.ts`, `e2e/plugin-division-mode-schema` | the worker's memory, the running restart, the port-forward; config maps, secrets and the deployment in the cluster | deploy, write, restart by scaling to zero and back, forward a port, set up a schema user | after a restart all pods run what was written; the tests end |
| Auth provider harness, `support/fixtures/auth-provider-harness.ts`, `utils/authentication-providers` | the configuration in memory, the files and the process of a local server, or a namespace of a cluster | prepare a provider, change the configuration, restart, log in, clean up | a suite comes to its logins, and each meets an instance that has read the present configuration |
| Everything else: search, themes, error pages, packages of types, next frontend, build and CI scripts, browser tests, docs | none worth a model | | reasons in `PROJECT.json` |

How they interact: the pre-step and the running Marketplace share a table, and several
pods share it too; pre-step, merge and installer hand each other files on a volume that
may outlive the pod; the resolvers wait for a catalog that other processes change; the
frontend waits for five kinds of requests in turn; the hooks talk to servers, plugins and
React through callbacks and effects that run later than what triggered them; the test
harness talks to a cluster whose status lags behind its pods, to an operator that puts back
its deployment when it sees fit, and to child processes that outlive their signals.

What is hard about this code, and so what the properties are aimed at:

* overlap: two pods on one table, a Marketplace that writes while a boot waits up to 20
  seconds for the registry, a catalog edited between two requests of a walk, answers of
  a store that arrive after the user has moved on, effects that see the state of an
  earlier render;
* stale answers: a status behind the pods it counts, pods of the old template that still
  serve, a killed server that still answers, rows and catalog read one after the other while both change;
* failures in the middle: kills between the UPDATE and the rename, a write cut short,
  one plugin, one row or one request of many failing;
* relations that are not what they look like: `samePlugin` is not transitive, a tarball's
  collision key is coarser than its URL, a translation resource goes by the id of its ref,
  a card's condition is asked with and without the APIs it needs;
* endings: cyclic group hierarchies and dependency graphs, effects that feed each other,
  a loader that must go away, polls of a cluster that never gets there.

## 2. Modules

| Module | Models | Built on |
|---|---|---|
| `PluginIdentity` | references, `samePlugin`, the installer's key | |
| `RowSelection` | which rows a boot acts on (factory filter, `keepOneRowPerPlugin`) | `PluginIdentity` |
| `InstallationTable` | the table and the Marketplace that writes it (environment) | `RowSelection` |
| `SelectionProperties` | what the selection promises for every reachable table | `InstallationTable` |
| `ExtensionsPrestep` | `main()` of the pre-step for a set of pods, registry, kills | `InstallationTable` |
| `PinStore` | abstract specification: a selection is pinned once in its life | |
| `MergeDynamicPlugins` | the boot chain around `main()` of the merge | `PluginIdentity` |
| `GroupOwnership` | `resolveOwnershipEntityRefs` and its recursion | |
| `SignIn` | the sign-in page, the providers the backend registers, the sign-in resolvers, one sign-in from choosing a provider to the token | `GroupOwnership` |
| `LanguagePreference` | the hook, React's commits, the store | |
| `ApplicationDrawer` | both drawer components, React's order of effects | |
| `LockfileSurgeon` | `bumpLockfile` | |
| `MenuItems` | `extractMenuItems`, `buildTree`, the sections of Root | |
| `DynamicRoot` | the start of the frontend, the sidebar as the permission changes | `MenuItems` |
| `EntityPage` | which tabs and cards an entity has | `DynamicRoot` |
| `Translations` | what plugins and app say, merged with the overrides | `DynamicRoot` |
| `LearningPaths` | a visit of the page of the learning paths | |
| `BackendStart` | the start of the backend with its dynamic packages: services, features, scalprum, plugin info, RBAC ids, module filter | |
| `LicensedUsers` | the report of the licensed users beside sign-ins and edits | |
| `Cluster` | a deployment, its pods and its status (environment) | |
| `DeploymentRestart` | the restart by scaling, its polls and the failures of pods | `Cluster` |
| `PortForward` | the child process of a port-forward and the database connections through it | |
| `RuntimeHarness` | the three runtime test files against one deployment, which the operator puts back at any time | `DeploymentRestart`, `PortForward` |
| `AuthHarness` | one suite of an auth provider, local, or remote up to where it fails | `Cluster` |
| `MC_*` | the values TLC gives the constants | one or several of the above |
| `*Proofs` | theorems about one or several of the above | and `TLAPS` |

Names of variables, operators and actions are those of the code where it has one. An
action is one stretch of code between two points at which something else can happen: an
`await`, a callback, a React commit, a kill. A definition called `Name_Something` and
marked "Broken" is a plausible bug in `Name`; nothing uses it but the mutants listed in
`PROJECT.json`, which show that each property can fail.

### How the state corresponds to the code

* **Pre-step.** `pc[p]` is where pod `p` stands in `main()`: `read` (before the SELECT),
  `pin` (in the loop), `persist` (an UPDATE is out), `exited`. `rows`, `effectiveRefs` and
  `skipped` are its variables of those names, `todo` is the rest of the loop. `file[p]` is
  the published YAML; `writeAtomic` renames, so it changes in one step or not at all. A
  row keeps what the boot reads of it; `updated_at` is a counter in which two writes may
  tie. NULL, corrupt YAML and a mapping without either key are one value of `config`,
  because the code makes the same entry of them.
* **References** are the records the scripts take strings apart into. A tarball is the
  prefix its URL has before the last `@` and the rest, as `normalizePluginKey` cuts it.
* **Merge.** `stage` chains the three programs. `writeFileSync` truncates first, so `Merge`
  leaves `Partial` behind until `FinishWrite`. `dbPath` says whether the variable is unset,
  leads where the baked symlink leads, or elsewhere.
* **Ownership.** The recursion is a sequence of frames; each keeps the references it has
  still to visit and its own result, all share `processedGroups`. The references of a
  frame are visited in any order. `outcome` is `idle` until `Begin`, the call of the
  resolver with the `memberOf` of a user. `ever` and `always` are history: the parents a
  group had at some time, and throughout, since the walk began.
* **Sign-in.** `stage` is where the attempt stands: `starting` (the backend), `page`,
  `resolver`, `lookup` (a query to the catalog is out), `walk` (that of
  `GroupOwnership`), then `signedIn`, `refused`, `guest` or `down`. A sign-in resolver is
  the claims it reads, the key of the users it looks them up under, whether the ID token
  must repeat the claim, and whether it may sign in who is not in the catalog; `resolver`
  is its position in the list. A missing ID token is one without claims. Whether a
  list from the configuration goes on after a failure is up to the auth plugin, so both
  are allowed. `seen` is history, the users the catalog
  held since the attempt began. A behaviour is one attempt; refreshing a session is not
  modelled.
* **Language.** `current` is the language API's, `rendered` that of the last commit, `seen`
  the one the effects last ran with. A call is sent, served and answered in three steps,
  or lost; calls are a bag, so that they overtake each other.
* **Drawers.** `due` are the exposers whose effect has not run; `activeDrawerId` and
  `rendered` are of the last render, `setActive` includes queued updates.
* **Surgeon.** A range is the set of versions that satisfy it, an entry's key its name with
  its `npm:` ranges. `newEntries` doubles as the queue, `next` is its head.
* **Frontend.** `stage` is what the start waits for. A contribution is a kind, the import
  of a module, and the slot (path, id) it competes for; kinds treated alike are one.
  `Root` changes the menu of the registry while it renders, so `menu` is state.
  Contributions, menu entries and resources are sets; where their order decides, each has
  its place in the array (`at`, `place`).
* **Entity page, translations.** Both are functions of what `DynamicRoot` has loaded. A
  condition answers yes, no or throws; `context` says whether the APIs are at hand, which
  they are for cards and not for tabs. The language, the entity and the overrides are
  quantified inside the invariants; the empty answer of the backend is among the overrides.
* **Learning paths.** `visit` is the state of the hook and the request it waits for.
* **Backend start.** `phase` is how far `index.ts` and the Backstage loader are. `served`,
  `loadedPlugins`, `pluginIds` and `remotes` are what the routers of scalprum and plugin
  info, the plugin id provider and the module filter answer later. A package name is its
  style, id and suffix, as the regular expressions of the RBAC module cut it.
* **Licensed users.** Times are slots of five minutes. `request` is the request under way:
  after `ReadRows` it holds rows that users may no longer have. `signedIn` is history.
* **Cluster.** `deployment` is its spec, `status` what the controller last wrote, `pods`
  those there are; a pod keeps what it read of `store` when it was made. The generation has
  no number: what matters of it is that there is none without a deployment
  (`GenerationRead`). `PodOf` and `ClusterOf` are what a cluster may
  hold, of whatever kind of templates and contents: the runtime files and the auth suites
  begin on any such cluster (`RuntimeInit`, `AuthInit`), and so do their theorems; the run
  begins on four of them.
* **Restart, port-forward, test files.** `restart.at` and `run.step` stand between two
  awaits. `session.child` is the process the session knows, `session.stopped` the one it
  has sent a signal to. `worker` is lost when a test fails, for the next file runs in a new
  process; what the old one left in the cluster stays.
* **Auth suites.** `memory` is the configuration in memory, counted per part (app config,
  plugins) by its changes; `store` the config maps of the new namespace, `instance` the
  files, the process and the answers of the local server. `suite.at` follows
  `prepareProvider`, which all five suites of `e2e/auth-providers` call: `load`,
  `provision`, `secrets`, `enable`, then `updateAllConfigs` (`update`, `app`, `plugins`),
  then `deploy` and `synced`. From `updateAllConfigs` on the steps are those of a local
  suite, because a remote one does not get past it (finding 4). `suite.failed` says that a
  call failed which need not have.

## 3. Runs

Distinct states are those of the whole state space; every run is exhaustive.

| Run | What varies | States | Shows |
|---|---|---|---|
| `lists` | the table: 8 packages of 3 repositories (one with two selectors and a selector-less reference, one with a factory plugin beside another, one protected), 4 writes of the Marketplace, ties in time, both migrations; the merge: 9 operator documents and 16 Marketplace files over OCI references with and without a selector, npm and local packages and entries without a reference (no tarball), deploys, kills, failed writes, the running backend's mirror | 252,680 | one row per plugin, no enabled plugin lost, the index decides about factory plugins, uninstalling is local; the installer reads this boot's merge, the operator wins, nothing else is dropped; that the set-based selection is the fold of the code is an assumption TLC evaluates over all sets of up to three rows |
| `prestep` | one pod, two versions of an OCI plugin and a local one, 2 writes, tags moving between two digests, every call failing, kills, volumes kept or lost | 148,401 | pinned entries, restarts install the same bytes, an outage costs only rows never pinned, boots end, and the refinement of `PinStore` |
| `prestep_two_pods` | two pods, one package | violated | see finding 1 |
| `sign_in` | 5 deployments (default and configured resolvers, several providers, guests, one without a factory), 3 sets of users with shared keys or missing, 3 identities, 3 group hierarchies (a diamond, a cycle beside a self-parent, a chain with a missing group), one edit of the users and one of the groups at any time, any request failing; before that, 5 environments and up to 2 dynamic packages; beside it, the licensed users with 3 lifetimes of tokens, 2 ticks and namesakes in two namespaces | 379,761 | the backend starts but for five causes and serves what is installed; the report is true; the token is for a user the claims vouch for, the first resolver that admits decides, no ancestor missing, none invented, the sign-in ends |
| `root_hooks` | the language: 3 locales and a stored one no longer offered, 2 picks, 1 write of another session, lost and reordered calls; the drawers: 3, open or not as the page loads, 3 widths around the minimum, 4 events | 97,400 | picks are sent, the page settles on what is stored, an untouched page keeps it, effects settle; one drawer open, the open one displayed, React comes to rest |
| `language_dropped_locale` | the same with 1 pick | violated | finding 2 |
| `drawers_switch` | the same with 2 events | violated | finding 3 |
| `surgeon` | 3 packages, versions 1 to 3, 144 dependency maps, cycles among them, 16 lockfiles, 4 command lines, a registry that rejects any call | 197,324 | dependencies locked, the rest kept, the walk ends |
| `dynamic_root` | 4 plugins, 3 compiled-in menus, 6 documentation plugins, 2 RBAC plugins; configuration, manifests, modules, translations and the chunk failing; an entry under that of RBAC; the permission answered anew; 10 entities, 7 cards on 5 tabs, conditions that throw; 4 answers of overrides, 2 languages; visits of the learning paths | 6,674 | a lost plugin costs only itself, entries with a place are shown, the RBAC entry follows the permission, cards and tabs fit the entity, overrides win, loader and visits come to an end |
| `learning_paths_fallback` | one visit after another on the page of one frontend | violated | finding 5 |
| `deployment_harness` | 3 jobs of the runtime files (operator on an empty cluster, an external database on a serving deployment, Helm on what an earlier run left) and a suite of an auth provider, local or remote, on an empty cluster or after another suite, with 2 changes of the configuration; 2 pods in 3 states, every call failing, an operator that puts the deployment back | 317,527 | a login meets a server that has read the present configuration, a restart leaves only pods that run what was written, the schema tests meet the schema user, one forward at a time, tests end |
| `remote_auth_suites` | the suites alone | violated | finding 4 |

**Why the bounds are enough.** Four writes are what the selection needs for its worst
table: two selectors, a selector-less row and a disable. The pre-step begins on an empty
table, so its two writes are two installs, an install and an upgrade or a disable, or an
install and an uninstall, under the loop or between two boots; a row that is uninstalled
and installed again under one loop takes three and is covered by the theorems only. Two
digests are what a moved tag needs. One edit of the groups
can split a walk into before and after, one of the users the resolvers into those that
saw the old catalog and those that see the new one; two users are what two resolvers
need to disagree. Two picks are needed for
a flag that outlives its update; three drawers for one that is neither opening nor
closing; three versions for a range across a major and one that excludes the lowest. Two
pods are an ending one beside a new one, two tries of each call one that fails and one
that is the last, two changes of an auth suite a restart beside what the server of the one
before still answers; two packages are a copy that is found first and one that is meant. Two hooks of the page's root, and
the table and the merge, share a run but no step: each is looked at while the other rests
(`MC_Root`, `MC_Lists`). The theorems of section 5 hold without any of these bounds.

**Deadlock** is checked except where the system stops by itself: a table whose writes are
used up (`MC_Lists` stutters there), an ended sign-in, a settled page, a written file, a shown page
whose events are used up, a finished test run.

## 4. Fairness and liveness

Liveness is claimed of the system's own steps only; users, the registry, the Marketplace,
the catalog and other sessions never have to do anything.

* `BootEnds`: weak fairness of each pod's `PrestepStep`. Every call that `main()` awaits is
  bounded (`CONNECT_TIMEOUT_MS`, `STATEMENT_TIMEOUT_MS`, `SKOPEO_TIMEOUT_MS`).
* `SignInEnds`: weak fairness of `AttemptStep`; the auth service and the catalog client
  settle each request. Nobody has to start a backend, choose a provider or edit the
  catalog. Ending is not trivial: the hierarchy may be cyclic, and a failure is followed
  by the next resolver.
* `SyncSettles`: weak fairness of `HookStep`; the browser ends every call, React renders
  what was set and runs its effects.
* `DrawersSettle`: weak fairness of `ReactStep`, for the same reason.
* `Ends`: weak fairness of the surgeon's `Next`; a registry call is answered or rejects.
* `PagesSettle` (`LoaderHasACause` of `DynamicRoot` and `VisitSettles` of `LearningPaths`):
  weak fairness of `Starting` and `Answered` together; each request is answered or given
  up by the browser. The start is over when the first visit begins, so that the one
  fairness serves both. Users need not stay on the page.
* `TestsEnd`: weak fairness of `RunnerSteps`, the test runner goes on, and of `CallFails`,
  the deadline of a wait of an auth suite passes. Pods, the operator, the server under test and the child
  processes may do nothing for ever. A child whose spawn failed never exits, and the stop
  that waits for it is ended by the timeout of its test (`TestTimesOut`).
* `SuiteReachesLogin`, of the run `remote_auth_suites`: the same fairness. It holds of
  local suites; what refutes it is a remote suite that fails without a call that fails.

## 5. Proofs

Eight proof modules, about 8,500 obligations. Each invariance proof has the same shape: an
inductive invariant, one lemma per action or per conjunct an action can disturb, and a
temporal step at the end. Constants are constrained only by the named assumptions of the
modules, which TLC evaluates in the runs.

| Module | Theorems | Argument |
|---|---|---|
| `ExtensionsProofs`, the selection | `KeptRowsAreDistinctPlugins`, `SelectedOneRowPerPlugin`, `IndexDecidesFactoryPlugins`, `EnabledPluginsAreKept`, `UninstallHandsOver` | Two kept rows of a repository with several selectors carry different ones; with one selector at most, all its rows are rivals and `IsPreferred` admits one of them, because ranks differ. Uses that a row stands under its own key. For the others: an enabled row beats a disabled one; among rivals with bounded times and places one is preferred, because Nat is well-founded; and to remove a row changes who is pushed back among the rows of its own factory plugin only. |
| `ExtensionsProofs`, the pre-step | `PrestepTypeCorrect`, `EnabledEntriesArePinned`, `FileHasOneEntryPerPlugin`, `SinglePodKeepsDigests`, `SinglePodRestartsSameBytes`, `SinglePodImplementsPinStore`, `OutagesCostOnlyUnpinned` | `EnabledEntriesPinned` is not inductive: what is written depends on the loop. `PrestepInv` adds that pinned references name their key's plugin by digest, that the rows in hand are one per key and per OCI plugin, and that a row the loop has passed is pinned, skipped, disabled or not OCI. `DigestInv` adds, for one pod, that the table holds for a row still to do what was read, for a row passed the digest in memory, and for one whose UPDATE is out nothing - or the backend has replaced the row. `SinglePodImplementsPinStore` maps every step to a step of `PinStore` or a stutter. For `OutagesCostOnlyUnpinned`: only rows without a digest are ever skipped. |
| `BackendProofs`, the merge | `MergeTypeCorrect`, `InstallerReadsThisMerge`, `OperatorAlwaysWins`, `DropsOnlySamePluginWithoutTarballs` | `MergeInv` adds that the document follows from the operator's present one and the entries read, and that past the check of the path the installer's file is this document. A lemma shows that `samePlugin` is at least as wide as the installer's key, whatever plugin path an image holds; the converse holds outside tarballs. |
| `BackendProofs`, the start | `BackendTypeCorrect`, `RunningBackendServes` | `BackendInv` adds that, until the packages' turn, a service is the portal's unless the environment overrides it (so that two packages that claim one are a cause of failure), and that a plugin that is no longer to be initialized has told what it has to tell: the plugins come in any order, so what the property says of all of them holds of each as it goes. The first package of a name is found because a set of indices has a least element. |
| `BackendProofs`, the report | `LicensedTypeCorrect`, `ReportNamesWhoSignedIn` | `LicensedInv` adds that a row of the table is the time of a sign-in and the lifetime of then, that a request keeps the rows and the sign-ins it was read with together however those change meanwhile, and that the profile of an answered row is one of the entities of its name. |
| `SignInProofs`, the walk | `OwnershipTypeCorrect`, `NoAncestorMissing`, `NoAncestorInvented` | `OwnershipInv` adds that the groups found in all frames are those visited, that the lasting parents of every visited group but the awaited one are visited or pending in some frame, and that every closed set holds all visited and pending groups. When the outermost frame returns nothing is pending. |
| `SignInProofs`, the sign-in | `SignInImplementsWalk`, `SignInTypeCorrect`, `SignInNoAncestorMissing`, `SignInNoAncestorInvented`, `TokensAreOfVerifiedUsers`, `FirstAdmittingResolverDecides` | Every step of a sign-in is a step of `GroupOwnership` or leaves its variables alone, so that its theorems carry over. `AttemptInv` adds that the resolver at a lookup has accepted its claim and that the user of the walk is the one match in a directory seen, or the fallback for none. `OrderInv` adds that, while nothing was edited or failed, no resolver before the present one admits. |
| `LanguageProofs` | `LanguageTypeCorrect`, `StoredPreferenceIsKept`, `PicksAreSent`, `PageAgreesWithStore` | `Untouched` (nobody picks): the stored language is on its way to the screen or there, and nothing is on its way to the store. `PatientInv` (the user waits): one get alone before anything changes, then only sets of the language shown; the flag is set only for a language just taken; why the store will hold the language shown. |
| `LockfileProofs` | `SurgeonTypeCorrect`, `UnrelatedEntriesKept`, `EveryDependencyLocked` | `EditingInv`: the lockfile in memory is the one read without the packages replaced; every new entry was asked for by a range that no kept and no earlier entry satisfies, so that no two share a key; every dependency behind the walk is met, but for the pending ones; versions counted as resolved are there. |
| `DrawerProofs` | `DrawerTypeCorrect`, `OneDrawerStaysOpen`, `OpenDrawerStaysShown` | Neither property is inductive while effects are due. `ReportsAgree`: an exposer with nothing to report has said what its plugin says, and the drawer to activate has reported itself open. `WidthEffectIsQuiet`: while the width effect is due, no report changes anything. `OthersWillClose`: of two open drawers one has still to be reported, or the next render closes the others. `NoneHidden`, before the first switch: when no drawer is to be activated, every open one is about to be reported. |
| `FrontendProofs`, the start and the sidebar | `FrontendInvariant`, `IntactPluginsAreServed`, `PlacedEntriesAreShown`, `RbacFollowsPermission` | `FrontendInv`: once the page is made, the app and the registry are what `AppOf` and `RegistryOf` make of the plugins and the modules that were loaded, and the menu is the tree of the plugins, or that tree without the RBAC entry once the permission was refused, because to remove it a second time removes nothing. What an intact plugin contributes is then found, module by module. For the sidebar: the merged entry of a name has the last value any entry of the name gives a key, so that an enabled entry with a title stays listed; it is a root or hangs under the name above it, and so do two levels of names. There is a first admin group because entries with places of their own, taken up to any place, have a first (by the least place up to which they would have none). |
| `FrontendProofs`, the entity page | `EntityPagesFit` | A condition asked without the APIs answers what it answers with them, or throws; so what shows a tab is on it, and a card whose condition does not throw is shown by its own answer alone. One lemma for each of the three tests. |
| `FrontendProofs`, the translations | `OverridesAlwaysWin` | Place by place, the resources of an overridable id are those of a start without overrides with the overrides put before their messages (`Overridden`); the places tell resources apart, and the first resource of a language keeps its place, so that both starts ask the same one, or the first of the id when the override added the language. |
| `HarnessProofs`, the runtime files | `RuntimeInvariant`, `RestartRunsWhatWasWritten`, `SchemaTestsSeeTheSchemaUser`, `OneForwardAtATime` | What a restart leaves running was made after the deployment was at zero: `RestartInv` says that the spec asks for no replica until no active pod is left, and that from then on every active pod has the present template and has read what is stored, because nothing writes either before the restart is over. `SchemaInv` follows the setup of the schema file write by write, with what the external file must not have left behind. `ForwardInv` says that a session which has sent its child a signal has forgotten it and does nothing but wait for it, and which steps of a file forward and connect at all. All four are one invariant, since each file relies on what the others leave. |
| `HarnessProofs`, the auth suites | `AuthInvariant`, `LoginMeetsTheConfiguration`, `RemoteSuitesStopAtTheGeneration` | `LocalInv`: once both files are written they hold the configuration in memory, a server is started only where no other one answers, and it answers with the files it has read. `RemoteInv`: from its new namespace to the reading of the generation a remote suite has no deployment, since no step and no controller makes one. |

Conditions the theorems carry: the three `SinglePod` theorems assume one pod, and finding
1 shows that two pods break them; `DropsOnlySamePluginWithoutTarballs` assumes that no
reference is a tarball, because the collision key of a scoped tarball URL is its host;
`EnabledPluginsAreKept` assumes that the keys of the table have a last one in their order;
`PicksAreSent` and `PageAgreesWithStore` (like the properties they prove) speak of users who wait for the page to settle
before they pick again and of stored languages that are still locales; the two theorems
about open drawers assume `Calm`, that a user event waits until React is through with the
last one, for two events before the first is reported can leave two drawers open.

`ReportNamesWhoSignedIn` is about catalogs that are lists; `RunningBackendServes` assumes
that the packages lie in folders that differ and are not named like a plugin of the
portal, as they do in one directory; `SchemaTestsSeeTheSchemaUser` (like its property)
speaks of jobs without an external database, which begin on a deployment whose variables
are not bound to the secret of one. The theorems about the
frontend assume of its configurations what their schema says (`packages/app/config.d.ts`), lists and
numeric priorities; `EntityPagesFit` and `OverridesAlwaysWin` are about the plain conditions and the
overridable ids of their properties.

Before they were proved, TLC checked `RuntimeInv` and `AuthInv` as invariants on all
states of the run `deployment_harness`; `RuntimeInit` and `AuthInit` are conjuncts of its
initial states.

The type invariants of the modules with proofs are theorems only; the runs spend their
time on the other properties. That a stored digest stays is a theorem for one pod, and
violated by two.

The attempt to prove `PlacedEntriesShown` showed that it promised too much: `Root` removes
the RBAC entry from its group, and what is under that entry goes with it. TLC confirmed it
as soon as a plugin of the run hung an entry there. The property now leaves out such
entries, and the run has one.

**Only model-checked:** the liveness properties (TLAPS does not do fairness and ENABLED
here), and that `IsPreferred` is the fold of `preferredRow` (induction over the array is
out of reach of the installed provers). Every other property that a passing run checks is
a theorem.

## 6. Findings

1. **Two pods overwrite each other's digest** (`prestep_two_pods`). `persistDigest` updates
   the row whether or not it has a digest by now; a pod that resolved the tag later
   replaces the digest another pod has installed. The comment of the pin loop promises
   that a restart installs the same bytes.
2. **A pick is not saved after a locale is dropped** (`language_dropped_locale`).
   `lastUpdateFromUserSettings` is set before `setLanguage`; if the language API refuses the
   stored language, no effect clears the flag, and the next pick is taken for an echo.
3. **An opened drawer stays hidden** (`drawers_switch`). One event opens a drawer whose
   exposer stands before the active one's and closes the active one; the second report,
   compared with the `activeDrawerId` of an old render, clears what the first has set.
4. **No suite of an auth provider gets to a login on a cluster** (`remote_auth_suites`).
   `prepareProvider` updates the configuration before it creates the deployment
   (`support/fixtures/auth-provider-harness.ts:119-122`), and on a cluster the update begins
   with the generation of that deployment (`rhdh-deployment/index.ts:437`), which throws
   when there is none (`wait.ts:46`). `e2e/auth-providers/README.md:20` names OpenShift as
   the main target of these suites.
5. **The fallback of the learning paths is not shown** (`learning_paths_fallback`). When the
   API fails and the bundled file arrives, the error of the API is still set
   (`hooks/useLearningPathData.ts:37`) and the page shows it instead of the cards;
   `docs/e2e-tests/local-e2e-harness.md:81` has the page render from the static fallback
   data. `VisitSettles` accepts either, so that it holds of the code repaired as well.

**Seen while modelling, and not a run.**

* Boot: the merge counts any two scoped npm tarballs of one host as one plugin. To uninstall
  the overriding row of a factory plugin can make a disabled row of it count again; a row of
  the same repository without a selector then becomes ambiguous, and another plugin of that
  repository is handed over as well. `UninstallIsLocal` allows for it. It takes two factory
  plugins of one repository, beyond the four writes of the run; `UninstallHandsOver` covers
  it.
* Frontend: the shipped configuration hangs Extensions, RBAC and Adoption Insights under
  `default.admin` and `admin` (`app-config.dynamic-plugins.yaml:595`, `:614`, `:631`), which
  nothing defines, and `buildTree` drops them without a word, while
  `docs/dynamic-plugins/frontend-plugin-wiring.md:113` says a `menuItem` extends the
  sidebar. A refused RBAC permission removes the entry, with all that is under it, until
  the page is loaded again, even if a later answer allows it. The width effect of the drawer puts a dragged width
  back.
* Conditions: of `allOf`, `anyOf` and `oneOf` in one condition only the first applies. A
  condition whose import is missing is said to be ignored and counts as not met. A tab is
  hidden when all its conditions need the APIs of the page; a promise that a condition
  returns counts as yes for the tab.
* Learning paths: a `null` body keeps the progress indicator for ever.
* Translations: a JSON override in a language an earlier resource of the id lacks hides a
  later resource's texts in that language; a resource without a ref ignores overrides, and
  one with the ref of another id moves to it.
* Sign-in: `docs/auth.md:22` lists `saml` as a provider and the page offers it, but
  `getAuthProviderFactory` has no case for it and the backend does not start;
  `docs/auth.md:123` names `emailLocalPartMatchingUserEntityName` as the default of `oidc`,
  `authProvidersModule.ts:216-219` tries the Keycloak id and then the LDAP uuid; the page
  requires `auth.environment`, which the backend takes for `development` when unset; after
  a failed request the next resolver decides, by another claim.
* Backend: one broken `plugin-manifest.json` fails the start of the whole backend; of two
  packages with one name and version the first one's files serve both; a package whose
  name has none of the known styles gets an RBAC id that is not its plugin's.
* Licensed users: every namespace is stored under `user:default/<name>`, and a change of
  the lifetime of tokens shifts the times of all earlier sign-ins.
* Lockfile: a new entry may take over a descriptor that a kept entry also has.
* Auth suites: a crashed local server makes every later kill throw (`k8s.ts:396`), and the
  rest of the suite fails with it.
* Runtime files: a restart that fails leaves the deployment at zero replicas; failures of
  ending pods end the wait for the new one; `waitForDeploymentReady` ignores the observed
  generation; after the external database files `ensureDeploymentEnvVars` keeps the
  variables bound to `postgres-cred`, which is why `SchemaPodsUseSchemaUser` speaks of the
  internal database; the password of the schema user overwrites the one that is read as the
  administrator's later; a forward whose spawn failed is never done stopping;
  `patchAppConfig` writes without a resource version.

## 7. Abstractions, what is not modelled, and the plan

Left out on purpose: the wording of logs; YAML and string syntax (references and package
names are parsed records); which groups of the sidebar are expanded; CSS; icons, themes
and route bindings beyond being served or not; ranges of protocols other than `npm:`.
`DynamicRoot` starts once: its callbacks depend on properties that do not change before
the page is shown. `Root` is never unmounted.

* **Entity page.** The order of tabs and cards and their layout. `EntityPageFits` speaks of
  conditions as the documentation has them: one of the three tests.
* **Translations.** `getTranslatedTextWithFallback`. How the translation API picks a
  loader (`OfId`, `InLanguage`, `Translated`) is external. `OverridesWin` speaks of ids all
  of whose resources name their own ref, and of left-out words in languages that the first
  resource of the id has.
* **Learning paths and licensed users** share no state with the rest of their runs: the
  first are visited on the page of one frontend, the others run beside one sign-in.
* **Licensed users.** `/users/quantity`, CSV, the parsing of dates. A refused permission is
  a request that is not made.
* **Backend start.** The corporate proxy, telemetry and logging. The rules of the Backstage
  loader are external: an explicit factory beats one that was loaded, duplicates are
  errors, a plugin that fails ends the start. The variable that overrides a service is
  the id of the service.
* **Test harness.** The browser and what it is asked, diagnostics, Helm and the operator's
  templates beyond the environment and the store they make. The cluster, operator, database
  server and child processes are external. In the runtime jobs the operator may put back
  the replicas and the template of its deployment at any time (`OperatorReconciles`), though
  never a config map or a secret, and it rolls no deployment because a config map
  changed. The administrator's two connections are one; the cluster stands still while a
  connection is made; the theorems are about any cluster, the run starts files and suites
  where `MC_Harness` says, and a job is not interrupted from outside. Of the auth suites, the
  remote halves of the steps behind the reading of the generation (the waits for a roll-out
  and for a ready deployment in `wait.ts`, the log of a pod, the custom resource) are not
  modelled, since no suite reaches them.
* **Installer and Marketplace backend** are not in this repository, and no more of them can
  be modelled than the boot scripts show.
* **Not modelled at all:** search, themes, error and settings pages (rendering of data that
  other components provide), packages of types, the next frontend (a few lines around the
  upstream framework), build, release and CI scripts (sequential rewriting of files), the
  tests of pages in a browser.

**Failing halves that a property leaves out.** Some hazards of this code do go wrong, in a
way the property beside them does not promise against and so does not catch:

* `BootEnds` takes from fairness that every awaited call of the pre-step ends; a call that
  lost its timeout would not be noticed.
* `IntactPluginsServed` promises nothing of TechDocs addons that lie in modules no other
  contribution names (`DynamicRoot.tsx:480`).
* `RbacEntryFollowsPermission` promises the entry only to who was never refused; that it
  stays away after a later allow is in section 6.
* `EntityPageFits` promises conditions with one key; what several keys do is in section 6.
* `ReportIsTrue` promises the times of sign-ins only while the lifetime of tokens is the
  stored one.

Order of work, the most important behaviour first. Done: the boot scripts
(`PluginIdentity` to `MergeDynamicPlugins`, with `PinStore` as the abstract specification),
`GroupOwnership` and `SignIn`, `LanguagePreference`, `ApplicationDrawer`,
`LockfileSurgeon`, `MenuItems` and `DynamicRoot`, with the proofs of section 5; then
`EntityPage`, `Translations`, `LearningPaths`, `LicensedUsers`, `BackendStart`, the test
harness (`Cluster` to `AuthHarness`), and the proofs about the drawers, the backend, the
harness and the frontend. Still to come:

1. The order of tabs and cards, and route bindings.
