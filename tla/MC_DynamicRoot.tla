--------------------------- MODULE MC_DynamicRoot ---------------------------
(* The compiled-in menu with and without an administration group, and two     *)
(* plugins of which one has a module beside PluginRoot.                       *)
EXTENDS EntityPage, Translations, LearningPaths

Entry(name, title, parent, enabled, priority) ==
  [name |-> name, title |-> title, enabled |-> enabled, parent |-> parent,
   priority |-> priority]
Route(name, text) == [name |-> name, static |-> TRUE, text |-> text, enabled |-> Unset]
Use(kind, module, import, slot) ==
  [kind |-> kind, module |-> module, import |-> import, slot |-> slot]
Plugin(scope, module, uses, routes, menuItems) ==
  [scope |-> scope, module |-> module, uses |-> uses, routes |-> routes,
   menuItems |-> menuItems]

MCDefaultNames == {"default.home", "default.admin"}
MCAdminNames == {"default.admin", "site-admin"}
MCMenuScope == "default.main-menu-items"

Home == Entry("default.home", "Home", Unset, Unset, 100)
Admin == Entry("default.admin", "Administration", Unset, Unset, Unset)

Main(entries) == Plugin(MCMenuScope, "PluginRoot", <<>>, <<>>, entries)
Mains ==
  {Main(<<Home>>), Main(<<Home, Admin>>),
   Main(<<Home, Admin, Entry("docs", Unset, Unset, FALSE, Unset)>>)}

\* A documentation plugin, under a group of its own, under Home, or gone astray.
DocsUses ==
  <<Use("part", "PluginRoot", "Page", "/docs"),
    Use("addon", "Addons", "Addon", "reader"),
    Use("tab", "PluginRoot", "none", "/docs"),
    Use("tab", "PluginRoot", "none", "/dependencies"),
    Use("part", "PluginRoot", "Page", "build"),
    Use("part", "PluginRoot", "Page", "deployment"),
    Use("part", "PluginRoot", "Page", "reader"),
    Use("translation", "PluginRoot", "docsTranslations", "docsRef"),
    Use("translation", "PluginRoot", "Page", "docsRef")>>
DocsMenus ==
  {<<>>,
   <<Entry("docs", Unset, "default.home", Unset, 10),
     Entry("favorites", "Favorites", "docs", Unset, Unset),
     Entry("starred", "Starred", "favorites", Unset, Unset)>>,
   <<Entry("docs", Unset, "favorites", Unset, Unset),
     Entry("favorites", "Favorites", Unset, FALSE, Unset)>>}
Docs ==
  {Plugin("docs", "PluginRoot", uses, <<Route("docs", "Docs")>>, entries) :
     uses \in {DocsUses,
               DocsUses \o <<Use("part", "Addons", "Header", "header"),
                             Use("translation", "PluginRoot", "oldTranslations", "none"),
                             Use("override", "Addons", "Theme", "light")>>},
     entries \in DocsMenus}

\* A plugin with a menu item of its own, a sign-in page, and an API that replaces a
\* compiled-in one; it names a tab of the documentation plugin as well.
RbacUses ==
  <<Use("part", "PluginRoot", "Page", "/rbac"),
    Use("part", "PluginRoot", "Missing", "/gone"),
    Use("override", "PluginRoot", "Api", "api"),
    Use("signIn", "PluginRoot", "SignIn", "page"),
    Use("tab", "PluginRoot", "none", "/docs"),
    Use("tab", "PluginRoot", "none", "/api"),
    Use("part", "PluginRoot", "Page", "throwing"),
    Use("part", "PluginRoot", "Page", "undecided"),
    Use("part", "PluginRoot", "Page", "roles"),
    Use("part", "PluginRoot", "Page", "unconditional"),
    Use("translation", "PluginRoot", "catalogTranslations", "catalogRef")>>
Rbac ==
  {Plugin("rbac", "PluginRoot", RbacUses, <<Route("rbac", "RBAC")>>, entries) :
     entries \in {<<Entry("rbac", Unset, "default.admin", Unset, Unset),
                    Entry("audit", "Audit", "rbac", Unset, Unset)>>,
                  <<Entry("site-admin", "Site", Unset, Unset, Unset),
                    Entry("rbac", Unset, "site-admin", Unset, Unset)>>}}

SignIn == Plugin("login", "Login",
  <<Use("signIn", "Login", "SignIn", "page"),
    Use("translation", "Login", "loginTranslations", "docsRef")>>, <<>>, <<>>)

MCFrontends == {<<m, s, d, r>> : m \in Mains, s \in {SignIn}, d \in Docs, r \in Rbac}
                 \cup {<<Main(<<Home>>), SignIn>>}
MCExports ==
  [m \in {<<"docs", "PluginRoot">>, <<"docs", "Addons">>, <<"rbac", "PluginRoot">>,
          <<"login", "Login">>} |->
     IF m[2] = "Addons" THEN {"Addon", "Header", "Theme"}
     ELSE {"Page", "Api", "SignIn", "Throws", "AsksApis"} \cup
          (IF m[1] = "docs" THEN {"docsTranslations", "docsRef", "oldTranslations"}
           ELSE IF m[1] = "rbac" THEN {"catalogTranslations", "catalogRef"}
           ELSE {"loginTranslations", "docsRef"})]
MCNullExporters == {<<"docs", "Addons">>}
MCStaticIds == {"api", "light", "dark"}

\* Cards of two plugins on the tabs /ci, /cd and /api, of which the last has moved to
\* another mount point, on the documentation tab, and on one with a negative priority.
Card(mountPoint, conditional) == [mountPoint |-> mountPoint, if |-> conditional]
Kinds(kinds) == [isKind |-> kinds]
Types(types) == [isType |-> types]
Annotated(key) == [hasAnnotation |-> key]
Import(name) == [import |-> name]
MCCardOf ==
  "build" :> Card("ci", [allOf |-> <<Kinds({"component"}), Annotated("ci")>>])
    @@ "throwing" :> Card("ci", [anyOf |-> <<Import("Throws"), Types({"service"})>>])
    @@ "deployment" :> Card("cd", [anyOf |-> <<Import("Missing"), Import("AsksApis")>>])
    @@ "undecided" :> Card("cd", [allOf |-> <<Types({"service"})>>,
                                  oneOf |-> <<Annotated("ci"), Kinds({"api"})>>])
    @@ "reader" :> Card("docs", [oneOf |-> <<Annotated("docs"), Kinds({"api", "user"})>>])
    @@ "roles" :> Card("rbac-api", [oneOf |-> <<Import("AsksApis"), Kinds({"group"})>>])
    @@ "unconditional" :> Card("dependencies", [key \in {} |-> <<>>])

MCTabConfigOf ==
  <<"docs", "/docs">> :> Tab("docs") @@ <<"rbac", "/docs">> :> Tab("rbac-docs")
    @@ <<"rbac", "/api">> :> Tab("rbac-api")
    @@ <<"docs", "/dependencies">> :> [mountPoint |-> "dependencies", priority |-> -1]

Entity(kind, type, annotations) ==
  [kind |-> kind, type |-> type, annotations |-> annotations, warnings |-> {}, links |-> FALSE]
MCEntities ==
  {Entity("component", "service", {"ci", "docs"}), Entity("component", "library", {"ci"}),
   Entity("api", "openapi", {"docs"}), Entity("api", "openapi", {}),
   Entity("system", None, {"ci"}), Entity("user", None, {}), Entity("group", "team", {"docs"}),
   Entity("domain", None, {}), Entity("resource", "database", {}), Entity("location", None, {})}

\* One function fails for libraries, one whenever it has no APIs to ask.
MCPluginAnswer(f, e, context) ==
  IF f = "Throws" THEN IF e.type = "library" THEN "throws" ELSE "no"
  ELSE IF f = "AsksApis" THEN IF context THEN "yes" ELSE "throws"
  ELSE "no"

\* Words of the documentation plugin, of which a second resource knows another language
\* and names no ref, of the catalog by a plugin and by the app, and of a plugin that
\* names the ref of another.
Resource(id, messages) == [id |-> id, messages |-> messages]
Words(who, keys) == [key \in keys |-> who]
MCResourceOf ==
  <<"docs", "PluginRoot", "docsTranslations">> :>
      Resource("docs", "en" :> Words("docs", {"title", "hint"}))
    @@ <<"docs", "PluginRoot", "oldTranslations">> :>
         Resource("docs", "en" :> Words("old", {"title"}) @@ "fr" :> Words("old", {"title", "hint"}))
    @@ <<"rbac", "PluginRoot", "catalogTranslations">> :>
         Resource("catalog", "en" :> Words("rbac", {"title"}))
    @@ <<"login", "Login", "loginTranslations">> :>
         Resource("login", "en" :> Words("login", {"title"}))
MCRefOf ==
  <<"docs", "PluginRoot", "docsRef">> :> "docs" @@ <<"login", "Login", "docsRef">> :> "docs"
    @@ <<"rbac", "PluginRoot", "catalogRef">> :> "catalog"
MCStaticConfigs ==
  <<[resource |-> Resource("catalog", "en" :> Words("app", {"title", "hint"})
                                        @@ "fr" :> Words("app", {"title"})),
     ref |-> "catalog"],
    [resource |-> Resource("settings", "fr" :> Words("app", {"title"})), ref |-> "settings"],
    [resource |-> Resource("settings", <<>>), ref |-> "settings"]>>
MCLanguages == {"en", "fr"}
MCKeys == {"title", "hint"}
Everywhere(messages) == [id \in {"docs", "catalog", "settings", "login"} |-> messages]
MCOverrideFiles ==
  {<<>>, Everywhere("en" :> Words("json", {"title"})), Everywhere("fr" :> Words("json", {"hint"})),
   "catalog" :> ("en" :> Words("json", MCKeys) @@ "fr" :> Words("json", {"title"}))}

\* The learning paths share no state with the start of the frontend: they are visited
\* on the pages of one frontend, and the others leave them alone.
\* Starting is over when the first visit begins, so that one fairness does for both.
Visited == <<Main(<<Home>>), SignIn>>
MCVisited == {Visited}

MCInit == Init /\ VisitInit
MCNext ==
  \/ Next /\ UNCHANGED visit
  \/ stage = "shown" /\ frontend = Visited /\ VisitNext /\ UNCHANGED vars
MCSpec ==
  /\ MCInit
  /\ [][MCNext]_<<vars, visit>>
  /\ WF_<<vars, visit>>((Starting /\ UNCHANGED visit) \/ (Answered /\ UNCHANGED vars))

\* LoaderHasACause and VisitSettles: neither the start of the frontend (DynamicRoot) nor
\* a visit of the learning paths (LearningPathsPage) waits for ever, whatever fails.
PagesSettle == LoaderHasACause /\ VisitSettles
=============================================================================
