------------------------------ MODULE MC_SignIn ------------------------------
(* Deployments with the default resolvers of oidc, of a proxy and of github,  *)
(* with configured lists, without a factory for a provider; two users, one of *)
(* whom may be missing or share his keys; a diamond, a cycle and a chain with *)
(* a missing group.  One edit of the users and one of the groups.  Before     *)
(* them the backend starts, with up to two dynamic plugins.                   *)
EXTENDS SignIn, LicensedUsers, BackendStart

CONSTANTS g1, g2, g3, g4, team, alice, bob, stranger, v1, v2

MCGroups == {g1, g2, g3, g4}
MCUsers == {alice, bob, stranger}
MCHierarchies ==
  {(g1 :> {g2, g3} @@ g2 :> {g4} @@ g3 :> {g4} @@ g4 :> {}),
   (g1 :> {g2} @@ g2 :> {g3} @@ g3 :> {g1} @@ g4 :> {g4}),
   (g1 :> {g2} @@ g2 :> NotAGroup @@ g3 :> {g4} @@ g4 :> {g2})}
MCParentSets == {{}, {g1}, {g3}, {g2, g4}, {g1, g3, g4}, NotAGroup}

Entity(refs, keys) == [memberOf |-> refs, keys |-> keys]
Absent == Entity({}, {})
ByAnnotation == {<<"keycloak.org/id", v1>>, <<"github", v1>>, <<"name", v2>>}

MCDirectories ==
  {(alice :> Entity({g1, team}, ByAnnotation) @@ stranger :> Absent
     @@ bob :> Entity({g2, g3}, {<<"ldap-uuid", v2>>, <<"name", v1>>})),
   (alice :> Entity({g1}, ByAnnotation) @@ stranger :> Absent
     @@ bob :> Entity({g4}, {<<"keycloak.org/id", v1>>, <<"ldap-uuid", v2>>})),
   (alice :> Absent @@ stranger :> Absent
     @@ bob :> Entity({}, {<<"ldap-uuid", v2>>, <<"name", v1>>}))}
MCRefNamed == v1 :> bob @@ v2 :> stranger

NoClaims == [c \in {} |-> v1]
Claims == "sub" :> v1 @@ "ldap_uuid" :> v2
MCIdentities ==
  {[profile |-> Claims @@ "id" :> v1 @@ "preferred_username" :> v1, idToken |-> Claims],
   [profile |-> Claims @@ "x-forwarded-user" :> v1,
    idToken |-> "sub" :> v2 @@ "ldap_uuid" :> v2],
   [profile |-> "ldap_uuid" :> v2 @@ "preferred_username" :> v2
                  @@ "x-forwarded-preferred-username" :> v2, idToken |-> NoClaims]}

Deploy(page, providers, env, unresolved, configured) ==
  [signInPage |-> page, providers |-> providers, environment |-> env,
   unresolved |-> unresolved, configured |-> configured, header |-> FALSE]
MCDeployments ==
  {Deploy(<<"oidc">>, {"oidc"}, "production", {}, <<>>),
   Deploy(<<"oidc", "github", "unknown">>, {"oidc", "github", "guest"}, "development", {"github"},
          "oidc" :> <<[name |-> "oidcSubClaimMatchingPingIdentityUserId", fallback |-> FALSE],
                      [name |-> "preferredUsernameMatchingUserEntityName", fallback |-> TRUE]>>),
   Deploy(<<"oidc", "oauth2Proxy">>, {"oauth2Proxy"}, "development", {}, <<>>),
   Deploy(<<>>, {"github"}, "production", {}, <<>>),
   Deploy(<<"saml">>, {"saml"}, "production", {}, <<>>)}

\* Two accounts of one name, and catalogs with one, both or neither of them.
Ann == [namespace |-> "default", name |-> "ann"]
OtherAnn == [namespace |-> "other", name |-> "ann"]
Profile(u, profile) == [user |-> u, profile |-> profile]
MCAccounts == {Ann, OtherAnn}
MCCatalogs ==
  {<<>>, <<Profile(Ann, "Ann")>>, <<Profile(Ann, "Ann"), Profile(OtherAnn, "Ann of others")>>}

\* Up to two packages out of frontend plugins, backend plugins, wrappers and modules
\* that override services, in any order.
PackageName(style, id, suffix) == [style |-> style, id |-> id, suffix |-> suffix]
NoModules == [mod \in {} |-> ""]
Package(folder, name, role) ==
  [folder |-> folder, name |-> name, version |-> 1, role |-> role, manifest |-> Missing,
   provides |-> {}, dependencies |-> [d \in {} |-> FALSE], wraps |-> Missing,
   features |-> Missing, exposed |-> {}]

Web(folder, id, manifest, exposed, features_) ==
  [Package(folder, PackageName("@scope/plugin-", id, ""), "frontend-plugin") EXCEPT
     !.manifest = manifest, !.exposed = exposed, !.features = features_]
Wrapper(folder, style, wraps, has) ==
  [Package(folder, PackageName(style, "quay", "-backend-dynamic"), "backend-plugin") EXCEPT
     !.wraps = wraps, !.dependencies = [d \in {wraps} |-> has]]
Module(folder, provides) ==
  [Package(folder, PackageName("scope-plugin-", folder, "-backend-dynamic"), "backend-plugin-module")
     EXCEPT !.provides = provides]

MCPackages ==
  {Web("docs", "docs", "docs", {".", "./alpha"}, "./alpha" :> "@backstage/FrontendPlugin"),
   Web("docs-copy", "docs", "not JSON", {"."}, NoModules),
   Web("docs-fork", "fork", "docs", {"."}, "." :> "@backstage/Other"),
   Web("gone", "gone", Missing, {"."}, Missing),
   Web("broken", "broken", "not JSON", {"."}, Missing),
   Wrapper("quay", "@scope/backstage-plugin-", "@quay/backend", TRUE),
   Wrapper("quay-hoisted", "scope-plugin-", "@quay/backend", FALSE),
   Package("plain", PackageName("@scope/", "plain", "-backend"), "backend-plugin"),
   Module("router", {"core.rootHttpRouter"}),
   Module("audit", {"core.rootHttpRouter", "core.auditor"})}

Indexed(set, n) == {p \in [1..n -> set] : \A i, j \in 1..n : i # j => p[i] # p[j]}
MCInstallations == UNION {Indexed(MCPackages, n) : n \in 0..2}
MCServices == {"core.rootHttpRouter", "core.auditor"}
Usual ==
  [overrides |-> {}, authModule |-> TRUE, unknownProvider |-> FALSE, federation |-> FALSE,
   persistence |-> Missing]
MCEnvironments ==
  {Usual,
   [Usual EXCEPT !.unknownProvider = TRUE],
   [Usual EXCEPT !.overrides = {"core.rootHttpRouter"}, !.persistence = "browser"],
   [Usual EXCEPT !.overrides = MCServices, !.federation = TRUE, !.persistence = "database",
                 !.authModule = FALSE],
   [Usual EXCEPT !.federation = TRUE, !.persistence = "redis"]}

\* The report shares no state with a sign-in that is under way: it is asked for beside
\* one installation, and the sign-ins are explored without it.  The dynamic plugins do
\* not reach the sign-in either: it is explored on a backend that has none.
NoReport ==
  licensed = <<0, [lifetime |-> Unset, inMemory |-> FALSE], NoRows, NoRows, <<>>, Idle>>
Quiet ==
  /\ stage \in {"starting", "page"}
  /\ ~ transitive
  /\ catalog = CHOOSE h \in MCHierarchies : TRUE
  /\ deployment = CHOOSE d \in MCDeployments : d.signInPage = <<>>
  /\ directory = CHOOSE d \in MCDirectories : TRUE
  /\ identity = CHOOSE id \in MCIdentities : TRUE

UnknownProvider ==
  ~ deployment.providers \subseteq OAuthProviders \cup ProxyProviders \cup {"guest"}
Bare ==
  packages = <<>> /\ environment = [Usual EXCEPT !.unknownProvider = UnknownProvider]

MCInit ==
  /\ SignInInit /\ LicensedInit /\ BackendInit
  /\ \/ NoReport /\ Bare
     \/ Quiet /\ Bare
     \/ Quiet /\ NoReport

\* The providers of the sign-in are those the backend registers as it starts.
BackendStarts ==
  \/ Bare /\ StartBackend /\ Initialize("auth providers")
  \/ BackendNext /\ ~ (Bare /\ Initialize("auth providers")) /\ UNCHANGED allVars

MCNext ==
  \/ BackendStarts /\ UNCHANGED licensed
  \/ phase = "running" /\ Bare /\ NoReport /\ SignInNext /\ UNCHANGED <<licensed, backend>>
  \/ phase = "running" /\ Bare /\ Quiet /\ LicensedNext /\ UNCHANGED <<allVars, backend>>
MCSpec ==
  /\ MCInit
  /\ [][MCNext]_<<allVars, licensed, backend>>
  /\ WF_<<allVars, licensed, backend>>(AttemptStep /\ UNCHANGED <<licensed, backend>>)
==============================================================================
