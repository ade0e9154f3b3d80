------------------------------- MODULE SignIn -------------------------------
(***************************************************************************)
(* One sign-in, from the start of the backend to the token: the providers  *)
(* the backend registers (packages/backend/src/modules/                    *)
(* authProvidersModule.ts), the ones the page offers (packages/app/src/    *)
(* components/SignInPage), and the sign-in resolvers (resolverUtils.ts,    *)
(* rhdhSignInResolvers.ts), each of which looks a claim of the identity up *)
(* in the catalog.  The user found is handed to the walk of                *)
(* GroupOwnership; whatever fails on the way, the next resolver is tried.  *)
(***************************************************************************)
EXTENDS GroupOwnership, SequencesExt

CONSTANTS
  Deployments,  \* configurations of frontend and backend, see IsDeployment
  Directories,  \* the users a catalog may hold, see Directory
  Identities,   \* what an identity provider may say of who signs in
  Values,       \* values of claims
  RefNamed      \* the user reference with a value as its name

OAuthProviders == {"atlassian", "auth0", "bitbucket", "bitbucketServer", "github",
                   "gitlab", "google", "oidc", "okta", "onelogin", "microsoft"}
ProxyProviders == {"azure-easyauth", "cfaccess", "gcp-iap", "oauth2Proxy"}

\* A sign-in resolver looks the first of some claims up under a key of the users;
\* a confirmed one asks that the ID token say the same.  One that may fall back
\* signs in who is not in the catalog (dangerouslyAllowSignInWithoutUserInCatalog).
Resolver(claims, key, confirmed, fallback) ==
  [claims |-> claims, key |-> key, confirmed |-> confirmed, fallback |-> fallback]

preferredUsernameMatchingUserEntityName(fallback) ==
  Resolver(<<"preferred_username">>, "name", FALSE, fallback)

\* Broken: the ID token is not compared.
createOidcSubClaimResolver_Unconfirmed(userIdKey, fallback) ==
  Resolver(<<"sub">>, userIdKey, FALSE, fallback)

createOidcSubClaimResolver(userIdKey, fallback) ==
  Resolver(<<"sub">>, userIdKey, TRUE, fallback)

oidcLdapUuidMatchingAnnotation(fallback) ==
  Resolver(<<"ldap_uuid">>, "ldap-uuid", TRUE, fallback)

oauth2ProxyUserHeaderMatchingUserEntityName(header, fallback) ==
  Resolver(IF header THEN <<"OAUTH_USER_HEADER">>
           ELSE <<"x-forwarded-preferred-username", "x-forwarded-user">>,
           "name", FALSE, fallback)

\* The resolver a provider brings along: by name, by email, or by its annotation.
ownSignInResolver(p) ==
  IF p \in {"atlassian", "onelogin"} THEN Resolver(<<"username">>, "name", FALSE, FALSE)
  ELSE IF p = "google" THEN Resolver(<<"emailLocalPart">>, "name", FALSE, FALSE)
  ELSE IF p \in {"auth0", "bitbucketServer", "cfaccess"}
         THEN Resolver(<<"email">>, "email", FALSE, FALSE)
  ELSE Resolver(<<"id">>, p, FALSE, FALSE)

\* The list getAuthProviderFactory gives a provider that configures none.
defaultResolvers(d, p) ==
  IF p = "oidc" THEN <<createOidcSubClaimResolver("keycloak.org/id", FALSE),
                       oidcLdapUuidMatchingAnnotation(FALSE)>>
  ELSE IF p = "oauth2Proxy"
         THEN <<oauth2ProxyUserHeaderMatchingUserEntityName(d.header, FALSE)>>
  ELSE <<ownSignInResolver(p)>>

\* The resolvers a configuration may name, here those of oidc; the other providers
\* have the common ones.
signInResolverFactories(fallback) ==
  [preferredUsernameMatchingUserEntityName |->
     preferredUsernameMatchingUserEntityName(fallback),
   oidcSubClaimMatchingKeycloakUserId |->
     createOidcSubClaimResolver("keycloak.org/id", fallback),
   oidcSubClaimMatchingPingIdentityUserId |->
     createOidcSubClaimResolver("pingidentity.org/id", fallback),
   oidcLdapUuidMatchingAnnotation |-> oidcLdapUuidMatchingAnnotation(fallback),
   emailMatchingUserEntityProfileEmail |->
     Resolver(<<"email">>, "email", FALSE, fallback),
   emailLocalPartMatchingUserEntityName |->
     Resolver(<<"emailLocalPart">>, "name", FALSE, fallback)]

commonSignInResolvers ==
  {"emailMatchingUserEntityProfileEmail", "emailLocalPartMatchingUserEntityName"}

\* signInPage is <<>> when unset; providers are the keys of auth.providers;
\* unresolved those with disableIdentityResolution in the environment; configured
\* names resolvers for some of the others; header: OAUTH_USER_HEADER is set.
IsDeployment(d) ==
  /\ d.signInPage \in Seq(STRING)
  /\ d.providers \subseteq STRING
  /\ d.environment \in {"development", "production"}
  /\ d.unresolved \subseteq d.providers
  /\ DOMAIN d.configured \subseteq d.providers \ d.unresolved
  /\ \A p \in DOMAIN d.configured :
       d.configured[p] \in Seq([fallback : BOOLEAN,
           name : IF p = "oidc" THEN DOMAIN signInResolverFactories(FALSE)
                  ELSE commonSignInResolvers]) \ {<<>>}
  /\ d.header \in BOOLEAN

\* A user reference without keys is that of no user of the catalog.
Directory == [Users -> [memberOf : SUBSET (Groups \cup OtherRefs),
                        keys : SUBSET (STRING \X Values)]]

ASSUME SignInAssumption ==
  /\ \A d \in Deployments : IsDeployment(d)
  /\ Directories \subseteq Directory
  /\ \A id \in Identities : \A c \in DOMAIN id.profile : id.profile[c] \in Values
  /\ RefNamed \in [Values -> Users]

\* signInWithCatalogUser finds the users with a value under a key.
Matching(c, key, v) == {u \in Users : <<key, v>> \in c[u].keys}

VARIABLES
  deployment,
  directory,   \* the users in the catalog
  seen,        \* the directories since the sign-in began
  identity,    \* the claims of the profile and those of the ID token
  provider,    \* the one chosen on the page
  stage,       \* where the sign-in stands
  resolver,    \* the position of the sign-in resolver that runs
  failed,      \* a request or the issuing of a token has failed
  token        \* sub and ent of the issued token, or None

signInVars == <<deployment, directory, seen, identity, provider, stage, resolver,
                failed, token>>
allVars == <<vars, signInVars>>

\* What the choice of a provider and the configuration leave to try.
signInResolvers ==
  IF provider \in DOMAIN deployment.configured
  THEN LET named == deployment.configured[provider]
       IN  [i \in DOMAIN named |-> signInResolverFactories(named[i].fallback)[named[i].name]]
  ELSE defaultResolvers(deployment, provider)

Current == signInResolvers[resolver]

\* A resolver goes by the first of its claims that the profile has.
GoesBy(r, id, c) ==
  \E i \in DOMAIN r.claims : /\ c = r.claims[i]
                            /\ \A j \in 1 .. i - 1 : r.claims[j] \notin DOMAIN id.profile

HasClaim(r, id) == \E c \in DOMAIN id.profile : GoesBy(r, id, c)
ClaimName(r, id) == CHOOSE c \in DOMAIN id.profile : GoesBy(r, id, c)
ClaimOf(r, id) == id.profile[ClaimName(r, id)]

\* The ID token is there and repeats the claim.
Confirmed(r, id) ==
  /\ ClaimName(r, id) \in DOMAIN id.idToken
  /\ id.idToken[ClaimName(r, id)] = ClaimOf(r, id)

\* The resolver throws without a claim, or when the ID token does not repeat it.
Accepts(r, id) == HasClaim(r, id) /\ (r.confirmed => Confirmed(r, id))

-----------------------------------------------------------------------------
SignInInit ==
  /\ Init
  /\ deployment \in Deployments
  /\ directory \in Directories
  /\ identity \in Identities
  /\ seen = {directory}
  /\ provider = None
  /\ stage = "starting"
  /\ resolver = 1
  /\ failed = FALSE
  /\ token = None

\* Backend start: a key of auth.providers without a factory ends it.
StartBackend ==
  /\ stage = "starting"
  /\ stage' = IF deployment.providers \ {"guest"} \subseteq OAuthProviders \cup ProxyProviders
              THEN "page" ELSE "down"
  /\ UNCHANGED <<vars, deployment, directory, seen, identity, provider, resolver,
                 failed, token>>

\* The providers the page knows.
pageProviders == OAuthProviders \cup ProxyProviders \cup {"saml"}

\* What the page lets the user choose: unknown names are dropped, github stands in
\* for none, the first proxied provider rules out the rest, guests in development.
Offered(d) ==
  LET known == SelectSeq(d.signInPage, LAMBDA n : n \in pageProviders)
      providerConfigs == IF known = <<>> THEN <<"github">> ELSE known
      proxied == SelectSeq(providerConfigs, LAMBDA n : n \in ProxyProviders)
  IN  IF proxied # <<>> THEN {Head(proxied)}
      ELSE Range(providerConfigs)
             \cup (IF d.environment = "development" THEN {"guest"} ELSE {})

\* The user chooses and the provider identifies him.  A provider the backend has
\* not, or that resolves no identity, signs nobody in.
ChooseProvider(p) ==
  /\ stage = "page"
  /\ p \in Offered(deployment)
  /\ provider' = p
  /\ stage' = IF p = "guest" THEN "guest"
              ELSE IF p \in deployment.providers \ deployment.unresolved THEN "resolver"
              ELSE "refused"
  /\ UNCHANGED <<vars, deployment, directory, seen, identity, resolver, failed, token>>

\* Broken: the first resolver that throws ends the attempts.
tryNext_Stops ==
  /\ stage' = "refused"
  /\ UNCHANGED resolver

\* A resolver has thrown: trySignInResolvers goes on to the next.
tryNext ==
  IF resolver < Len(signInResolvers)
  THEN stage' = "resolver" /\ resolver' = resolver + 1
  ELSE stage' = "refused" /\ UNCHANGED resolver

\* A list from the configuration is read by the auth plugin, which may go on to
\* the next resolver or give up, depending on the error.
catchError ==
  \/ tryNext
  \/ /\ provider \in DOMAIN deployment.configured
     /\ stage' = "refused" /\ UNCHANGED resolver

\* A resolver looks at the claims, and asks the catalog or throws.
RunResolver ==
  /\ stage = "resolver"
  /\ \/ /\ Accepts(Current, identity)
        /\ stage' = "lookup" /\ UNCHANGED resolver
     \/ ~ Accepts(Current, identity) /\ catchError
  /\ UNCHANGED <<vars, deployment, directory, seen, identity, provider, failed, token>>

\* The users whose entity carries the claim the resolver goes by.
Candidates == Matching(directory, Current.key, ClaimOf(Current, identity))

\* One user has the value: its ownership references are resolved.
UserFound ==
  /\ stage = "lookup"
  /\ \E u \in Users : Candidates = {u} /\ Begin(u, directory[u].memberOf)
  /\ stage' = "walk"
  /\ UNCHANGED <<deployment, directory, seen, identity, provider, resolver, failed, token>>

\* Nobody has it: the token is for the claim itself where that is allowed, and
\* the resolver throws otherwise, as it does when several users have it.
UserNotFound ==
  /\ stage = "lookup"
  /\ \A u \in Users : Candidates # {u}
  /\ IF Candidates = {} /\ Current.fallback
     THEN /\ token' = [sub |-> RefNamed[ClaimOf(Current, identity)],
                       ent |-> {RefNamed[ClaimOf(Current, identity)]}]
          /\ stage' = "signedIn" /\ UNCHANGED resolver
     ELSE catchError /\ UNCHANGED token
  /\ UNCHANGED <<vars, deployment, directory, seen, identity, provider, failed>>

LookupFails ==
  /\ stage = "lookup"
  /\ catchError
  /\ failed' = TRUE
  /\ UNCHANGED <<vars, deployment, directory, seen, identity, provider, token>>

WalkStep ==
  /\ stage = "walk"
  /\ ResolverStep
  /\ UNCHANGED signInVars

\* The walk has failed, or the token is not issued: the resolver throws.
WalkFails ==
  /\ stage = "walk" /\ outcome \in {"failed", "resolved"}
  /\ catchError
  /\ failed' = TRUE
  /\ UNCHANGED <<vars, deployment, directory, seen, identity, provider, token>>

IssueToken ==
  /\ stage = "walk" /\ outcome = "resolved"
  /\ token' = [sub |-> user, ent |-> ownershipEntityRefs]
  /\ stage' = "signedIn"
  /\ UNCHANGED <<vars, deployment, directory, seen, identity, provider, resolver, failed>>

\* The catalog takes in another directory of users while somebody signs in.
EditDirectory ==
  /\ stage \in {"resolver", "lookup", "walk"}
  /\ Cardinality(seen) <= MaxEdits
  /\ directory' \in Directories
  /\ seen' = seen \cup {directory'}
  /\ UNCHANGED <<vars, deployment, identity, provider, stage, resolver, failed, token>>

EditGroups ==
  /\ stage = "walk"
  /\ EditCatalog
  /\ UNCHANGED signInVars

AttemptStep ==
  RunResolver \/ UserFound \/ UserNotFound \/ LookupFails \/ WalkStep \/ WalkFails \/ IssueToken

SignInNext ==
  \/ StartBackend
  \/ \E p \in Offered(deployment) : ChooseProvider(p)
  \/ AttemptStep
  \/ EditDirectory \/ EditGroups

\* Each await of a sign-in is settled by the catalog or the auth service; nobody
\* has to start a backend, choose a provider or change the catalog.
SignInSpec == SignInInit /\ [][SignInNext]_allVars /\ WF_allVars(AttemptStep)

-----------------------------------------------------------------------------
Attempting == stage \in {"resolver", "lookup", "walk"}

Stages == {"starting", "down", "page", "guest", "refused", "resolver", "lookup", "walk",
           "signedIn"}

SignInTypeOK ==
  /\ OwnershipTypeOK
  /\ deployment \in Deployments
  /\ directory \in seen /\ seen \subseteq Directories
  /\ identity \in Identities
  /\ stage \in Stages /\ failed \in BOOLEAN
  /\ Attempting => resolver \in 1 .. Len(signInResolvers)
  /\ token # None => token.sub \in Users /\ token.ent \subseteq Groups \cup Users

\* Keys that hold the ids of Keycloak, Ping Identity and LDAP.
ConfirmedKeys == {"keycloak.org/id", "pingidentity.org/id", "ldap-uuid"}

\* A resolver vouches for a token under a directory: its claim, which the ID token
\* repeats for a confirmed key, is that of the token's user alone, whose groups the
\* token carries, or of nobody and the resolver may fall back.
Vouches(r, c, t) ==
  /\ HasClaim(r, identity)
  /\ r.key \in ConfirmedKeys => Confirmed(r, identity)
  /\ LET users == Matching(c, r.key, ClaimOf(r, identity))
     IN  \/ users = {t.sub} /\ membershipRefs(c[t.sub].memberOf) \subseteq t.ent
         \/ users = {} /\ r.fallback /\ t.sub = RefNamed[ClaimOf(r, identity)]

\* A token is for the user the provider vouched for, through one resolver and one
\* directory of the time of the sign-in, whichever resolvers failed before; it
\* names no other user.
TokenOfVerifiedUser ==
  stage = "signedIn" =>
    /\ token.ent \cap Users = {token.sub}
    /\ \E i \in DOMAIN signInResolvers, c \in seen : Vouches(signInResolvers[i], c, token)

\* What a resolver comes to when nothing fails: one user is found, or it may fall back.
Admits(r) ==
  /\ Accepts(r, identity)
  /\ LET users == Matching(directory, r.key, ClaimOf(r, identity))
     IN  (\E u \in Users : users = {u}) \/ (users = {} /\ r.fallback)

\* Nothing has failed, no user has changed, and the list is that of the code.
Undisturbed ==
  ~ failed /\ seen = {directory} /\ provider \notin DOMAIN deployment.configured

\* While nothing fails and no user changes, trySignInResolvers signs in by the first
\* resolver that admits the identity, and refuses only whom none admits.
ResolversDecideInOrder ==
  Undisturbed =>
    /\ stage = "signedIn" =>
         \E i \in DOMAIN signInResolvers :
           /\ Admits(signInResolvers[i])
           /\ Vouches(signInResolvers[i], directory, token)
           /\ \A j \in 1 .. i - 1 : ~ Admits(signInResolvers[j])
    /\ stage = "refused" /\ provider \in deployment.providers \ deployment.unresolved =>
         \A i \in DOMAIN signInResolvers : ~ Admits(signInResolvers[i])

\* An attempt is answered or refused, whatever fails and however groups are nested.
SignInEnds == Attempting ~> ~ Attempting
=============================================================================
