---------------------------- MODULE LicensedUsers ----------------------------
(***************************************************************************)
(* The report of the licensed users (plugins/licensed-users-info-backend): *)
(* who has signed in, and when last.  The auth backend keeps one row per   *)
(* user with the time the user's token expires; the report takes the       *)
(* lifetime of tokens off again, and adds what the catalog says of the     *)
(* user.  Rows and catalog are read one after the other.                   *)
(*                                                                         *)
(* Times are slots of five minutes.                                        *)
(***************************************************************************)
EXTENDS Integers, Sequences

CONSTANTS
  Accounts,   \* users that sign in, [namespace, name], names in lower case
  Catalogs,   \* the user entities a catalog may hold, sequences of [user, profile]
  Lifetimes,  \* auth.backstageTokenExpiration of the deployments, Unset for unset
  MaxTime,
  Unset

ASSUME MaxTimeAssumption == MaxTime \in Nat
ASSUME LifetimesAssumption == Lifetimes \subseteq Nat \cup {Unset}
ASSUME CatalogsAssumption ==
  \A entities \in Catalogs : DOMAIN entities = 1 .. Len(entities) /\ Len(entities) \in Nat

VARIABLES
  now,
  config,         \* of the deployment: lifetime, and inMemory for the SQLite in memory
  userInfo,       \* the rows of user_info: when the last token of a user expires
  signedIn,       \* when users last signed in, and the lifetime then (properties only)
  userEntities,   \* the user entities of the catalog
  request         \* the request for the report that is under way

licensed == <<now, config, userInfo, signedIn, userEntities, request>>

DefaultLifetime == 12
MinLifetime == 2
MaxLifetime == 288

NoRows == [u \in {} |-> 0]
Idle == [at |-> "idle", users |-> {}, signIns |-> NoRows, entities |-> <<>>]

\* The auth backend reads the same setting on its own.
AuthLifetime(lifetime) ==
  IF lifetime = Unset THEN DefaultLifetime
  ELSE IF lifetime < MinLifetime THEN MinLifetime
  ELSE IF lifetime > MaxLifetime THEN MaxLifetime
  ELSE lifetime

\* Broken: the bounds are forgotten.
readBackstageTokenExpiration_Unbounded ==
  IF config.lifetime = Unset THEN DefaultLifetime ELSE config.lifetime

readBackstageTokenExpiration ==
  IF config.lifetime = Unset THEN DefaultLifetime
  ELSE IF config.lifetime < MinLifetime THEN MinLifetime
  ELSE IF config.lifetime > MaxLifetime THEN MaxLifetime
  ELSE config.lifetime

LicensedInit ==
  /\ now = 0
  /\ config \in [lifetime : Lifetimes, inMemory : BOOLEAN]
  /\ userInfo = NoRows
  /\ signedIn = NoRows
  /\ userEntities \in Catalogs
  /\ request = Idle

-----------------------------------------------------------------------------
(* Around the plugin. *)

Tick ==
  /\ now < MaxTime
  /\ now' = now + 1
  /\ UNCHANGED <<config, userInfo, signedIn, userEntities, request>>

SignsIn(u) ==
  /\ userInfo' = [v \in DOMAIN userInfo \cup {u} |->
                    IF v = u THEN now + AuthLifetime(config.lifetime) ELSE userInfo[v]]
  /\ signedIn' = [v \in DOMAIN signedIn \cup {u} |->
                    IF v = u THEN [at |-> now, lifetime |-> AuthLifetime(config.lifetime)]
                    ELSE signedIn[v]]
  /\ UNCHANGED <<now, config, userEntities, request>>

\* The deployment is configured anew and restarts; requests are lost, and with a
\* database in memory the rows as well.
Redeploy(lifetime) ==
  /\ config.lifetime # lifetime
  /\ config' = [config EXCEPT !.lifetime = lifetime]
  /\ request' = Idle
  /\ userInfo' = IF config.inMemory THEN NoRows ELSE userInfo
  /\ signedIn' = IF config.inMemory THEN NoRows ELSE signedIn
  /\ UNCHANGED <<now, userEntities>>

EditUserEntities(entities) ==
  /\ userEntities # entities
  /\ userEntities' = entities
  /\ UNCHANGED <<now, config, userInfo, signedIn, request>>

-----------------------------------------------------------------------------
(* The plugin. *)

\* GET /users: with a database in memory there are no routes.  Who has credentials
\* and is not refused by the permissions goes on.
Ask ==
  /\ request.at = "idle"
  /\ ~ config.inMemory
  /\ request' = [request EXCEPT !.at = "rows"]
  /\ UNCHANGED <<now, config, userInfo, signedIn, userEntities>>

rowToResponse(u) ==
  [user |-> u, lastAuthTime |-> userInfo[u] - readBackstageTokenExpiration, profile |-> Unset]

\* GET /users reads the rows; signIns is what was true of them.
ReadRows ==
  /\ request.at = "rows"
  /\ request' = [request EXCEPT !.at = "catalog", !.signIns = signedIn,
                                !.users = {rowToResponse(u) : u \in DOMAIN userInfo}]
  /\ UNCHANGED <<now, config, userInfo, signedIn, userEntities>>

\* Every entity is filed under its name in the default namespace, whatever namespace
\* it has, and the last of a name stays.
profileOf(u) ==
  LET named == {i \in DOMAIN userEntities : userEntities[i].user.name = u.name}
      last == CHOOSE i \in named : \A j \in named : j <= i
  IN  IF u.namespace # "default" \/ named = {} THEN Unset ELSE userEntities[last].profile

\* The profiles are added, and the answer is sent; entities is what was read.
GetUserEntities ==
  /\ request.at = "catalog"
  /\ request' = [request EXCEPT !.at = "answered", !.entities = userEntities,
                    !.users = {[row EXCEPT !.profile = profileOf(row.user)] : row \in request.users}]
  /\ UNCHANGED <<now, config, userInfo, signedIn, userEntities>>

\* The database or the catalog does not answer, or the answer has been read.
RequestEnds ==
  /\ request.at # "idle"
  /\ request' = Idle
  /\ UNCHANGED <<now, config, userInfo, signedIn, userEntities>>

LicensedNext ==
  \/ Tick
  \/ \E u \in Accounts : SignsIn(u)
  \/ \E lifetime \in Lifetimes : Redeploy(lifetime)
  \/ \E entities \in Catalogs : EditUserEntities(entities)
  \/ Ask
  \/ ReadRows
  \/ GetUserEntities
  \/ RequestEnds

LicensedSpec == LicensedInit /\ [][LicensedNext]_licensed

-----------------------------------------------------------------------------
EntitiesNamed(name) ==
  {request.entities[i] : i \in {i \in DOMAIN request.entities : request.entities[i].user.name = name}}

\* The report names whoever has signed in.  Of who last did so under the lifetime of
\* this deployment, be it set beyond the bounds, it has the time of that sign-in
\* (rowToResponse), and of a user who shares the name with nobody in another namespace
\* the profile (CatalogEntityStore), although rows and catalog change in between.
ReportIsTrue ==
  request.at = "answered" =>
    /\ {row.user : row \in request.users} = DOMAIN request.signIns
    /\ \A row \in request.users :
         LET signIn == request.signIns[row.user] IN
         /\ signIn.lifetime = AuthLifetime(config.lifetime) => row.lastAuthTime = signIn.at
         /\ \A entity \in EntitiesNamed(row.user.name) :
              /\ entity.user = row.user
              /\ entity.user.namespace = "default"
              /\ EntitiesNamed(row.user.name) = {entity}
              => row.profile = entity.profile
=============================================================================
