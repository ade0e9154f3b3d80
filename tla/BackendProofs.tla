---------------------------- MODULE BackendProofs ----------------------------
(***************************************************************************)
(* What a boot merges, what the backend then starts with and what its      *)
(* report of the licensed users says.                                      *)
(*                                                                         *)
(* The merge, for every operator document, Marketplace file and selector:  *)
(* the installer runs only on the file this boot has merged, and no key of *)
(* the operator's is shared by a Marketplace entry.                        *)
(*                                                                         *)
(* The start, for every environment and every list of installed packages   *)
(* in folders of their own: a backend that runs serves what is installed,  *)
(* one that fails has a cause to show.  A plugin that is no longer to be   *)
(* initialized has told what it has to tell, and nothing undoes it.        *)
(*                                                                         *)
(* The report, for any accounts, catalogs and configured lifetimes: a row  *)
(* of the table is the time of a sign-in and the lifetime of then, and a   *)
(* request keeps what it has read together.                                *)
(***************************************************************************)
EXTENDS MergeDynamicPlugins, LicensedUsers, BackendStart, TLAPS, WellFoundedInduction

-----------------------------------------------------------------------------
(* The merge and the installer. *)

\* Once main() has read its inputs, the document follows from them.
DocumentOK ==
  stage \in {"writing", "check", "merged", "running"} =>
    /\ operatorConfig # Invalid
    /\ mergedDoc.operator = operatorConfig
    /\ mergedDoc.extras = MergedExtras(operatorConfig, extensionsPlugins)

\* From the last write on, the installer's path holds the document or is not the
\* path written to; past the check it holds it.
OutputOK ==
  /\ stage = "check" /\ dbPath = "linked" => outFile = mergedDoc
  /\ stage \in {"merged", "running"} => outFile = mergedDoc
  /\ stage = "running" => installed = mergedDoc

MergeInv == MergeTypeOK /\ DocumentOK /\ OutputOK

-----------------------------------------------------------------------------
\* References that samePlugin tells apart have different installer keys, whatever
\* plugin path an image holds.
LEMMA DifferentPluginsNeverCollide ==
  ASSUME NEW a \in PackageRef, NEW b \in PackageRef, ~ samePlugin(a, b)
  PROVE  ~ MayCollide(a, b)
BY DEF PackageRef, samePlugin, normalizePluginKey, IsOci, MayCollide, InstallerKey

\* Outside tarballs the converse holds: what samePlugin equates may collide.
LEMMA SamePluginMayCollide ==
  ASSUME NEW a \in PackageRef, NEW b \in PackageRef, samePlugin(a, b),
         a.kind # "tarball", b.kind # "tarball", Selectors # {}
  PROVE  MayCollide(a, b)
<1>1. PICK path \in Selectors : TRUE
  OBVIOUS
<1>2. CASE IsOci(a) /\ IsOci(b) /\ a.selector # NoSelector
  <2>1. InstallerKey(a, [stem \in Stems |-> a.selector])
          = InstallerKey(b, [stem \in Stems |-> a.selector])
    BY <1>2 DEF PackageRef, samePlugin, normalizePluginKey, IsOci, InstallerKey
  <2>2. a.selector \in Selectors
    BY <1>2 DEF PackageRef
  <2> QED BY <2>1, <2>2 DEF MayCollide
<1>3. CASE IsOci(a) /\ IsOci(b) /\ a.selector = NoSelector /\ b.selector # NoSelector
  <2>1. InstallerKey(a, [stem \in Stems |-> b.selector])
          = InstallerKey(b, [stem \in Stems |-> b.selector])
    BY <1>3 DEF PackageRef, samePlugin, normalizePluginKey, IsOci, InstallerKey
  <2>2. b.selector \in Selectors
    BY <1>3 DEF PackageRef
  <2> QED BY <2>1, <2>2 DEF MayCollide
<1>4. CASE IsOci(a) /\ IsOci(b) /\ a.selector = NoSelector /\ b.selector = NoSelector
  BY <1>1, <1>4 DEF PackageRef, samePlugin, normalizePluginKey, IsOci, InstallerKey,
                    MayCollide
<1>5. CASE ~ (IsOci(a) /\ IsOci(b))
  BY <1>1, <1>5 DEF PackageRef, samePlugin, normalizePluginKey, IsOci, InstallerKey,
                    MayCollide
<1> QED BY <1>2, <1>3, <1>4, <1>5 DEF PackageRef

-----------------------------------------------------------------------------
LEMMA MergeInit == Init => MergeInv
BY MergeAssumption DEF Init, MergeInv, MergeTypeOK, DocumentOK, OutputOK, Document,
                       NoDocument

LEMMA MergeNext == MergeInv /\ [Next]_vars => MergeInv'
<1> SUFFICES ASSUME MergeInv, [Next]_vars PROVE MergeInv'
  OBVIOUS
<1> USE DEF MergeInv, MergeTypeOK, DocumentOK, OutputOK
<1>1. CASE Prestep
  BY <1>1, MergeAssumption DEF Prestep
<1>2. CASE Refuse
  BY <1>2 DEF Refuse
<1>3. CASE Merge
  <2>1. extensionsPlugins' \in SUBSET ListEntry
    BY <1>3 DEF Merge, loadExtensionsPlugins
  <2>2. /\ operatorConfig \in SUBSET ListEntry
        /\ MergedExtras(operatorConfig, extensionsPlugins') \in SUBSET ListEntry
    BY <1>3, <2>1, MergeAssumption DEF Merge, MergedExtras
  <2>3. mergedDoc' \in Document
    BY <1>3, <2>2 DEF Merge, Document
  <2>4. MergeTypeOK'
    BY <1>3, <2>1, <2>3 DEF Merge
  <2>5. DocumentOK'
    BY <1>3 DEF Merge, MergedExtras, OperatorEntry
  <2>6. OutputOK'
    BY <1>3 DEF Merge
  <2> QED BY <2>4, <2>5, <2>6
<1>4. CASE FinishWrite
  BY <1>4 DEF FinishWrite
<1>5. CASE WriteThrows
  BY <1>5 DEF WriteThrows
<1>6. CASE CheckReadPath
  BY <1>6 DEF CheckReadPath
<1>7. CASE InstallPlugins
  BY <1>7 DEF InstallPlugins
<1>8. CASE WriteThrough
  BY <1>8, MergeAssumption DEF WriteThrough
<1>9. CASE Stop
  BY <1>9 DEF Stop, Document, NoDocument
<1>10. CASE Deploy
  BY <1>10 DEF Deploy
<1>11. CASE UNCHANGED vars
  BY <1>11 DEF vars
<1> QED BY <1>1, <1>2, <1>3, <1>4, <1>5, <1>6, <1>7, <1>8, <1>9, <1>10, <1>11 DEF Next

\* The state of the merge is well typed and its document follows from its inputs.
THEOREM MergeInvariant == Spec => []MergeInv
BY MergeInit, MergeNext, PTL DEF Spec

\* The state of the boot chain is well typed (main).
THEOREM MergeTypeCorrect == Spec => []MergeTypeOK
BY MergeInvariant, PTL DEF MergeInv

\* The installer runs only on what this boot has merged from the operator's
\* present document (the read-path check and the uncaught write error).
THEOREM InstallerReadsThisMerge == Spec => []InstallsThisBootsMerge
<1>1. MergeInv => InstallsThisBootsMerge
  BY DEF MergeInv, DocumentOK, OutputOK, InstallsThisBootsMerge
<1> QED BY <1>1, MergeInvariant, PTL

\* No Marketplace entry can collide with an operator entry in the installer, for
\* references of every kind and whatever plugin paths the images hold.
THEOREM OperatorAlwaysWins == Spec => []OperatorWins
<1>1. MergeInv => OperatorWins
  <2> SUFFICES ASSUME MergeInv, stage \in {"merged", "running"},
                      NEW o \in outFile.operator, NEW p \in outFile.extras,
                      o.package # NoRef
               PROVE  ~ MayCollide(o.package, p.package)
    BY DEF OperatorWins
  <2>1. /\ o \in operatorConfig
        /\ p \in MergedExtras(operatorConfig, extensionsPlugins)
        /\ operatorConfig \in SUBSET ListEntry
        /\ extensionsPlugins \in SUBSET ListEntry
    BY MergeAssumption DEF MergeInv, MergeTypeOK, DocumentOK, OutputOK
  <2>2. /\ p.package # NoRef
        /\ ~ samePlugin(o.package, p.package)
    BY <2>1 DEF MergedExtras, OperatorEntry
  <2>3. o.package \in PackageRef /\ p.package \in PackageRef
    BY <2>1, <2>2 DEF ListEntry, MergedExtras
  <2> QED BY <2>2, <2>3, DifferentPluginsNeverCollide
<1> QED BY <1>1, MergeInvariant, PTL

\* Without tarballs, a Marketplace entry is dropped only for an operator entry it
\* could collide with: the tarball key is the one place where the merge is wider.
THEOREM DropsOnlySamePluginWithoutTarballs ==
  ASSUME \A entries \in OperatorConfigs \cup ExtensionsFiles : \A e \in entries :
           e.package # NoRef => e.package.kind # "tarball",
         Selectors # {}
  PROVE  Spec => []DropsOnlySamePlugin
<1> DEFINE NoTarballs(entries) ==
      \A e \in entries : e.package # NoRef => e.package.kind # "tarball"
           NoTarballsInv == NoTarballs(extensionsPlugins)
                       /\ (extensionsFile # NoFile => NoTarballs(extensionsFile))
<1>1. Init => NoTarballsInv
  BY DEF Init
<1>2. NoTarballsInv /\ [Next]_vars => NoTarballsInv'
  BY DEF Next, vars, Prestep, Refuse, Merge, FinishWrite, WriteThrows, CheckReadPath,
         InstallPlugins, WriteThrough, Stop, Deploy, loadExtensionsPlugins
<1>3. MergeInv /\ NoTarballsInv => DropsOnlySamePlugin
  <2> SUFFICES ASSUME MergeInv, NoTarballsInv, stage = "check",
                      NEW p \in extensionsPlugins \ mergedDoc.extras,
                      p.package # NoRef
               PROVE  \E o \in mergedDoc.operator :
                        o.package # NoRef /\ MayCollide(o.package, p.package)
    BY DEF DropsOnlySamePlugin
  <2>1. /\ operatorConfig \in OperatorConfigs
        /\ mergedDoc.operator = operatorConfig
        /\ p \in ListEntry
        /\ p \notin MergedExtras(operatorConfig, extensionsPlugins)
    BY DEF MergeInv, MergeTypeOK, DocumentOK
  <2>2. PICK o \in operatorConfig : o.package # NoRef /\ samePlugin(o.package, p.package)
    BY <2>1 DEF MergedExtras, OperatorEntry
  <2>3. o.package \in PackageRef /\ p.package \in PackageRef
    BY <2>1, <2>2, MergeAssumption DEF ListEntry
  <2>4. o.package.kind # "tarball" /\ p.package.kind # "tarball"
    BY <2>1, <2>2
  <2> QED BY <2>1, <2>2, <2>3, <2>4, SamePluginMayCollide
<1> HIDE DEF NoTarballsInv
<1> QED BY <1>1, <1>2, <1>3, MergeInvariant, PTL DEF Spec

-----------------------------------------------------------------------------
(* Sets of indices have a first and a last element. *)

\* A set of numbers that is not empty has a least element.
LEMMA LeastIndex ==
  ASSUME NEW T \in SUBSET Nat, T # {}
  PROVE  \E m \in T : \A x \in T : m <= x
<1> DEFINE Less == OpToRel(<, Nat)
<1>1. IsWellFoundedOn(Less, Nat) /\ \A y, z \in Nat : y < z => <<y, z>> \in Less
  <2>1. Less = {ss \in Nat \X Nat : ss[1] < ss[2]}
    BY DEF OpToRel
  <2> QED
    BY <2>1, NatLessThanWellFounded
<1> HIDE DEF Less
<1>2. PICK m \in T : \A x \in T : ~ (<<x, m>> \in Less)
  <2>1. IsWellFoundedOn(Less, Nat) /\ T \subseteq Nat /\ T # {}
    BY <1>1
  <2> QED
    BY <2>1, WFMin, Zenon
<1>3. \A x \in T : x \in Nat /\ m \in Nat /\ ~ (x < m)
  BY <1>1, <1>2
<1> QED
  BY <1>3

\* A set of indices up to n that is not empty has a greatest element.
LEMMA GreatestIndex ==
  ASSUME NEW n \in Nat, NEW T \in SUBSET (1 .. n), T # {}
  PROVE  \E m \in T : \A x \in T : x <= m
<1> DEFINE D == {n - x : x \in T}
<1>1. D \in SUBSET Nat /\ D # {}
  <2>1. \A x \in T : n - x \in Nat
    OBVIOUS
  <2> QED
    BY <2>1
<1> HIDE DEF D
<1>2. PICK d \in D : \A y \in D : d <= y
  BY <1>1, LeastIndex
<1>3. PICK m \in T : d = n - m
  BY DEF D
<1>4. \A x \in T : n - m <= n - x
  BY <1>2, <1>3 DEF D
<1> QED
  BY <1>3, <1>4

-----------------------------------------------------------------------------
(* The report of the licensed users. *)

SignInRecords == UNION {[D -> [at : Nat, lifetime : Nat]] : D \in SUBSET Accounts}
ProfilesOf(entities) == {entities[i].profile : i \in DOMAIN entities}
Profiles == {Unset} \cup UNION {ProfilesOf(entities) : entities \in Catalogs}
ReportRow == [user : Accounts, lastAuthTime : Int, profile : Profiles]

LicensedTypeOK ==
  /\ now \in Nat
  /\ config \in [lifetime : Lifetimes, inMemory : BOOLEAN]
  /\ userInfo \in UNION {[D -> Nat] : D \in SUBSET Accounts}
  /\ signedIn \in SignInRecords
  /\ userEntities \in Catalogs
  /\ request \in [at : {"idle", "rows", "catalog", "answered"}, users : SUBSET ReportRow,
                  signIns : SignInRecords, entities : Catalogs \cup {<<>>}]

\* A row of user_info is the time of a sign-in and the lifetime of then.
RowsOK ==
  /\ DOMAIN userInfo = DOMAIN signedIn
  /\ \A u \in DOMAIN signedIn : userInfo[u] = signedIn[u].at + signedIn[u].lifetime

\* What a request has read belongs together.
RequestOK ==
  request.at \in {"catalog", "answered"} =>
    /\ {row.user : row \in request.users} = DOMAIN request.signIns
    /\ \A row \in request.users :
         row.lastAuthTime = request.signIns[row.user].at + request.signIns[row.user].lifetime
                              - readBackstageTokenExpiration

\* The profile of a row is one of the entities that were read, or of none.
ProfilesOK ==
  request.at = "answered" =>
    \A row \in request.users :
      row.user.namespace = "default" /\ EntitiesNamed(row.user.name) # {} =>
        \E entity \in EntitiesNamed(row.user.name) : row.profile = entity.profile

LicensedInv == LicensedTypeOK /\ RowsOK /\ RequestOK /\ ProfilesOK

\* What startTokenExpiration makes of the configuration is a number.
LEMMA LifetimeTyped ==
  ASSUME LicensedTypeOK
  PROVE  /\ AuthLifetime(config.lifetime) \in Nat
         /\ readBackstageTokenExpiration = AuthLifetime(config.lifetime)
<1>1. config.lifetime = Unset \/ config.lifetime \in Nat
  BY LifetimesAssumption DEF LicensedTypeOK
<1>2. readBackstageTokenExpiration = AuthLifetime(config.lifetime)
  BY DEF AuthLifetime, readBackstageTokenExpiration
<1>3. AuthLifetime(config.lifetime) \in Nat
  BY <1>1 DEF AuthLifetime, DefaultLifetime, MinLifetime, MaxLifetime
<1> QED
  BY <1>2, <1>3

\* What a request has read depends on the request and the configuration only.
LEMMA RequestAlone ==
  ASSUME RequestOK, ProfilesOK, UNCHANGED <<config, request>>
  PROVE  RequestOK' /\ ProfilesOK'
<1>1. readBackstageTokenExpiration' = readBackstageTokenExpiration
  BY DEF readBackstageTokenExpiration
<1>2. \A name : EntitiesNamed(name)' = EntitiesNamed(name)
  BY DEF EntitiesNamed
<1>3. RequestOK'
  BY <1>1 DEF RequestOK
<1> QED
  BY <1>2, <1>3 DEF ProfilesOK

LEMMA LicensedInitially == LicensedInit => LicensedInv
<1> SUFFICES ASSUME LicensedInit PROVE LicensedInv
  OBVIOUS
<1>1. NoRows \in [{} -> Nat] /\ NoRows \in [{} -> [at : Nat, lifetime : Nat]] /\ DOMAIN NoRows = {}
  BY DEF NoRows
<1>2. LicensedTypeOK
  BY <1>1 DEF LicensedInit, LicensedTypeOK, Idle, SignInRecords
<1> QED
  BY <1>1, <1>2 DEF LicensedInit, LicensedInv, RowsOK, RequestOK, ProfilesOK, Idle

LEMMA SignsInKeepsInv ==
  ASSUME LicensedInv, NEW u \in Accounts, SignsIn(u)
  PROVE  LicensedInv'
<1>1. AuthLifetime(config.lifetime) \in Nat
  BY LifetimeTyped DEF LicensedInv
<1> DEFINE D == DOMAIN signedIn \cup {u}
<1>2. DOMAIN userInfo = DOMAIN signedIn /\ D \in SUBSET Accounts
  BY DEF LicensedInv, LicensedTypeOK, RowsOK, SignInRecords
<1>3. now \in Nat /\ \A v \in DOMAIN signedIn : userInfo[v] \in Nat
                                                /\ signedIn[v] \in [at : Nat, lifetime : Nat]
  BY DEF LicensedInv, LicensedTypeOK, RowsOK, SignInRecords
<1>4. userInfo' \in [D -> Nat] /\ signedIn' \in [D -> [at : Nat, lifetime : Nat]]
  BY <1>1, <1>2, <1>3 DEF SignsIn
<1>5. LicensedTypeOK'
  BY <1>2, <1>4 DEF LicensedInv, LicensedTypeOK, SignsIn, SignInRecords
<1>6. RowsOK'
  BY <1>1, <1>2, <1>3 DEF SignsIn, LicensedInv, RowsOK
<1>7. RequestOK' /\ ProfilesOK'
  BY RequestAlone DEF SignsIn, LicensedInv
<1> QED
  BY <1>5, <1>6, <1>7 DEF LicensedInv

LEMMA RedeployKeepsInv ==
  ASSUME LicensedInv, NEW lifetime \in Lifetimes, Redeploy(lifetime)
  PROVE  LicensedInv'
<1>1. NoRows \in [{} -> Nat] /\ NoRows \in [{} -> [at : Nat, lifetime : Nat]] /\ DOMAIN NoRows = {}
  BY DEF NoRows
<1>2. config' \in [lifetime : Lifetimes, inMemory : BOOLEAN]
  BY DEF LicensedInv, LicensedTypeOK, Redeploy
<1>3. LicensedTypeOK'
  BY <1>1, <1>2 DEF LicensedInv, LicensedTypeOK, Redeploy, SignInRecords, Idle
<1>4. RowsOK'
  BY <1>1 DEF LicensedInv, RowsOK, Redeploy
<1> QED
  BY <1>3, <1>4 DEF LicensedInv, RequestOK, ProfilesOK, Redeploy, Idle

LEMMA ReadRowsKeepsInv ==
  ASSUME LicensedInv, ReadRows
  PROVE  LicensedInv'
<1>1. readBackstageTokenExpiration \in Nat
  BY LifetimeTyped DEF LicensedInv
<1>2. \A u \in DOMAIN userInfo : rowToResponse(u) \in ReportRow
  BY <1>1 DEF LicensedInv, LicensedTypeOK, ReportRow, rowToResponse, Profiles
<1>3. /\ request'.at = "catalog" /\ request'.signIns = signedIn
      /\ request'.users = {rowToResponse(u) : u \in DOMAIN userInfo}
      /\ request' \in [at : {"idle", "rows", "catalog", "answered"}, users : SUBSET ReportRow,
                       signIns : SignInRecords, entities : Catalogs \cup {<<>>}]
  BY <1>2 DEF LicensedInv, LicensedTypeOK, ReadRows
<1>4. LicensedTypeOK' /\ RowsOK'
  BY <1>3 DEF LicensedInv, LicensedTypeOK, RowsOK, ReadRows
<1>5. RequestOK'
  <2>1. \A u \in DOMAIN userInfo : /\ rowToResponse(u).user = u
                                   /\ rowToResponse(u).lastAuthTime =
                                        userInfo[u] - readBackstageTokenExpiration
    BY DEF rowToResponse
  <2>2. readBackstageTokenExpiration' = readBackstageTokenExpiration
    BY DEF ReadRows, readBackstageTokenExpiration
  <2>3. {row.user : row \in request'.users} = DOMAIN request'.signIns
    <3>1. \A row \in request'.users : row.user \in DOMAIN userInfo
      BY <1>3, <2>1
    <3>2. \A u \in DOMAIN userInfo : \E row \in request'.users : row.user = u
      BY <1>3, <2>1
    <3>3. DOMAIN userInfo = DOMAIN request'.signIns
      BY <1>3 DEF LicensedInv, RowsOK
    <3> QED
      BY <3>1, <3>2, <3>3
  <2>4. ASSUME NEW row \in request'.users
        PROVE  row.lastAuthTime = request'.signIns[row.user].at
                                    + request'.signIns[row.user].lifetime
                                    - readBackstageTokenExpiration
    <3>1. PICK u \in DOMAIN userInfo : row = rowToResponse(u)
      BY <1>3
    <3>2. userInfo[u] = signedIn[u].at + signedIn[u].lifetime
      BY DEF LicensedInv, RowsOK
    <3>3. row.user = u /\ row.lastAuthTime = userInfo[u] - readBackstageTokenExpiration
      BY <2>1, <3>1
    <3>4. request'.signIns = signedIn
      BY <1>3
    <3>5. signedIn[u] \in [at : Nat, lifetime : Nat]
      BY DEF LicensedInv, LicensedTypeOK, RowsOK, SignInRecords
    <3> QED
      BY <1>1, <3>2, <3>3, <3>4, <3>5
  <2> QED
    BY <2>2, <2>3, <2>4 DEF RequestOK
<1> QED
  BY <1>3, <1>4, <1>5 DEF LicensedInv, ProfilesOK

\* The profile of a row is that of an entity of its name, when there is one.
LEMMA ProfileIsRead ==
  ASSUME LicensedTypeOK, NEW u
  PROVE  LET named == {i \in DOMAIN userEntities : userEntities[i].user.name = u.name}
         IN  /\ profileOf(u) \in Profiles
             /\ u.namespace = "default" /\ named # {} =>
                  \E i \in named : profileOf(u) = userEntities[i].profile
<1> DEFINE named == {i \in DOMAIN userEntities : userEntities[i].user.name = u.name}
           last == CHOOSE i \in named : \A j \in named : j <= i
<1>1. named # {} => last \in named
  <2> SUFFICES ASSUME named # {} PROVE last \in named
    OBVIOUS
  <2>1. Len(userEntities) \in Nat /\ named \in SUBSET (1 .. Len(userEntities))
    BY CatalogsAssumption DEF LicensedTypeOK
  <2> HIDE DEF named
  <2>2. \E i \in named : \A j \in named : j <= i
    BY <2>1, GreatestIndex
  <2> QED
    BY <2>2
<1>2. profileOf(u) = IF u.namespace # "default" \/ named = {} THEN Unset
                     ELSE userEntities[last].profile
  BY DEF profileOf
<1>3. \A i \in DOMAIN userEntities : userEntities[i].profile \in Profiles
  <2>1. \A i \in DOMAIN userEntities : userEntities[i].profile \in ProfilesOf(userEntities)
    BY DEF ProfilesOf
  <2>2. ProfilesOf(userEntities) \subseteq Profiles
    BY DEF LicensedTypeOK, Profiles
  <2> QED
    BY <2>1, <2>2
<1>4. Unset \in Profiles /\ \A i \in named : i \in DOMAIN userEntities
  BY DEF Profiles
<1> HIDE DEF named, last
<1>5. /\ profileOf(u) \in Profiles
      /\ u.namespace = "default" /\ named # {} =>
           \E i \in named : profileOf(u) = userEntities[i].profile
  BY <1>1, <1>2, <1>3, <1>4
<1> QED
  BY <1>5 DEF named

LEMMA GetUserEntitiesKeepsInv ==
  ASSUME LicensedInv, GetUserEntities
  PROVE  LicensedInv'
<1> DEFINE With(row) == [row EXCEPT !.profile = profileOf(row.user)]
<1>1. \A row \in request.users :
        /\ With(row) \in ReportRow /\ With(row).user = row.user
        /\ With(row).lastAuthTime = row.lastAuthTime /\ With(row).profile = profileOf(row.user)
  <2> SUFFICES ASSUME NEW row \in request.users
               PROVE  /\ With(row) \in ReportRow /\ With(row).user = row.user
                      /\ With(row).lastAuthTime = row.lastAuthTime
                      /\ With(row).profile = profileOf(row.user)
    OBVIOUS
  <2>1. profileOf(row.user) \in Profiles
    BY ProfileIsRead DEF LicensedInv
  <2>2. row \in ReportRow
    BY DEF LicensedInv, LicensedTypeOK
  <2> QED
    BY <2>1, <2>2 DEF ReportRow
<1>2. /\ request'.at = "answered" /\ request'.signIns = request.signIns
      /\ request'.users = {With(row) : row \in request.users}
      /\ request'.entities = userEntities
  BY DEF LicensedInv, LicensedTypeOK, GetUserEntities
<1>3. request' = [request EXCEPT !.at = "answered", !.entities = userEntities,
                                 !.users = {With(row) : row \in request.users}]
  BY DEF GetUserEntities
<1> HIDE DEF With
<1>4. request' \in [at : {"idle", "rows", "catalog", "answered"}, users : SUBSET ReportRow,
                    signIns : SignInRecords, entities : Catalogs \cup {<<>>}]
  <2>1. {With(row) : row \in request.users} \in SUBSET ReportRow
    BY <1>1
  <2> QED
    BY <1>3, <2>1 DEF LicensedInv, LicensedTypeOK
<1>5. LicensedTypeOK' /\ RowsOK'
  BY <1>4 DEF LicensedInv, LicensedTypeOK, RowsOK, GetUserEntities
<1>6. RequestOK'
  <2>1. request.at = "catalog" /\ readBackstageTokenExpiration' = readBackstageTokenExpiration
    BY DEF GetUserEntities, readBackstageTokenExpiration
  <2>2. {row.user : row \in request'.users} = {row.user : row \in request.users}
    BY <1>1, <1>2
  <2> QED
    BY <1>1, <1>2, <2>1, <2>2 DEF LicensedInv, RequestOK
<1>7. ProfilesOK'
  <2> SUFFICES ASSUME NEW old \in request.users,
                      old.user.namespace = "default", EntitiesNamed(old.user.name)' # {}
               PROVE  \E entity \in EntitiesNamed(old.user.name)' :
                        profileOf(old.user) = entity.profile
    BY <1>1, <1>2 DEF ProfilesOK
  <2> DEFINE named == {i \in DOMAIN userEntities : userEntities[i].user.name = old.user.name}
  <2>1. EntitiesNamed(old.user.name)' = {userEntities[i] : i \in named}
    BY <1>2 DEF EntitiesNamed
  <2>2. \E i \in named : profileOf(old.user) = userEntities[i].profile
    BY <2>1, ProfileIsRead DEF LicensedInv
  <2> QED
    BY <2>1, <2>2
<1> QED
  BY <1>5, <1>6, <1>7 DEF LicensedInv

LEMMA LicensedStep ==
  ASSUME LicensedInv, [LicensedNext]_licensed
  PROVE  LicensedInv'
<1> USE DEF LicensedInv
<1>1. ASSUME Tick PROVE LicensedInv'
  BY <1>1 DEF Tick, LicensedTypeOK, RowsOK, RequestOK, ProfilesOK, EntitiesNamed,
              readBackstageTokenExpiration
<1>2. ASSUME NEW entities \in Catalogs, EditUserEntities(entities) PROVE LicensedInv'
  BY <1>2 DEF EditUserEntities, LicensedTypeOK, RowsOK, RequestOK, ProfilesOK, EntitiesNamed,
              readBackstageTokenExpiration
<1>3. ASSUME Ask PROVE LicensedInv'
  BY <1>3 DEF Ask, LicensedTypeOK, RowsOK, RequestOK, ProfilesOK
<1>4. ASSUME RequestEnds PROVE LicensedInv'
  <2>1. NoRows \in [{} -> [at : Nat, lifetime : Nat]]
    BY DEF NoRows
  <2> QED
    BY <1>4, <2>1 DEF RequestEnds, Idle, LicensedTypeOK, RowsOK, RequestOK, ProfilesOK, SignInRecords
<1>5. ASSUME UNCHANGED licensed PROVE LicensedInv'
  BY <1>5 DEF licensed, LicensedTypeOK, RowsOK, RequestOK, ProfilesOK, EntitiesNamed,
              readBackstageTokenExpiration
<1> QED
  BY <1>1, <1>2, <1>3, <1>4, <1>5, SignsInKeepsInv, RedeployKeepsInv, ReadRowsKeepsInv,
     GetUserEntitiesKeepsInv DEF LicensedNext

\* The state of the licensed users backend is well typed, whatever accounts sign in,
\* whatever the catalog holds and however often the pod is deployed anew.
THEOREM LicensedTypeCorrect == LicensedSpec => []LicensedTypeOK
<1>1. LicensedInv => LicensedTypeOK
  BY DEF LicensedInv
<1> QED
  BY <1>1, LicensedInitially, LicensedStep, PTL DEF LicensedSpec

\* The report of the licensed users names exactly the accounts that had signed in when
\* its rows were read, with the time of their last sign-in as long as the configured
\* lifetime is the one it was stored with, and with the profile of the entity that is
\* the only one of its name: for any accounts, catalogs and lifetimes, and whoever signs
\* in or is edited while the request waits.
THEOREM ReportNamesWhoSignedIn == LicensedSpec => []ReportIsTrue
<1>1. LicensedInv => ReportIsTrue
  <2> SUFFICES ASSUME LicensedInv, request.at = "answered"
               PROVE  /\ {row.user : row \in request.users} = DOMAIN request.signIns
                      /\ \A row \in request.users :
                           LET signIn == request.signIns[row.user] IN
                           /\ signIn.lifetime = AuthLifetime(config.lifetime) =>
                                row.lastAuthTime = signIn.at
                           /\ \A entity \in EntitiesNamed(row.user.name) :
                                /\ entity.user = row.user
                                /\ entity.user.namespace = "default"
                                /\ EntitiesNamed(row.user.name) = {entity}
                                => row.profile = entity.profile
    BY DEF ReportIsTrue
  <2>1. {row.user : row \in request.users} = DOMAIN request.signIns
    BY DEF LicensedInv, RequestOK
  <2>2. ASSUME NEW row \in request.users
        PROVE  request.signIns[row.user].lifetime = AuthLifetime(config.lifetime) =>
                 row.lastAuthTime = request.signIns[row.user].at
    <3>1. request.signIns[row.user] \in [at : Nat, lifetime : Nat]
      BY <2>1 DEF LicensedInv, LicensedTypeOK, SignInRecords
    <3>2. row.lastAuthTime = request.signIns[row.user].at + request.signIns[row.user].lifetime
                              - readBackstageTokenExpiration
      BY DEF LicensedInv, RequestOK
    <3> QED
      BY <3>1, <3>2, LifetimeTyped DEF LicensedInv
  <2>3. ASSUME NEW row \in request.users, NEW entity \in EntitiesNamed(row.user.name),
               entity.user = row.user, entity.user.namespace = "default",
               EntitiesNamed(row.user.name) = {entity}
        PROVE  row.profile = entity.profile
    BY <2>3 DEF LicensedInv, ProfilesOK
  <2> QED
    BY <2>1, <2>2, <2>3
<1> QED
  BY <1>1, LicensedInitially, LicensedStep, PTL DEF LicensedSpec

-----------------------------------------------------------------------------
(* The start of the backend. *)

FoldersOnNode == {packages[i].folder : i \in {i \in Indices : OnNode(i)}}

BackendTypeOK ==
  /\ environment \in Environments
  /\ packages \in Installations
  /\ phase \in {"adding", "loading", "starting", "running", "failed"}
  /\ DOMAIN services = Services
  /\ features \subseteq OwnFeatures \cup FoldersOnNode
  /\ DOMAIN resolved \subseteq Indices

\* Before the packages' turn the portal provides what the environment leaves it.
AddingOK ==
  /\ phase = "adding" => \A id \in Services : services[id] = "backstage"
  /\ phase = "loading" =>
       /\ features = StaticFeatures
       /\ \A id \in Services :
            services[id] = IF id \in environment.overrides THEN "backstage" ELSE "portal"

\* A plugin that is no longer to be initialized has told what it has to tell.
ToldOK ==
  phase \in {"starting", "running"} =>
    /\ "scalprum" \notin features => WebPluginsServed
    /\ "permission" \notin features => BackendPluginsKnown
    /\ "nfs-module-filter" \notin features => EntryPointsExposed

StartedOK ==
  /\ phase \in {"starting", "running"} => ServicesAsAllowed
  /\ phase = "running" => features = {}
  /\ phase = "failed" => HasCause

BackendInv == BackendTypeOK /\ AddingOK /\ ToldOK /\ StartedOK /\ WrappersFindTheirs

\* First picks the least of a set of indices.
LEMMA FirstIsLeast ==
  ASSUME NEW T \in SUBSET Nat, T # {}
  PROVE  First(T) \in T /\ \A x \in T : First(T) <= x
<1>1. \E m \in T : \A x \in T : m <= x
  BY LeastIndex
<1> QED
  BY <1>1 DEF First

LEMMA IndicesAreNumbers ==
  ASSUME BackendTypeOK
  PROVE  Indices \in SUBSET Nat /\ \A i \in Indices : i >= 1
BY InstallationsAssumption DEF BackendTypeOK, Indices

\* The scanned package of a name and version is the first installed under them.
LEMMA PackageIsFirstOfItsName ==
  ASSUME BackendTypeOK, NEW i \in Indices
  PROVE  /\ PackageOf(i) \in Indices
         /\ packages[PackageOf(i)].name = packages[i].name
         /\ packages[PackageOf(i)].version = packages[i].version
         /\ FirstOfItsName(i) => PackageOf(i) = i
<1> DEFINE T == {j \in Indices : packages[j].name = packages[i].name
                                   /\ packages[j].version = packages[i].version}
<1>1. T \in SUBSET Nat /\ i \in T
  BY IndicesAreNumbers
<1>2. PackageOf(i) = First(T)
  BY DEF PackageOf
<1>3. First(T) \in T /\ First(T) <= i
  <2> HIDE DEF T
  <2> QED
    BY <1>1, FirstIsLeast
<1>4. ASSUME FirstOfItsName(i) PROVE First(T) = i
  <2>1. First(T) \in Nat /\ First(T) >= 1 /\ i \in Nat
    BY <1>3, IndicesAreNumbers
  <2>2. ~ (First(T) \in 1 .. (i - 1))
    BY <1>3, <1>4 DEF FirstOfItsName
  <2> QED
    BY <1>3, <2>1, <2>2
<1> QED
  BY <1>2, <1>3, <1>4

LEMMA BackendInitially == BackendInit => BackendInv
<1> SUFFICES ASSUME BackendInit PROVE BackendInv
  OBVIOUS
<1>1. BackendTypeOK
  BY DEF BackendInit, BackendTypeOK
<1>2. WrappersFindTheirs
  BY DEF BackendInit, WrappersFindTheirs
<1> QED
  BY <1>1, <1>2 DEF BackendInit, BackendInv, AddingOK, ToldOK, StartedOK

LEMMA AddStaticallyKeepsInv ==
  ASSUME BackendInv, AddStatically
  PROVE  BackendInv'
<1>1. StaticFeatures \subseteq OwnFeatures /\ StaticFeatures' = StaticFeatures
  BY DEF StaticFeatures, OwnFeatures, AddStatically
<1>2. BackendTypeOK'
  BY <1>1 DEF BackendInv, BackendTypeOK, AddStatically, Indices, FoldersOnNode, OnNode, told
<1>3. AddingOK'
  BY <1>1 DEF BackendInv, AddingOK, AddStatically, getDefaultServiceFactories
<1>4. WrappersFindTheirs'
  BY DEF BackendInv, AddStatically, told, WrappersFindTheirs, Indices
<1> QED
  BY <1>2, <1>3, <1>4 DEF AddStatically, BackendInv, ToldOK, StartedOK

LEMMA RunFeatureLoadersKeepsInv ==
  ASSUME BackendInv, RunFeatureLoaders
  PROVE  BackendInv'
<1> DEFINE open == {id \in Services : services[id] = "backstage" /\ Providers(id) # {}}
           clash == \E id \in open : \E i, j \in Providers(id) : i # j
<1>1. /\ phase = "loading" /\ features = StaticFeatures
      /\ \A id \in Services :
           services[id] = IF id \in environment.overrides THEN "backstage" ELSE "portal"
      /\ UNCHANGED <<environment, packages, told>>
  BY DEF BackendInv, AddingOK, RunFeatureLoaders
<1>2. /\ Indices' = Indices /\ \A i : OnNode(i)' = OnNode(i) /\ OnWeb(i)' = OnWeb(i)
      /\ FoldersOnNode' = FoldersOnNode /\ \A id : Providers(id)' = Providers(id)
      /\ StaticFeatures' = StaticFeatures
  BY <1>1 DEF Indices, OnNode, OnWeb, FoldersOnNode, Providers, StaticFeatures
<1>3. WrappersFindTheirs'
  BY <1>1, <1>2 DEF BackendInv, told, WrappersFindTheirs
<1>4. CASE InvalidPersistence \/ clash
  <2>1. phase' = "failed" /\ UNCHANGED <<services, features>>
    BY <1>4 DEF RunFeatureLoaders
  <2>2. BackendTypeOK'
    BY <1>1, <1>2, <2>1 DEF BackendInv, BackendTypeOK, told
  <2>3. HasCause
    <3>1. CASE InvalidPersistence
      BY <3>1 DEF HasCause, InvalidPersistence
    <3>2. CASE clash
      <4>1. PICK id \in open : \E i, j \in Providers(id) : i # j
        BY <3>2
      <4>2. PICK i \in Providers(id), j \in Providers(id) : i # j
        BY <4>1
      <4>3. id \in environment.overrides
        BY <1>1
      <4>4. i \in Indices /\ j \in Indices
        BY DEF Providers
      <4> QED
        BY <4>2, <4>3, <4>4 DEF HasCause
    <3> QED
      BY <1>4, <3>1, <3>2
  <2>4. HasCause'
    BY <1>1, <1>2, <2>3 DEF HasCause
  <2> QED
    BY <1>3, <2>1, <2>2, <2>4 DEF BackendInv, AddingOK, ToldOK, StartedOK
<1>5. CASE ~ (InvalidPersistence \/ clash)
  <2>1. /\ phase' = "starting"
        /\ services' = [id \in Services |->
                          IF id \in open THEN packages[CHOOSE i \in Providers(id) : TRUE].folder
                          ELSE services[id]]
        /\ features' = features \cup userSettings \cup FoldersOnNode
    BY <1>5 DEF RunFeatureLoaders, FoldersOnNode
  <2>2. features' \subseteq OwnFeatures \cup FoldersOnNode
    BY <1>1, <2>1 DEF StaticFeatures, OwnFeatures, userSettings
  <2>3. BackendTypeOK'
    BY <1>1, <1>2, <2>1, <2>2 DEF BackendInv, BackendTypeOK, told
  <2>4. ServicesAsAllowed'
    <3>1. ASSUME NEW id \in Services
          PROVE  IF id \notin environment.overrides THEN services'[id] = "portal"
                 ELSE IF Providers(id) = {} THEN services'[id] = "backstage"
                 ELSE \E i \in Providers(id) : services'[id] = packages[i].folder
      BY <1>1, <2>1
    <3> QED
      BY <1>1, <1>2, <3>1 DEF ServicesAsAllowed
  <2>5. {"scalprum", "permission"} \subseteq features'
        /\ (environment.federation => "nfs-module-filter" \in features')
    BY <1>1, <2>1 DEF StaticFeatures
  <2>6. ToldOK'
    BY <1>1, <2>5 DEF ToldOK, EntryPointsExposed
  <2> QED
    BY <1>3, <2>1, <2>3, <2>4, <2>6 DEF BackendInv, AddingOK, StartedOK
<1> QED
  BY <1>4, <1>5

-----------------------------------------------------------------------------
(* The plugins initialize. *)

\* The Scalprum backend serves the first frontend package of every name it finds.
LEMMA WebPluginsAreServed ==
  ASSUME BackendTypeOK, ServeScalprum, UNCHANGED packages
  PROVE  WebPluginsServed'
<1> SUFFICES ASSUME NEW i \in Indices, OnWeb(i), FirstOfItsName(i), packages[i].manifest # Missing
             PROVE  /\ packages[i].manifest \in DOMAIN served'
                    /\ \E j \in Indices :
                         /\ packages[j].manifest = packages[i].manifest
                         /\ served'[packages[i].manifest] = packages[j].folder
  BY DEF WebPluginsServed, OnWeb, FirstOfItsName, Indices
<1> DEFINE name == packages[i].manifest
           T == {k \in Indices : OnWeb(k) /\ packages[PackageOf(k)].manifest = name}
<1>1. PackageOf(i) = i
  BY PackageIsFirstOfItsName
<1>2. name \in Manifests
  BY <1>1 DEF Manifests
<1>3. name \in DOMAIN served' /\ served'[name] = packages[PackageOf(First(T))].folder
  BY <1>2 DEF ServeScalprum
<1>4. First(T) \in T
  <2>1. T \in SUBSET Nat /\ i \in T
    BY <1>1, IndicesAreNumbers
  <2> HIDE DEF T
  <2> QED
    BY <2>1, FirstIsLeast
<1>5. PackageOf(First(T)) \in Indices /\ packages[PackageOf(First(T))].manifest = name
  BY <1>4, PackageIsFirstOfItsName
<1> QED
  BY <1>3, <1>5

\* The RBAC backend is told the id of every backend plugin of a known style.
LEMMA BackendPluginsAreKnown ==
  ASSUME TellRbac, UNCHANGED packages
  PROVE  BackendPluginsKnown'
<1> SUFFICES ASSUME NEW i \in Indices, packages[i].role = "backend-plugin",
                    packages[i].name.style \in KnownStyles,
                    packages[i].name.suffix = "-backend-dynamic"
             PROVE  Plain(packages[i].name.id) \in pluginIds'
  BY DEF BackendPluginsKnown, Indices
<1>1. IdOf(packages[i].name) = Plain(packages[i].name.id)
  BY DEF IdOf, Plain
<1>2. IdOf(packages[i].name) \in pluginIds'
  BY DEF TellRbac
<1> QED
  BY <1>1, <1>2

\* The module filter keeps exactly the entry points of the kinds it knows.
LEMMA EntryPointsAreExposed ==
  ASSUME FilterModules, UNCHANGED <<packages, environment>>
  PROVE  EntryPointsExposed'
<1> SUFFICES ASSUME NEW i \in Indices, OnWeb(i), packages[i].features # Missing,
                    NEW mod \in packages[i].exposed \cap DOMAIN packages[i].features
             PROVE  mod \in remotes'[i] <=> packages[i].features[mod] \in NfsFeatures
  BY DEF EntryPointsExposed, Indices, OnWeb
<1>1. remotes'[i] = kept(i)
  BY DEF FilterModules
<1>2. mod \in kept(i) <=> packages[i].features[mod] \in NfsFeatures
  BY DEF kept
<1> QED
  BY <1>1, <1>2

\* What a feature that has initialized leaves as it was.
LEMMA RestStays ==
  ASSUME UNCHANGED <<environment, packages, services>>
  PROVE  /\ BackendTypeOK => FoldersOnNode' = FoldersOnNode
         /\ ServicesAsAllowed => ServicesAsAllowed'
         /\ WebPluginsServed /\ UNCHANGED served => WebPluginsServed'
         /\ BackendPluginsKnown /\ UNCHANGED pluginIds => BackendPluginsKnown'
         /\ EntryPointsExposed /\ UNCHANGED remotes => EntryPointsExposed'
         /\ WrappersFindTheirs /\ UNCHANGED resolved => WrappersFindTheirs'
         /\ HasCause => HasCause'
<1>1. /\ Indices' = Indices /\ \A i : OnNode(i)' = OnNode(i) /\ OnWeb(i)' = OnWeb(i)
      /\ \A id : Providers(id)' = Providers(id)
      /\ \A i : FirstOfItsName(i)' = FirstOfItsName(i)
  BY DEF Indices, OnNode, OnWeb, Providers, FirstOfItsName
<1>2. FoldersOnNode' = FoldersOnNode
  BY <1>1 DEF FoldersOnNode
<1>3. ServicesAsAllowed => ServicesAsAllowed'
  BY <1>1 DEF ServicesAsAllowed
<1>4. WebPluginsServed /\ UNCHANGED served => WebPluginsServed'
  BY <1>1 DEF WebPluginsServed
<1>5. BackendPluginsKnown /\ UNCHANGED pluginIds => BackendPluginsKnown'
  BY <1>1 DEF BackendPluginsKnown
<1>6. EntryPointsExposed /\ UNCHANGED remotes => EntryPointsExposed'
  BY <1>1 DEF EntryPointsExposed
<1>7. WrappersFindTheirs /\ UNCHANGED resolved => WrappersFindTheirs'
  BY <1>1 DEF WrappersFindTheirs
<1>8. HasCause => HasCause'
  BY <1>1 DEF HasCause
<1> QED
  BY <1>2, <1>3, <1>4, <1>5, <1>6, <1>7, <1>8

\* A feature that has initialized keeps the invariant when it told what it had to tell.
LEMMA InitializedKeepsInv ==
  ASSUME BackendInv, phase = "starting", NEW feature, Initialized(feature),
         feature = "scalprum" => WebPluginsServed',
         feature # "scalprum" => UNCHANGED served,
         feature = "permission" => BackendPluginsKnown',
         feature # "permission" => UNCHANGED pluginIds,
         feature = "nfs-module-filter" => EntryPointsExposed',
         feature # "nfs-module-filter" => UNCHANGED remotes,
         WrappersFindTheirs', DOMAIN resolved' \subseteq Indices
  PROVE  BackendInv'
<1>1. /\ UNCHANGED <<environment, packages, services>>
      /\ features' = features \ {feature}
      /\ phase' \in {"starting", "running"} /\ (phase' = "running" => features' = {})
  BY DEF Initialized
<1>2. BackendTypeOK'
  <2>1. FoldersOnNode' = FoldersOnNode /\ Indices' = Indices
    BY <1>1, RestStays DEF BackendInv, Indices
  <2> QED
    BY <1>1, <2>1 DEF BackendInv, BackendTypeOK
<1>3. ServicesAsAllowed'
  BY <1>1, RestStays DEF BackendInv, StartedOK
<1>4. "scalprum" \notin features' => WebPluginsServed'
  BY <1>1, RestStays DEF BackendInv, ToldOK
<1>5. "permission" \notin features' => BackendPluginsKnown'
  BY <1>1, RestStays DEF BackendInv, ToldOK
<1>6. "nfs-module-filter" \notin features' => EntryPointsExposed'
  BY <1>1, RestStays DEF BackendInv, ToldOK
<1> QED
  BY <1>1, <1>2, <1>3, <1>4, <1>5, <1>6 DEF BackendInv, AddingOK, ToldOK, StartedOK

\* A start that fails keeps the invariant when the failure has a cause.
LEMMA FailedKeepsInv ==
  ASSUME BackendInv, Failed, HasCause
  PROVE  BackendInv'
<1>1. /\ UNCHANGED <<environment, packages, services, features, told>> /\ phase' = "failed"
  BY DEF Failed
<1>2. WrappersFindTheirs' /\ HasCause' /\ FoldersOnNode' = FoldersOnNode /\ Indices' = Indices
  BY <1>1, RestStays DEF BackendInv, told, Indices
<1>3. BackendTypeOK'
  BY <1>1, <1>2 DEF BackendInv, BackendTypeOK, told
<1> QED
  BY <1>1, <1>2, <1>3 DEF BackendInv, AddingOK, ToldOK, StartedOK

LEMMA InitializeKeepsInv ==
  ASSUME BackendInv, NEW feature \in StaticFeatures \cup userSettings, Initialize(feature)
  PROVE  BackendInv'
<1>1. phase = "starting"
  BY DEF Initialize
<1>2. BackendTypeOK /\ WrappersFindTheirs /\ DOMAIN resolved \subseteq Indices
  BY DEF BackendInv, BackendTypeOK
<1>3. CASE feature = "scalprum"
  <2>1. CASE ~ ScalprumFails
    <3>1. /\ ServeScalprum /\ UNCHANGED <<loadedPlugins, pluginIds, remotes, resolved>>
          /\ Initialized(feature)
      BY <1>3, <2>1 DEF Initialize
    <3>2. WebPluginsServed' /\ WrappersFindTheirs'
      BY <1>2, <3>1, WebPluginsAreServed, RestStays DEF Initialized
    <3> QED
      BY <1>1, <1>2, <1>3, <3>1, <3>2, InitializedKeepsInv
  <2>2. CASE ScalprumFails
    <3>1. PICK i \in Indices : OnWeb(i) /\ packages[PackageOf(i)].manifest = "not JSON"
      BY <2>2 DEF ScalprumFails, Manifests
    <3>2. HasCause
      BY <1>2, <3>1, PackageIsFirstOfItsName DEF HasCause
    <3> QED
      BY <1>3, <2>2, <3>2, FailedKeepsInv DEF Initialize
  <2> QED
    BY <2>1, <2>2
<1>4. CASE feature = "permission"
  <2>1. /\ TellRbac /\ UNCHANGED <<served, loadedPlugins, remotes, resolved>>
        /\ Initialized(feature)
    BY <1>4 DEF Initialize
  <2>2. BackendPluginsKnown' /\ WrappersFindTheirs'
    BY <1>2, <2>1, BackendPluginsAreKnown, RestStays DEF Initialized
  <2> QED
    BY <1>1, <1>2, <1>4, <2>1, <2>2, InitializedKeepsInv
<1>5. CASE feature = "nfs-module-filter"
  <2>1. /\ FilterModules /\ UNCHANGED <<served, loadedPlugins, pluginIds, resolved>>
        /\ Initialized(feature)
    BY <1>5 DEF Initialize
  <2>2. EntryPointsExposed' /\ WrappersFindTheirs'
    BY <1>2, <2>1, EntryPointsAreExposed, RestStays DEF Initialized
  <2> QED
    BY <1>1, <1>2, <1>5, <2>1, <2>2, InitializedKeepsInv
<1>6. CASE feature = "auth providers" /\ environment.unknownProvider
  <2>1. environment.authModule
    BY <1>6 DEF StaticFeatures, userSettings
  <2>2. HasCause
    BY <1>6, <2>1 DEF HasCause
  <2> QED
    BY <1>6, <2>2, FailedKeepsInv DEF Initialize
<1>7. CASE \/ feature \in {"dynamic-plugins-info", "healthcheck", "user-settings"}
           \/ feature = "auth providers" /\ ~ environment.unknownProvider
  <2>1. /\ UNCHANGED <<served, pluginIds, remotes, resolved>>
        /\ Initialized(feature)
    BY <1>7 DEF Initialize, told
  <2>2. WrappersFindTheirs'
    BY <1>2, <2>1, RestStays DEF Initialized
  <2> QED
    BY <1>1, <1>2, <1>7, <2>1, <2>2, InitializedKeepsInv
<1> QED
  BY <1>3, <1>4, <1>5, <1>6, <1>7 DEF StaticFeatures, userSettings

LEMMA InitializeDynamicKeepsInv ==
  ASSUME BackendInv, NEW i \in Indices, InitializeDynamic(i)
  PROVE  BackendInv'
<1> DEFINE wrapped == packages[i].wraps
           folder == packages[i].folder
           having == {j \in Indices : /\ wrapped \in DOMAIN packages[j].dependencies
                                      /\ packages[j].dependencies[wrapped]}
<1>1. phase = "starting" /\ folder \in features
  BY DEF InitializeDynamic
<1>2. /\ BackendTypeOK /\ WrappersFindTheirs /\ DOMAIN resolved \subseteq Indices
      /\ folder \notin OwnFeatures
      /\ \A j \in Indices : packages[j].folder # Missing
      /\ \A j \in Indices : packages[j].folder = folder => j = i
  BY InstallationsAssumption DEF BackendInv, BackendTypeOK, Indices
<1>3. folder \notin {"scalprum", "permission", "nfs-module-filter"}
  BY <1>2 DEF OwnFeatures
<1>4. OnNode(i)
  BY <1>1, <1>2 DEF BackendTypeOK, FoldersOnNode
<1>5. /\ customResolveDynamicPackage(wrapped) = IF having = {} THEN Missing
                                               ELSE packages[First(having)].folder
      /\ having # {} => First(having) \in having
  <2>1. having \in SUBSET Nat
    BY <1>2, IndicesAreNumbers
  <2>2. having # {} => First(having) \in having
    <3> HIDE DEF having
    <3> QED
      BY <2>1, FirstIsLeast
  <2> QED
    BY <2>2 DEF customResolveDynamicPackage
<1>6. CASE wrapped = Missing
  <2>1. UNCHANGED told /\ Initialized(folder)
    BY <1>6 DEF InitializeDynamic
  <2>2. WrappersFindTheirs'
    BY <1>2, <2>1, RestStays DEF Initialized, told
  <2> QED
    BY <1>1, <1>2, <1>3, <2>1, <2>2, InitializedKeepsInv DEF told
<1>7. CASE wrapped # Missing /\ customResolveDynamicPackage(wrapped) # Missing
  <2>1. /\ resolved' = [j \in DOMAIN resolved \cup {i} |->
                          IF j = i THEN customResolveDynamicPackage(wrapped) ELSE resolved[j]]
        /\ UNCHANGED <<served, loadedPlugins, pluginIds, remotes>>
        /\ Initialized(folder)
    BY <1>7 DEF InitializeDynamic
  <2>2. ASSUME \A j \in Indices \ {i} : wrapped \notin DOMAIN packages[j].dependencies
        PROVE  resolved'[i] = folder
    <3>1. having # {}
      BY <1>5, <1>7
    <3>2. First(having) = i
      BY <1>5, <2>2, <3>1
    <3> QED
      BY <1>5, <2>1, <3>1, <3>2
  <2>3. UNCHANGED packages /\ Indices' = Indices
    BY <2>1 DEF Initialized, Indices
  <2>4. WrappersFindTheirs'
    <3>1. ASSUME NEW j \in DOMAIN resolved',
                 \A k \in Indices \ {j} : packages[j].wraps \notin DOMAIN packages[k].dependencies
          PROVE  resolved'[j] = packages[j].folder
      <4>1. CASE j = i
        BY <2>2, <3>1, <4>1
      <4>2. CASE j # i
        BY <1>2, <2>1, <3>1, <4>2 DEF WrappersFindTheirs
      <4> QED
        BY <4>1, <4>2
    <3> QED
      BY <2>3, <3>1 DEF WrappersFindTheirs
  <2>5. DOMAIN resolved' \subseteq Indices
    BY <1>2, <2>1
  <2> HIDE DEF wrapped, folder, having
  <2> QED
    BY <1>1, <1>3, <2>1, <2>4, <2>5, InitializedKeepsInv
<1>8. CASE wrapped # Missing /\ customResolveDynamicPackage(wrapped) = Missing
  <2>1. having = {}
    BY <1>2, <1>5, <1>8
  <2>2. HasCause
    BY <1>4, <1>8, <2>1 DEF HasCause
  <2> QED
    BY <1>8, <2>2, FailedKeepsInv DEF InitializeDynamic
<1> QED
  BY <1>6, <1>7, <1>8

LEMMA BackendStep ==
  ASSUME BackendInv, [BackendNext]_backend
  PROVE  BackendInv'
<1>1. ASSUME UNCHANGED backend PROVE BackendInv'
  <2>1. UNCHANGED <<environment, packages, phase, services, features, served, pluginIds,
                    remotes, resolved>>
    BY <1>1 DEF backend, told
  <2>2. FoldersOnNode' = FoldersOnNode /\ Indices' = Indices /\ StaticFeatures' = StaticFeatures
    BY <2>1, RestStays DEF BackendInv, Indices, StaticFeatures
  <2>3. BackendTypeOK' /\ AddingOK'
    BY <2>1, <2>2 DEF BackendInv, BackendTypeOK, AddingOK
  <2> QED
    BY <2>1, <2>3, RestStays DEF BackendInv, ToldOK, StartedOK
<1> QED
  BY <1>1, AddStaticallyKeepsInv, RunFeatureLoadersKeepsInv, InitializeKeepsInv,
     InitializeDynamicKeepsInv DEF BackendNext

\* The state of a starting backend is well typed, for every environment and every list of
\* installed packages.
THEOREM BackendTypeCorrect == BackendSpec => []BackendTypeOK
<1>1. BackendInv => BackendTypeOK
  BY DEF BackendInv
<1> QED
  BY <1>1, BackendInitially, BackendStep, PTL DEF BackendSpec

\* A running backend serves the frontend packages that are installed, knows the ids of
\* the backend plugins, exposes the entry points of the frontend system, and takes each
\* core service from where the environment allows; a failed one had a cause. For every
\* environment and any list of packages with folders of their own, in whatever order the
\* plugins initialize.
THEOREM RunningBackendServes == BackendSpec => []BackendServesWhatIsInstalled
<1>1. BackendInv => BackendServesWhatIsInstalled
  BY DEF BackendInv, ToldOK, StartedOK, BackendServesWhatIsInstalled
<1> QED
  BY <1>1, BackendInitially, BackendStep, PTL DEF BackendSpec
=============================================================================
