--------------------------- MODULE FrontendProofs ---------------------------
(***************************************************************************)
(* The frontend, for every set of configurations, exports, cards, entities *)
(* and translations: plugins that load are served whatever the others do,  *)
(* the sidebar shows what has a place in it, cards are seen by those they  *)
(* are meant for, and overrides win.  Once the app is made the state is a  *)
(* function of the plugins and of the modules that were loaded, but for    *)
(* the menu, which a refused permission changes.                           *)
(***************************************************************************)
EXTENDS EntityPage, Translations, FiniteSetTheorems, WellFoundedInduction, TLAPS

-----------------------------------------------------------------------------
(* The start: DynamicRoot. *)

Tree == buildTree(extractMenuItems(plugins))

\* The stages in which there is an app and a registry.
Made == stage \in {"chunk", "chunk lost", "shown"}

\* Nothing is loaded before the modules settle, and nothing is made before the app
\* is; the menu depends on whether the permission was ever refused.
FrontendInv ==
  /\ frontend \in Frontends
  /\ plugins \in Frontends \cup {<<>>}
  /\ loaded = answered
  /\ loaded \subseteq Loadable
  /\ stage \in {"config", "manifests", "modules"} => loaded = {}
  /\ ~ Made => registry = None /\ app = None
  /\ Made => registry = RegistryOf(plugins, loaded) /\ app = AppOf(plugins, loaded)
  /\ Made => menu = IF refused /\ showAdministration THEN WithoutRbac(Tree) ELSE Tree
  /\ stage # "shown" => permission = "loading" /\ ~ refused
  /\ permission = "denied" => refused

\* A menu that has lost the RBAC entry has no other to lose.
LEMMA RbacLeavesOnce ==
  ASSUME NEW items
  PROVE  LET tree == buildTree(items)
         IN  WithoutRbac(WithoutRbac(tree)) = WithoutRbac(tree)
<1> DEFINE tree == buildTree(items)
           F == FirstAdminGroup(tree)
<1>1. PICK R, N, C : tree = [roots |-> R, children |-> [p \in N |-> C[p]]]
  <2> DEFINE R == tree.roots
             N == Names(items)
             C == tree.children
  <2>1. tree = [roots |-> R, children |-> [p \in N |-> C[p]]]
    BY DEF buildTree
  <2> QED
    BY <2>1
<1> SUFFICES WithoutRbac(WithoutRbac(tree)) = WithoutRbac(tree)
  OBVIOUS
<1> HIDE DEF tree
<1>2. CASE AdminSection(tree) = {}
  <2>1. WithoutRbac(tree) = tree
    BY <1>2 DEF WithoutRbac
  <2> QED
    BY <2>1
<1>3. CASE AdminSection(tree) # {}
  <2> DEFINE D == [p \in N |-> IF p = F THEN C[p] \ {RbacName} ELSE C[p]]
             once == [roots |-> R, children |-> D]
  <2>1. WithoutRbac(tree) = once
    BY <1>1, <1>3 DEF WithoutRbac
  <2>2. once.roots = tree.roots
    BY <1>1
  <2>3. AdminSection(once) = AdminSection(tree)
    BY <2>2 DEF AdminSection, Section
  <2>4. FirstAdminGroup(once) = F
    BY <2>3 DEF FirstAdminGroup
  <2> HIDE DEF F
  <2>5. WithoutRbac(once) = [roots |-> R, children |-> [D EXCEPT ![F] = @ \ {RbacName}]]
    BY <1>3, <2>3, <2>4 DEF WithoutRbac
  <2>6. [D EXCEPT ![F] = D[F] \ {RbacName}] = D
    <3>1. ASSUME NEW p \in N PROVE [D EXCEPT ![F] = D[F] \ {RbacName}][p] = D[p]
      BY <3>1
    <3> QED
      BY <3>1
  <2> QED
    BY <2>1, <2>5, <2>6
<1> QED
  BY <1>2, <1>3

\* The invariant holds before anything is requested.
LEMMA FrontendInitially == Init => FrontendInv
BY DEF Init, FrontendInv, Made

\* Every answer preserves the invariant: one step per action of the start.
LEMMA FrontendStep == FrontendInv /\ [Next]_vars => FrontendInv'
<1> SUFFICES ASSUME FrontendInv, [Next]_vars PROVE FrontendInv'
  OBVIOUS
<1> USE DEF Made
<1>1. CASE ConfigLoads
  BY <1>1 DEF ConfigLoads, FrontendInv, page
<1>2. CASE ConfigFails
  BY <1>2 DEF ConfigFails, FrontendInv, page, Loadable, Tree
<1>3. ASSUME NEW ok \in BOOLEAN, ManifestsAnswer(ok) PROVE FrontendInv'
  BY <1>3 DEF ManifestsAnswer, FrontendInv, page, Loadable, Tree
<1>4. ASSUME NEW modules, ModulesSettle(modules) PROVE FrontendInv'
  BY <1>4 DEF ModulesSettle, FrontendInv, page, Loadable, Tree
<1>5. CASE TranslationsEnd
  BY <1>5 DEF TranslationsEnd, FrontendInv, Loadable, Tree
<1>6. CASE TranslationsNotJson
  BY <1>6 DEF TranslationsNotJson, FrontendInv, page, Loadable, Tree
<1>7. ASSUME NEW ok \in BOOLEAN, ChunkAnswer(ok) PROVE FrontendInv'
  BY <1>7 DEF ChunkAnswer, FrontendInv, page, Loadable, Tree
<1>8. ASSUME NEW allowed \in BOOLEAN, PermissionAnswer(allowed) PROVE FrontendInv'
  <2>1. WithoutRbac(WithoutRbac(Tree)) = WithoutRbac(Tree)
    BY RbacLeavesOnce DEF Tree
  <2>2. Tree' = Tree /\ Loadable' = Loadable
    BY <1>8 DEF PermissionAnswer, start, Tree, Loadable
  <2> QED
    BY <1>8, <2>1, <2>2 DEF PermissionAnswer, FrontendInv, start
<1>9. CASE UNCHANGED vars
  BY <1>9 DEF vars, start, page, FrontendInv, Loadable, Tree
<1> QED
  BY <1>1, <1>2, <1>3, <1>4, <1>5, <1>6, <1>7, <1>8, <1>9 DEF Next

\* The invariant of the start of the frontend (DynamicRoot).
THEOREM FrontendInvariant == Spec => []FrontendInv
BY FrontendInitially, FrontendStep, PTL DEF Spec

\* DynamicRoot: whatever modules fail to load, the contributions of the plugins whose
\* modules were loaded are served as on a page where everything loads, and an API or
\* theme that is compiled in gives way to a loaded one only.
THEOREM IntactPluginsAreServed == Spec => []IntactPluginsServed
<1>1. FrontendInv => IntactPluginsServed
  <2> SUFFICES ASSUME FrontendInv, registry # None PROVE IntactPluginsServed!2
    BY DEF IntactPluginsServed
  <2>1. registry = RegistryOf(plugins, loaded) /\ app = AppOf(plugins, loaded)
    BY DEF FrontendInv
  <2>2. \A c : c.scope \in Intact => (Found(c, loaded) <=> Found(c, Loadable))
    BY DEF FrontendInv, Found, Intact
  <2>3. \A kinds : OfIntact(Served(plugins, kinds, loaded))
                     = OfIntact(Served(plugins, kinds, Loadable))
    BY <2>2 DEF OfIntact, Served
  <2>4. OfIntact(registry.served) = OfIntact(RegistryOf(plugins, Loadable).served)
    BY <2>1, <2>3 DEF RegistryOf
  <2>5. OfIntact(app.dynamic) = OfIntact(AppOf(plugins, Loadable).dynamic)
    BY <2>1, <2>3 DEF AppOf
  <2>6. ASSUME NEW id \in StaticIds \ app.static
        PROVE  \E c \in app.dynamic : c.slot = id /\ <<c.scope, c.module>> \in loaded
    <3>1. PICK c \in Served(plugins, {"override"}, loaded) : c.slot = id
      BY <2>1, <2>6 DEF AppOf
    <3>2. c \in app.dynamic /\ <<c.scope, c.module>> \in loaded
      BY <2>1, <3>1 DEF AppOf, Served, Found
    <3> QED
      BY <3>1, <3>2
  <2> QED
    BY <2>4, <2>5, <2>6
<1> QED
  BY <1>1, FrontendInvariant, PTL

-----------------------------------------------------------------------------
(* Numbers and sequences. *)

\* A set of numbers that is not empty has a least element.
LEMMA LeastNumber ==
  ASSUME NEW T \in SUBSET Nat, T # {}
  PROVE  \E m \in T : \A x \in T : m <= x
<1> DEFINE Less == OpToRel(<, Nat)
<1>1. IsWellFoundedOn(Less, Nat) /\ \A y, z \in Nat : y < z => <<y, z>> \in Less
  <2>1. Less = {ss \in Nat \X Nat : ss[1] < ss[2]}
    BY DEF OpToRel
  <2> QED
    BY <2>1, NatLessThanWellFounded
<1> HIDE DEF Less
<1>2. PICK m \in T : \A x \in T : ~ (<<x, m>> \in Less)
  <2>1. IsWellFoundedOn(Less, Nat) /\ T \subseteq Nat /\ T # {}
    BY <1>1
  <2> QED
    BY <2>1, WFMin, Zenon
<1>3. \A x \in T : x \in Nat /\ m \in Nat /\ ~ (x < m)
  BY <1>1, <1>2
<1> QED
  BY <1>3

\* Min picks it, and Max picks the greatest of a set of indices.
LEMMA MinOfNumbers ==
  ASSUME NEW T \in SUBSET Nat, T # {}
  PROVE  Min(T) \in T /\ \A x \in T : Min(T) <= x
BY LeastNumber DEF Min

\* A non-empty set of positions of a sequence has its maximum, the last of them.
LEMMA MaxOfIndices ==
  ASSUME NEW n \in Nat, NEW T \in SUBSET (1 .. n), T # {}
  PROVE  Max(T) \in T /\ \A x \in T : x <= Max(T)
<1> DEFINE D == {n - x : x \in T}
<1>1. D \in SUBSET Nat /\ D # {}
  <2>1. \A x \in T : n - x \in Nat
    OBVIOUS
  <2> QED
    BY <2>1
<1>2. PICK d \in D : \A x \in D : d <= x
  BY <1>1, LeastNumber
<1>3. PICK m \in T : d = n - m
  BY DEF D
<1>4. \A x \in T : n - m <= n - x
  BY <1>2, <1>3 DEF D
<1>5. \A x \in T : m >= x
  BY <1>3, <1>4
<1>6. Max(T) \in T /\ \A x \in T : Max(T) >= x
  BY <1>3, <1>5 DEF Max
<1> QED
  BY <1>6

\* Flattening sequences over a set gives a sequence over it.
LEMMA FlattenIsSequence ==
  ASSUME NEW S, NEW ss \in Seq(Seq(S))
  PROVE  FlattenSeq(ss) \in Seq(S)
<1> DEFINE n == Len(ss)
           Flattens(f) ==
             f = [i \in 1 .. n |-> IF i = 1 THEN ss[i] ELSE f[i - 1] \o ss[i]]
           Prefix(f, k) ==
             /\ f \in [1 .. k -> Seq(S)]
             /\ f[1] = ss[1]
             /\ \A i \in 2 .. k : f[i] = f[i - 1] \o ss[i]
<1>1. n \in Nat /\ \A i \in 1 .. n : ss[i] \in Seq(S)
  OBVIOUS
<1>2. CASE n = 0
  <2>1. FlattenSeq(ss) = ss /\ ss = <<>>
    BY <1>2 DEF FlattenSeq
  <2> QED
    BY <2>1
<1>3. CASE n # 0
  <2>1. FlattenSeq(ss) = (CHOOSE f : Flattens(f))[n]
    BY <1>3 DEF FlattenSeq
  <2> DEFINE Bad == {k \in 1 .. n : ~ \E f : Prefix(f, k)}
  <2>2. Bad = {}
    <3>1. SUFFICES ASSUME Bad # {} PROVE FALSE
      OBVIOUS
    <3> HIDE DEF Prefix
    <3> Bad \in SUBSET Nat
      BY <1>1
    <3> HIDE DEF Bad
    <3>2. PICK k \in Bad : \A j \in Bad : k <= j
      BY <3>1, LeastNumber
    <3> USE DEF Bad
    <3>3. CASE k = 1
      <4>1. Prefix([i \in 1 .. 1 |-> ss[1]], 1)
        BY <1>1, <1>3 DEF Prefix
      <4> QED
        BY <3>2, <3>3, <4>1
    <3>4. CASE k # 1
      <4>1. k \in 2 .. n /\ k - 1 \in 1 .. n
        BY <1>1, <3>2, <3>4
      <4> HIDE DEF Bad
      <4>9. k - 1 \notin Bad
        BY <3>2, <4>1
      <4> USE DEF Bad
      <4>2. PICK f : Prefix(f, k - 1)
        BY <4>1, <4>9
      <4> DEFINE g == [i \in 1 .. k |-> IF i = k THEN f[k - 1] \o ss[k] ELSE f[i]]
      <4>3. f[k - 1] \in Seq(S) /\ ss[k] \in Seq(S)
        BY <1>1, <4>1, <4>2 DEF Prefix
      <4>4. f[k - 1] \o ss[k] \in Seq(S)
        BY <4>3
      <4> USE DEF Prefix
      <4>5. g \in [1 .. k -> Seq(S)]
        BY <4>1, <4>2, <4>4
      <4>6. g[1] = ss[1]
        BY <4>1, <4>2
      <4>7. ASSUME NEW i \in 2 .. k PROVE g[i] = g[i - 1] \o ss[i]
        <5>1. i \in 1 .. k /\ i - 1 \in 1 .. k /\ i - 1 # k
          BY <4>1
        <5>2. g[i - 1] = f[i - 1]
          BY <5>1
        <5>3. CASE i = k
          BY <5>1, <5>2, <5>3
        <5>4. CASE i # k
          <6>1. i \in 2 .. k - 1
            BY <4>1, <5>4
          <6>2. f[i] = f[i - 1] \o ss[i]
            BY <4>2, <6>1
          <6> QED
            BY <5>1, <5>2, <5>4, <6>2
        <5> QED
          BY <5>3, <5>4
      <4>8. Prefix(g, k)
        BY <4>5, <4>6, <4>7
      <4> HIDE DEF Prefix, g
      <4> QED
        BY <3>2, <4>8
    <3> QED
      BY <3>3, <3>4
  <2>3. PICK f : Prefix(f, n)
    <3>1. n \in 1 .. n
      BY <1>1, <1>3
    <3> HIDE DEF Prefix
    <3> QED
      BY <2>2, <3>1
  <2>4. Flattens(f)
    <3>1. f = [i \in 1 .. n |-> f[i]]
      BY <2>3
    <3>2. ASSUME NEW i \in 1 .. n
          PROVE  f[i] = IF i = 1 THEN ss[i] ELSE f[i - 1] \o ss[i]
      <4>1. CASE i = 1
        BY <2>3, <4>1
      <4>2. CASE i # 1
        <5>1. i \in 2 .. n
          BY <1>1, <4>2
        <5> QED
          BY <2>3, <4>2, <5>1
      <4> QED
        BY <4>1, <4>2
    <3> QED
      BY <3>1, <3>2
  <2> DEFINE h == CHOOSE g : Flattens(g)
  <2>5. Flattens(h)
    BY <2>4
  <2> HIDE DEF h
  <2> DEFINE Wrong == {i \in 1 .. n : h[i] \notin Seq(S)}
  <2>6. Wrong = {}
    <3>1. SUFFICES ASSUME Wrong # {} PROVE FALSE
      OBVIOUS
    <3> Wrong \in SUBSET Nat
      BY <1>1
    <3> HIDE DEF Wrong
    <3>2. PICK k \in Wrong : \A j \in Wrong : k <= j
      BY <3>1, LeastNumber
    <3> USE DEF Wrong
    <3>3. h[k] = IF k = 1 THEN ss[k] ELSE h[k - 1] \o ss[k]
      BY <2>5, <3>2
    <3>4. CASE k = 1
      BY <1>1, <3>2, <3>3, <3>4
    <3>5. CASE k # 1
      <4>1. k - 1 \in 1 .. n /\ k - 1 \notin Wrong
        BY <1>1, <3>2, <3>5
      <4>2. h[k - 1] \in Seq(S) /\ ss[k] \in Seq(S)
        BY <1>1, <3>2, <4>1
      <4>3. h[k - 1] \o ss[k] \in Seq(S)
        BY <4>2
      <4> QED
        BY <3>2, <3>3, <3>5, <4>3
    <3> QED
      BY <3>4, <3>5
  <2>7. n \in 1 .. n
    BY <1>1, <1>3
  <2> QED
    BY <2>1, <2>6, <2>7 DEF h
<1> QED
  BY <1>2, <1>3

-----------------------------------------------------------------------------
(* The sidebar: MenuItems. *)

\* The entries of a plugin and of a configuration, those of its routes included.
OwnEntries(plugin) ==
  ToSet(plugin.menuItems) \cup {RouteItem(route) : route \in ToSet(plugin.routes)}
EntriesOf(ps) == UNION {OwnEntries(ps[i]) : i \in DOMAIN ps}

\* The entries of the routes of one plugin are a sequence of such entries.
LEMMA RouteItemsAreEntries ==
  ASSUME NEW routes, IsList(routes), NEW S,
         \A j \in DOMAIN routes : RouteItem(routes[j]) \in S
  PROVE  RouteItems(routes) \in Seq(S)
<1> DEFINE single(j) == IF routes[j].static THEN <<RouteItem(routes[j])>> ELSE <<>>
           ss == [j \in DOMAIN routes |-> single(j)]
<1>1. routes \in Seq(ToSet(routes)) /\ DOMAIN routes = 1 .. Len(routes) /\ Len(routes) \in Nat
  BY DEF IsList
<1>2. ASSUME NEW j \in DOMAIN routes PROVE single(j) \in Seq(S)
  OBVIOUS
<1> HIDE DEF single
<1>3. ss \in Seq(Seq(S))
  BY <1>1, <1>2
<1>4. RouteItems(routes) = FlattenSeq(ss)
  BY DEF RouteItems, single
<1> QED
  BY <1>3, <1>4, FlattenIsSequence

\* What is put into the menu is a list of such entries, with priorities to compare.
LEMMA ItemsAreEntries ==
  ASSUME NEW ps \in Frontends \cup {<<>>}
  PROVE  /\ extractMenuItems(ps) \in Seq(EntriesOf(ps))
         /\ \A entry \in EntriesOf(ps) : entry.priority \in Int \cup {Unset}
<1> DEFINE S == EntriesOf(ps)
           own(i) == RouteItems(ps[i].routes) \o ps[i].menuItems
           ss == [i \in DOMAIN ps |-> own(i)]
<1>1. ps \in Seq(ToSet(ps)) /\ DOMAIN ps = 1 .. Len(ps) /\ Len(ps) \in Nat
  <2>1. CASE ps = <<>>
    BY <2>1
  <2>2. CASE ps \in Frontends
    BY <2>2, FrontendsAssumption DEF IsList
  <2> QED
    BY <2>1, <2>2
<1>2. ASSUME NEW i \in DOMAIN ps
      PROVE  /\ IsList(ps[i].routes) /\ IsList(ps[i].menuItems)
             /\ \A item \in ToSet(ps[i].menuItems) : item.priority \in Int \cup {Unset}
  <2>1. ps \in Frontends /\ ps[i] \in ToSet(ps)
    BY DEF ToSet
  <2> QED
    BY <2>1, FrontendsAssumption DEF CustomProperties, MenuItemConfig
<1>3. ASSUME NEW i \in DOMAIN ps PROVE own(i) \in Seq(S)
  <2>1. RouteItems(ps[i].routes) \in Seq(S)
    <3>1. \A j \in DOMAIN ps[i].routes : RouteItem(ps[i].routes[j]) \in OwnEntries(ps[i])
      BY DEF OwnEntries, ToSet
    <3>2. OwnEntries(ps[i]) \subseteq S
      BY DEF EntriesOf
    <3> QED
      BY <1>2, <3>1, <3>2, RouteItemsAreEntries
  <2>2. ps[i].menuItems \in Seq(S)
    <3>1. ToSet(ps[i].menuItems) \subseteq S
      BY DEF EntriesOf, OwnEntries
    <3>2. ps[i].menuItems \in Seq(ToSet(ps[i].menuItems))
      BY <1>2 DEF IsList
    <3> QED
      BY <3>1, <3>2
  <2> QED
    BY <2>1, <2>2
<1>4. extractMenuItems(ps) = FlattenSeq(ss)
  BY DEF extractMenuItems
<1> HIDE DEF own, S
<1>5. ss \in Seq(Seq(S))
  BY <1>1, <1>3
<1>6. ASSUME NEW entry \in EntriesOf(ps) PROVE entry.priority \in Int \cup {Unset}
  <2>1. PICK i \in DOMAIN ps : entry \in OwnEntries(ps[i])
    BY DEF EntriesOf
  <2>2. \A route : RouteItem(route).priority = Unset
    BY DEF RouteItem
  <2> QED
    BY <1>2, <2>1, <2>2 DEF OwnEntries
<1>7. extractMenuItems(ps) \in Seq(S)
  BY <1>4, <1>5, FlattenIsSequence
<1> QED
  BY <1>6, <1>7 DEF S

\* A key has the value of an entry that gives it one, if there is any.
LEMMA LastValueIsGiven ==
  ASSUME NEW S, NEW items \in Seq(S), NEW n, NEW key
  PROVE  \/ /\ LastValue(items, n, key) = Unset
            /\ \A i \in Named(items, n) : items[i][key] = Unset
         \/ \E i \in Named(items, n) :
              items[i][key] # Unset /\ LastValue(items, n, key) = items[i][key]
<1> DEFINE given == {i \in Named(items, n) : items[i][key] # Unset}
<1>1. given \in SUBSET (1 .. Len(items)) /\ Len(items) \in Nat
  BY DEF Named
<1>2. LastValue(items, n, key) = IF given = {} THEN Unset ELSE items[Max(given)][key]
  BY DEF LastValue
<1>3. CASE given = {}
  BY <1>2, <1>3
<1>4. CASE given # {}
  <2>1. Max(given) \in given
    BY <1>1, <1>4, MaxOfIndices
  <2> QED
    BY <1>2, <1>4, <2>1
<1> QED
  BY <1>3, <1>4

\* A name with a title has a listed entry, with one of its parents if it has any.
LEMMA TitledAreListed ==
  ASSUME NEW S, NEW items \in Seq(S), NEW n \in Titled(items)
  PROVE  \E e \in ItemMap(items) :
           /\ e.name = n /\ Listed(e)
           /\ Parents(items, n) = {} => e.parent = Unset
           /\ Parents(items, n) # {} => e.parent \in Parents(items, n)
<1>1. n \in Names(items)
  BY DEF Titled, Names
<1> DEFINE e == [name |-> n, place |-> Min(Named(items, n)),
                 title |-> LastValue(items, n, "title"),
                 enabled |-> LastValue(items, n, "enabled"),
                 parent |-> LastValue(items, n, "parent"),
                 priority |-> LastValue(items, n, "priority")]
<1>2. e \in ItemMap(items)
  BY <1>1 DEF ItemMap
<1>3. \A i \in Named(items, n) : items[i] \in OfName(items, n)
  BY DEF Named, OfName
<1>4. PICK k \in Named(items, n) : items[k].title \notin {Unset, ""}
  BY DEF Titled, OfName, Named
<1> DEFINE last(key) ==
             \/ /\ LastValue(items, n, key) = Unset
                /\ \A i \in Named(items, n) : items[i][key] = Unset
             \/ \E i \in Named(items, n) :
                  items[i][key] # Unset /\ LastValue(items, n, key) = items[i][key]
<1>9. last("title") /\ last("enabled")
  BY LastValueIsGiven
<1>10. \A item \in OfName(items, n) : item.title # "" /\ item.enabled # FALSE
  BY DEF Titled
<1>5. e.title \notin {Unset, ""}
  BY <1>3, <1>4, <1>9, <1>10
<1>6. e.enabled # FALSE
  BY <1>3, <1>4, <1>9, <1>10
<1>7. Parents(items, n) = {} => e.parent = Unset
  BY <1>3, LastValueIsGiven DEF Parents
<1>8. Parents(items, n) # {} => e.parent \in Parents(items, n)
  <2>1. SUFFICES ASSUME Parents(items, n) # {} PROVE e.parent \in Parents(items, n)
    OBVIOUS
  <2>2. PICK i \in Named(items, n) : items[i].parent # Unset
    BY <2>1 DEF Parents, OfName, Named
  <2> QED
    BY <1>3, <2>2, LastValueIsGiven DEF Parents
<1> QED
  BY <1>2, <1>5, <1>6, <1>7, <1>8 DEF Listed

\* One entry per name, each with the place of a first item.
LEMMA OneEntryPerName ==
  ASSUME NEW S, NEW items \in Seq(S)
  PROVE  /\ \A d, e \in ItemMap(items) : d.name = e.name \/ d.place = e.place => d = e
         /\ \A e \in ItemMap(items) : e.place \in 1 .. Len(items)
<1>1. ASSUME NEW n \in Names(items)
      PROVE  Min(Named(items, n)) \in 1 .. Len(items)
             /\ items[Min(Named(items, n))].name = n
  <2>1. Named(items, n) \in SUBSET Nat /\ Named(items, n) # {}
    BY DEF Named, Names
  <2>2. Min(Named(items, n)) \in Named(items, n)
    BY <2>1, MinOfNumbers
  <2> QED
    BY <2>2 DEF Named
<1> QED
  BY <1>1 DEF ItemMap

\* A menu that lacks some names at most shows every other placed name that is under
\* none of them.
LEMMA PlacedAreShown ==
  ASSUME NEW S, NEW items \in Seq(S), NEW tree, NEW hidden,
         tree.roots = buildTree(items).roots,
         \A p \in Names(items) :
           buildTree(items).children[p] \ hidden \subseteq tree.children[p],
         NEW n \in Placed(items), n \notin hidden, Parents(items, n) \cap hidden = {}
  PROVE  n \in Shown(tree, showAdministration)
<1> DEFINE titled == Titled(items)
           roots == {m \in titled :
                       /\ Parents(items, m) = {}
                       /\ m \in AdminNames => m \in DefaultNames /\ showAdministration}
           under(names) ==
             {m \in titled : Parents(items, m) # {} /\ Parents(items, m) \subseteq names}
           below(names) == UNION {tree.children[m] : m \in names}
           sections == Section(tree, TRUE, FALSE) \cup Section(tree, FALSE, FALSE)
                         \cup IF showAdministration THEN AdminSection(tree) ELSE {}
           top == {e.name : e \in sections}
<1>1. Placed(items) = roots \cup under(roots) \cup under(under(roots))
  BY DEF Placed
<1>2. Shown(tree, showAdministration) = top \cup below(top) \cup below(below(top))
  BY DEF Shown
<1>3. ASSUME NEW m \in roots PROVE m \in top
  <2>1. PICK e \in ItemMap(items) : e.name = m /\ Listed(e) /\ e.parent = Unset
    BY <1>3, TitledAreListed
  <2>2. e \in tree.roots
    BY <2>1 DEF buildTree
  <2>3. e \in sections
    BY <1>3, <2>1, <2>2 DEF Section, AdminSection
  <2> QED
    BY <2>1, <2>3
<1>4. ASSUME NEW names, names \subseteq titled, NEW m \in under(names), m \notin hidden
      PROVE  \E p \in Parents(items, m) \cap names : m \in tree.children[p]
  <2>1. m \in titled /\ Parents(items, m) # {} /\ Parents(items, m) \subseteq names
    BY <1>4
  <2>2. PICK e \in ItemMap(items) :
               e.name = m /\ Listed(e) /\ e.parent \in Parents(items, m)
    BY <2>1, TitledAreListed
  <2>3. e.parent \in Names(items)
    BY <1>4, <2>1, <2>2 DEF Titled, Names
  <2>4. m \in buildTree(items).children[e.parent]
    BY <2>2, <2>3 DEF buildTree
  <2> QED
    BY <1>4, <2>1, <2>2, <2>3, <2>4
<1>5. roots \subseteq titled /\ under(roots) \subseteq titled
  OBVIOUS
<1>6. ASSUME NEW m \in under(roots), m \notin hidden PROVE m \in below(top)
  <2>1. PICK p \in roots : m \in tree.children[p]
    BY <1>4, <1>5, <1>6
  <2> QED
    BY <1>3, <2>1
<1>7. ASSUME n \in under(under(roots)) PROVE n \in below(below(top))
  <2>1. PICK p \in Parents(items, n) \cap under(roots) : n \in tree.children[p]
    BY <1>4, <1>5, <1>7
  <2>2. p \in below(top)
    BY <1>6, <2>1
  <2> QED
    BY <2>1, <2>2
<1> QED
  BY <1>1, <1>2, <1>3, <1>6, <1>7

\* Among entries with places of their own, and priorities to compare, there is a first.
LEMMA FirstEntryExists ==
  ASSUME NEW n \in Nat, NEW E, E # {},
         \A e \in E : e.place \in 1 .. n /\ e.priority \in Int \cup {Unset},
         \A d, e \in E : d.place = e.place => d = e
  PROVE  \E e \in E : \A other \in E \ {e} : Before(e, other)
<1> DEFINE Upto(k) == {e \in E : e.place <= k}
           HasFirst(T) == \E e \in T : \A other \in T \ {e} : Before(e, other)
           Bad == {k \in Nat : Upto(k) # {} /\ ~ HasFirst(Upto(k))}
<1>1. \A e \in E : e.place \in Nat /\ e.place >= 1 /\ e.place <= n /\ Priority(e) \in Int
  BY DEF Priority
<1>2. Bad = {}
  <2>1. SUFFICES ASSUME Bad # {} PROVE FALSE
    OBVIOUS
  <2> Bad \in SUBSET Nat
    OBVIOUS
  <2> HIDE DEF Bad
  <2>2. PICK k \in Bad : \A j \in Bad : k <= j
    BY <2>1, LeastNumber
  <2>3. k \in Nat /\ Upto(k) # {} /\ ~ HasFirst(Upto(k))
    BY <2>2 DEF Bad
  <2>4. k >= 1
    BY <1>1, <2>3
  <2>5. k - 1 \in Nat /\ k - 1 \notin Bad
    BY <2>2, <2>3, <2>4
  <2>6. Upto(k - 1) = {} \/ HasFirst(Upto(k - 1))
    BY <2>5 DEF Bad
  <2>7. CASE \E e \in E : e.place = k
    <3>1. PICK e \in E : e.place = k
      BY <2>7
    <3>2. Upto(k) = Upto(k - 1) \cup {e} /\ e \notin Upto(k - 1)
      BY <1>1, <2>3, <3>1
    <3>3. CASE Upto(k - 1) = {}
      BY <2>3, <3>2, <3>3
    <3>4. ASSUME HasFirst(Upto(k - 1)) PROVE FALSE
      <4>1. PICK d \in Upto(k - 1) : \A other \in Upto(k - 1) \ {d} : Before(d, other)
        BY <3>4
      <4>2. \A c \in Upto(k - 1) : c \in E /\ c.place < e.place
        BY <1>1, <2>3, <3>1
      <4>3. CASE Before(d, e)
        <5>1. \A other \in Upto(k) \ {d} : Before(d, other)
          BY <3>2, <4>1, <4>3
        <5> QED
          BY <2>3, <3>2, <4>1, <5>1
      <4>4. CASE ~ Before(d, e)
        <5>1. Priority(e) > Priority(d)
          BY <1>1, <3>1, <4>1, <4>2, <4>4 DEF Before
        <5>2. ASSUME NEW other \in Upto(k - 1) PROVE Before(e, other)
          <6>1. Priority(d) >= Priority(other)
            BY <1>1, <4>1, <4>2, <5>2 DEF Before
          <6> QED
            BY <1>1, <3>1, <4>1, <4>2, <5>1, <5>2, <6>1 DEF Before
        <5>3. \A other \in Upto(k) \ {e} : Before(e, other)
          BY <3>2, <5>2
        <5> QED
          BY <2>3, <3>2, <5>3
      <4> QED
        BY <4>3, <4>4
    <3> QED
      BY <2>6, <3>3, <3>4
  <2>8. CASE ~ \E e \in E : e.place = k
    <3>1. Upto(k) = Upto(k - 1)
      BY <1>1, <2>3, <2>8
    <3> QED
      BY <2>3, <2>6, <3>1
  <2> QED
    BY <2>7, <2>8
<1>3. Upto(n) = E
  BY <1>1
<1>4. HasFirst(Upto(n))
  BY <1>2, <1>3
<1> QED
  BY <1>3, <1>4

\* The first group of the administration section is a root of that section.
LEMMA FirstAdminGroupIsAdmin ==
  ASSUME NEW ps \in Frontends \cup {<<>>},
         NEW tree, tree = buildTree(extractMenuItems(ps)), AdminSection(tree) # {}
  PROVE  \E e \in AdminSection(tree) : e.name = FirstAdminGroup(tree)
<1> DEFINE items == extractMenuItems(ps)
           S == EntriesOf(ps)
<1>1. items \in Seq(S) /\ \A entry \in S : entry.priority \in Int \cup {Unset}
  BY ItemsAreEntries
<1>2. AdminSection(tree) \subseteq ItemMap(items)
  BY DEF AdminSection, Section, buildTree
<1> HIDE DEF items, S
<1>3. \A e \in ItemMap(items) : e.priority \in Int \cup {Unset}
  <2>1. ASSUME NEW n
        PROVE  LastValue(items, n, "priority") \in Int \cup {Unset}
    <3>1. \A i \in Named(items, n) : items[i] \in S
      BY <1>1 DEF Named
    <3>2. \/ LastValue(items, n, "priority") = Unset
          \/ \E i \in Named(items, n) : LastValue(items, n, "priority") = items[i]["priority"]
      BY <1>1, LastValueIsGiven
    <3> QED
      BY <1>1, <3>1, <3>2
  <2> QED
    BY <2>1 DEF ItemMap
<1>4. \A e \in AdminSection(tree) : e.place \in 1 .. Len(items) /\ e.priority \in Int \cup {Unset}
  BY <1>1, <1>2, <1>3, OneEntryPerName
<1>5. \A d, e \in AdminSection(tree) : d.place = e.place => d = e
  BY <1>1, <1>2, OneEntryPerName
<1>6. Len(items) \in Nat
  BY <1>1
<1>7. \E e \in AdminSection(tree) : \A other \in AdminSection(tree) \ {e} : Before(e, other)
  BY <1>4, <1>5, <1>6, FirstEntryExists
<1> QED
  BY <1>7 DEF FirstAdminGroup

\* What a refused permission leaves of the children.
LEMMA WithoutRbacChildren ==
  ASSUME NEW items, NEW tree, tree = buildTree(items)
  PROVE  /\ WithoutRbac(tree).roots = tree.roots
         /\ \A p \in Names(items) :
              /\ WithoutRbac(tree).children[p] \subseteq tree.children[p]
              /\ tree.children[p] \ {RbacName} \subseteq WithoutRbac(tree).children[p]
              /\ AdminSection(tree) # {} /\ p = FirstAdminGroup(tree) =>
                   RbacName \notin WithoutRbac(tree).children[p]
<1> DEFINE F == FirstAdminGroup(tree)
<1>1. DOMAIN tree.children = Names(items)
  BY DEF buildTree
<1>2. CASE AdminSection(tree) = {}
  BY <1>2 DEF WithoutRbac
<1>3. CASE AdminSection(tree) # {}
  <2> HIDE DEF F
  <2>1. WithoutRbac(tree) = [roots |-> tree.roots,
                             children |-> [tree.children EXCEPT ![F] = @ \ {RbacName}]]
    BY <1>3 DEF WithoutRbac, F
  <2>2. \A p \in Names(items) :
          WithoutRbac(tree).children[p]
            = IF p = F THEN tree.children[p] \ {RbacName} ELSE tree.children[p]
    BY <1>1, <2>1
  <2> QED
    BY <1>3, <2>1, <2>2 DEF F
<1> QED
  BY <1>2, <1>3

\* Root and buildTree: every entry with a title that nothing disables is in the
\* sidebar when the names above it are, and the permission takes away none but the
\* RBAC entry and what is under it.
THEOREM PlacedEntriesAreShown == Spec => []PlacedEntriesShown
<1>1. FrontendInv => PlacedEntriesShown
  <2> DEFINE items == extractMenuItems(plugins)
  <2> SUFFICES ASSUME FrontendInv, stage = "shown", NEW n \in Placed(items),
                      n # RbacName, RbacName \notin Parents(items, n)
               PROVE  n \in Shown(menu, showAdministration)
    BY DEF PlacedEntriesShown
  <2>1. items \in Seq(EntriesOf(plugins))
    BY ItemsAreEntries DEF FrontendInv
  <2>2. menu = Tree \/ menu = WithoutRbac(Tree)
    BY DEF FrontendInv, Made
  <2>3. menu.roots = buildTree(items).roots
    BY <2>2, WithoutRbacChildren DEF Tree
  <2> DEFINE hidden == {RbacName}
  <2>4. \A p \in Names(items) : buildTree(items).children[p] \ hidden \subseteq menu.children[p]
    BY <2>2, WithoutRbacChildren DEF Tree
  <2>5. n \notin hidden /\ Parents(items, n) \cap hidden = {}
    OBVIOUS
  <2> HIDE DEF items, hidden
  <2> QED
    BY <2>1, <2>3, <2>4, <2>5, PlacedAreShown
<1> QED
  BY <1>1, FrontendInvariant, PTL

\* Root: an RBAC entry under the first group of the administration section is hidden
\* from who may not create policies, and shown to who was never refused.
THEOREM RbacFollowsPermission == Spec => []RbacEntryFollowsPermission
<1>1. FrontendInv => RbacEntryFollowsPermission
  <2> DEFINE items == extractMenuItems(plugins)
             F == FirstAdminGroup(Tree)
  <2> SUFFICES ASSUME FrontendInv, stage = "shown", RbacName \in Placed(items),
                      AdminSection(Tree) # {}, Parents(items, RbacName) = {F}
               PROVE  /\ permission = "denied" => RbacName \notin Shown(menu, showAdministration)
                      /\ ~ refused => RbacName \in Shown(menu, showAdministration)
    BY Zenon DEF RbacEntryFollowsPermission, Tree
  <2>1. items \in Seq(EntriesOf(plugins)) /\ Tree = buildTree(items)
    BY ItemsAreEntries DEF FrontendInv, Tree
  <2>2. menu = IF refused /\ showAdministration THEN WithoutRbac(Tree) ELSE Tree
    BY DEF FrontendInv, Made
  <2>3. PICK g \in AdminSection(Tree) : g.name = F
    BY FirstAdminGroupIsAdmin DEF FrontendInv, Tree
  <2> HIDE DEF items, F
  <2>4. g \in ItemMap(items) /\ g.parent = Unset /\ F \in AdminNames
    BY <2>1, <2>3 DEF AdminSection, Section, buildTree
  <2>5. PICK r \in ItemMap(items) : r.name = RbacName /\ r.parent = F
    BY <2>1, TitledAreListed DEF Placed
  <2>6. F # Unset
    BY DEF Parents
  <2>7. \A e \in ItemMap(items) : e.name = RbacName => e = r
    BY <2>1, <2>5, OneEntryPerName
  <2>8. showAdministration
    <3>1. F \in Titled(items)
      BY DEF Placed
    <3>2. PICK e \in ItemMap(items) :
                 /\ e.name = F
                 /\ Parents(items, F) # {} => e.parent \in Parents(items, F)
      BY <2>1, <3>1, TitledAreListed
    <3>3. e = g
      BY <2>1, <2>3, <2>4, <3>2, OneEntryPerName
    <3>4. Parents(items, F) = {}
      BY <2>4, <3>2, <3>3 DEF Parents
    <3> QED
      BY <2>4, <3>4 DEF Placed
  <2>9. ASSUME permission = "denied" PROVE RbacName \notin Shown(menu, showAdministration)
    <3>1. menu = WithoutRbac(Tree)
      BY <2>2, <2>8, <2>9 DEF FrontendInv
    <3>2. \A e \in menu.roots : e.name # RbacName
      <4>1. menu.roots = Tree.roots
        BY <2>1, <3>1, WithoutRbacChildren
      <4>2. \A e \in Tree.roots : e \in ItemMap(items) /\ e.parent = Unset
        BY <2>1 DEF buildTree
      <4> QED
        BY <2>5, <2>6, <2>7, <4>1, <4>2
    <3>3. ASSUME NEW p \in Names(items) PROVE RbacName \notin menu.children[p]
      <4>1. CASE p = F
        BY <2>1, <3>1, <3>3, <4>1, WithoutRbacChildren DEF F
      <4>2. CASE p # F
        <5>1. RbacName \notin Tree.children[p]
          BY <2>1, <2>5, <2>7, <3>3, <4>2 DEF buildTree
        <5> QED
          BY <2>1, <3>1, <3>3, <5>1, WithoutRbacChildren
      <4> QED
        BY <4>1, <4>2
    <3>4. \A e \in menu.roots : e.name \in Names(items)
      BY <2>1, <3>1, WithoutRbacChildren DEF buildTree, ItemMap
    <3>5. ASSUME NEW p \in Names(items) PROVE menu.children[p] \subseteq Names(items)
      <4>1. Tree.children[p] \subseteq Names(items)
        BY <2>1, <3>5 DEF buildTree, ItemMap
      <4> QED
        BY <2>1, <3>1, <3>5, <4>1, WithoutRbacChildren
    <3> DEFINE below(names) == UNION {menu.children[m] : m \in names}
               sections == Section(menu, TRUE, FALSE) \cup Section(menu, FALSE, FALSE)
                             \cup IF showAdministration THEN AdminSection(menu) ELSE {}
               top == {e.name : e \in sections}
    <3>6. Shown(menu, showAdministration) = top \cup below(top) \cup below(below(top))
      BY DEF Shown
    <3>7. sections \subseteq menu.roots
      BY DEF Section, AdminSection
    <3>8. top \subseteq Names(items) /\ RbacName \notin top
      BY <3>2, <3>4, <3>7
    <3>9. ASSUME NEW names \in SUBSET Names(items)
          PROVE  below(names) \subseteq Names(items) /\ RbacName \notin below(names)
      BY <3>3, <3>5
    <3> HIDE DEF top, below
    <3> QED
      BY <3>6, <3>8, <3>9
  <2>10. ASSUME ~ refused PROVE RbacName \in Shown(menu, showAdministration)
    <3>1. menu = Tree
      BY <2>2, <2>10
    <3> DEFINE hidden == {}
    <3>2. \A p \in Names(items) : buildTree(items).children[p] \ hidden \subseteq menu.children[p]
      BY <2>1, <3>1
    <3>3. RbacName \notin hidden /\ Parents(items, RbacName) \cap hidden = {}
      OBVIOUS
    <3> HIDE DEF hidden
    <3> QED
      BY <2>1, <3>1, <3>2, <3>3, PlacedAreShown
  <2> QED
    BY <2>9, <2>10
<1> QED
  BY <1>1, FrontendInvariant, PTL

-----------------------------------------------------------------------------
(* The entity page: EntityPage. *)

\* The cards of modules that exist.
IsCard(card) == card.slot \in DOMAIN CardOf /\ <<card.scope, card.module>> \in DOMAIN Exports

\* The answers to the conditions under a key, with the APIs and without them.
AnswersWith(card, key, e) ==
  [i \in DOMAIN CardOf[card.slot].if[key] |->
     conditionsArrayMapper(CardOf[card.slot].if[key][i], card, e, TRUE)]
AnswersWithout(card, key, e) ==
  [i \in DOMAIN CardOf[card.slot].if[key] |->
     conditionsArrayMapper(CardOf[card.slot].if[key][i], card, e, FALSE)]

\* A condition is met, not met, or throws; it throws or answers the same without APIs.
LEMMA ConditionsAgree ==
  ASSUME NEW card, IsCard(card), NEW e \in Entities, NEW condition
  PROVE  /\ conditionsArrayMapper(condition, card, e, TRUE) \in {"yes", "no", "throws"}
         /\ conditionsArrayMapper(condition, card, e, FALSE)
              \in {"throws", conditionsArrayMapper(condition, card, e, TRUE)}
<1> DEFINE asks == /\ "import" \in DOMAIN condition
                   /\ condition.import \in Exports[<<card.scope, card.module>>]
           says == YesIf(/\ "import" \notin DOMAIN condition
                         /\ IF "isKind" \in DOMAIN condition THEN e.kind \in condition.isKind
                            ELSE IF "isType" \in DOMAIN condition
                                   THEN e.type \in condition.isType
                            ELSE /\ "hasAnnotation" \in DOMAIN condition
                                 /\ condition.hasAnnotation \in e.annotations)
<1>1. \A context : conditionsArrayMapper(condition, card, e, context)
                     = IF asks THEN PluginAnswer(condition.import, e, context) ELSE says
  BY Zenon DEF conditionsArrayMapper
<1>2. says \in {"yes", "no"}
  BY DEF YesIf
<1>3. ASSUME asks
      PROVE  /\ PluginAnswer(condition.import, e, TRUE) \in {"yes", "no", "throws"}
             /\ PluginAnswer(condition.import, e, FALSE)
                  \in {"throws", PluginAnswer(condition.import, e, TRUE)}
  <2>1. condition.import \in UNION {Exports[mod] : mod \in DOMAIN Exports}
    BY <1>3 DEF IsCard
  <2> QED
    BY <2>1, PluginAnswerAssumption
<1> HIDE DEF asks, says
<1> QED
  BY <1>1, <1>2, <1>3

\* The first answer that differs, or the answer none differs from.
LEMMA FirstOtherDecides ==
  ASSUME NEW answers, DOMAIN answers \subseteq Nat, NEW answer
  PROVE  \/ /\ \A i \in DOMAIN answers : answers[i] = answer
            /\ FirstOther(answers, answer) = answer
         \/ \E k \in DOMAIN answers :
              /\ answers[k] # answer
              /\ FirstOther(answers, answer) = answers[k]
              /\ \A i \in DOMAIN answers : i < k => answers[i] = answer
<1> DEFINE others == {i \in DOMAIN answers : answers[i] # answer}
<1>1. FirstOther(answers, answer) = IF others = {} THEN answer ELSE answers[Min(others)]
  BY DEF FirstOther
<1>2. CASE others = {}
  BY <1>1, <1>2
<1>3. CASE others # {}
  <2>1. Min(others) \in others /\ \A i \in others : Min(others) <= i
    BY <1>3, MinOfNumbers
  <2>2. \A i \in DOMAIN answers : i < Min(others) => i \notin others
    BY <2>1
  <2> QED
    BY <1>1, <1>3, <2>1, <2>2
<1> QED
  BY <1>2, <1>3

\* A condition asked without APIs answers what it answers with them, or throws.
LEMMA AnswersAgree ==
  ASSUME NEW card, IsCard(card), NEW e \in Entities, NEW key \in DOMAIN CardOf[card.slot].if
  PROVE  /\ DOMAIN CardOf[card.slot].if[key] \subseteq Nat
         /\ DOMAIN AnswersWith(card, key, e) = DOMAIN CardOf[card.slot].if[key]
         /\ DOMAIN AnswersWithout(card, key, e) = DOMAIN CardOf[card.slot].if[key]
         /\ \A i \in DOMAIN CardOf[card.slot].if[key] :
              /\ AnswersWith(card, key, e)[i] \in {"yes", "no", "throws"}
              /\ AnswersWithout(card, key, e)[i] \in {"throws", AnswersWith(card, key, e)[i]}
<1>1. IsList(CardOf[card.slot].if[key])
  BY CardsAssumption DEF IsCard
<1>2. DOMAIN CardOf[card.slot].if[key] \subseteq Nat
  BY <1>1 DEF IsList
<1>3. ASSUME NEW i \in DOMAIN CardOf[card.slot].if[key]
      PROVE  /\ AnswersWith(card, key, e)[i] \in {"yes", "no", "throws"}
             /\ AnswersWithout(card, key, e)[i] \in {"throws", AnswersWith(card, key, e)[i]}
  <2> DEFINE condition == CardOf[card.slot].if[key][i]
  <2>1. /\ AnswersWith(card, key, e)[i] = conditionsArrayMapper(condition, card, e, TRUE)
        /\ AnswersWithout(card, key, e)[i] = conditionsArrayMapper(condition, card, e, FALSE)
    BY DEF AnswersWith, AnswersWithout
  <2> HIDE DEF condition
  <2> QED
    BY <2>1, ConditionsAgree
<1>4. /\ DOMAIN AnswersWith(card, key, e) = DOMAIN CardOf[card.slot].if[key]
      /\ DOMAIN AnswersWithout(card, key, e) = DOMAIN CardOf[card.slot].if[key]
  BY DEF AnswersWith, AnswersWithout
<1> QED
  BY <1>2, <1>3, <1>4

\* configIfToCallable in terms of those answers.
LEMMA CallableAnswers ==
  ASSUME NEW card, NEW e
  PROVE  LET conditional == CardOf[card.slot].if
             decided(answers(_)) ==
               IF "allOf" \in DOMAIN conditional THEN FirstOther(answers("allOf"), "yes")
               ELSE IF "anyOf" \in DOMAIN conditional THEN FirstOther(answers("anyOf"), "no")
               ELSE IF "oneOf" \in DOMAIN conditional
               THEN IF "throws" \in ToSet(answers("oneOf")) THEN "throws"
                    ELSE YesIf(Cardinality({i \in DOMAIN answers("oneOf") :
                                              answers("oneOf")[i] = "yes"}) = 1)
               ELSE "yes"
             with(key) == AnswersWith(card, key, e)
             without(key) == AnswersWithout(card, key, e)
         IN  /\ configIfToCallable(card, e, TRUE) = decided(with)
             /\ configIfToCallable(card, e, FALSE) = decided(without)
BY Zenon DEF configIfToCallable, AnswersWith, AnswersWithout

\* A card that is asked without the APIs and says yes says yes with them.
LEMMA YesRemainsYes ==
  ASSUME NEW card, IsCard(card), NEW e \in Entities, errorWrappedCondition(card, e, FALSE)
  PROVE  errorWrappedCondition(card, e, TRUE)
<1> DEFINE conditional == CardOf[card.slot].if
           without(key) == AnswersWithout(card, key, e)
           with(key) == AnswersWith(card, key, e)
<1>1. \A key \in DOMAIN conditional :
        /\ DOMAIN without(key) = DOMAIN with(key) /\ DOMAIN with(key) \subseteq Nat
        /\ \A i \in DOMAIN with(key) : without(key)[i] \in {"throws", with(key)[i]}
  BY AnswersAgree
<1>2. configIfToCallable(card, e, FALSE) = "yes"
  BY DEF errorWrappedCondition
<1> SUFFICES configIfToCallable(card, e, TRUE) = "yes"
  BY DEF errorWrappedCondition
<1> HIDE DEF conditional, without, with
<1>3. CASE "allOf" \in DOMAIN conditional
  <2>1. FirstOther(without("allOf"), "yes") = "yes"
    BY <1>2, <1>3, CallableAnswers DEF conditional, without
  <2>2. \A i \in DOMAIN without("allOf") : without("allOf")[i] = "yes"
    BY <1>1, <1>3, <2>1, FirstOtherDecides
  <2>3. \A i \in DOMAIN with("allOf") : with("allOf")[i] = "yes"
    BY <1>1, <1>3, <2>2
  <2>4. FirstOther(with("allOf"), "yes") = "yes"
    BY <1>1, <1>3, <2>3, FirstOtherDecides
  <2> QED
    BY <1>3, <2>4, CallableAnswers DEF conditional, with
<1>4. CASE "allOf" \notin DOMAIN conditional /\ "anyOf" \in DOMAIN conditional
  <2>1. FirstOther(without("anyOf"), "no") = "yes"
    BY <1>2, <1>4, CallableAnswers DEF conditional, without
  <2>2. PICK k \in DOMAIN without("anyOf") :
               /\ without("anyOf")[k] = "yes"
               /\ \A i \in DOMAIN without("anyOf") : i < k => without("anyOf")[i] = "no"
    BY <1>1, <1>4, <2>1, FirstOtherDecides
  <2>3. /\ k \in DOMAIN with("anyOf") /\ with("anyOf")[k] = "yes"
        /\ \A i \in DOMAIN with("anyOf") : i < k => with("anyOf")[i] = "no"
    BY <1>1, <1>4, <2>2
  <2>4. PICK j \in DOMAIN with("anyOf") :
               /\ with("anyOf")[j] # "no" /\ FirstOther(with("anyOf"), "no") = with("anyOf")[j]
               /\ \A i \in DOMAIN with("anyOf") : i < j => with("anyOf")[i] = "no"
    BY <1>1, <1>4, <2>3, FirstOtherDecides
  <2>5. j = k
    BY <1>1, <1>4, <2>3, <2>4
  <2>6. FirstOther(with("anyOf"), "no") = "yes"
    BY <2>3, <2>4, <2>5
  <2> QED
    BY <1>4, <2>6, CallableAnswers DEF conditional, with
<1>5. CASE /\ "allOf" \notin DOMAIN conditional /\ "anyOf" \notin DOMAIN conditional
           /\ "oneOf" \in DOMAIN conditional
  <2>1. /\ "throws" \notin ToSet(without("oneOf"))
        /\ YesIf(Cardinality({i \in DOMAIN without("oneOf") : without("oneOf")[i] = "yes"}) = 1)
             = "yes"
    BY <1>2, <1>5, CallableAnswers DEF conditional, without
  <2>2. \A i \in DOMAIN with("oneOf") : with("oneOf")[i] = without("oneOf")[i]
    BY <1>1, <1>5, <2>1 DEF ToSet
  <2>3. "throws" \notin ToSet(with("oneOf"))
    BY <1>1, <1>5, <2>1, <2>2 DEF ToSet
  <2>4. {i \in DOMAIN with("oneOf") : with("oneOf")[i] = "yes"}
          = {i \in DOMAIN without("oneOf") : without("oneOf")[i] = "yes"}
    BY <1>1, <1>5, <2>2
  <2> QED
    BY <1>5, <2>1, <2>3, <2>4, CallableAnswers DEF conditional, with
<1>6. CASE DOMAIN conditional \cap {"allOf", "anyOf", "oneOf"} = {}
  BY <1>6, CallableAnswers DEF conditional
<1> QED
  BY <1>3, <1>4, <1>5, <1>6

\* A plain condition means the same with the APIs and without them.
LEMMA PlainCardsFollow ==
  ASSUME NEW card, IsCard(card), NEW e \in Entities, Plain(card, e)
  PROVE  /\ errorWrappedCondition(card, e, TRUE) <=> Meant(card, e)
         /\ errorWrappedCondition(card, e, FALSE) <=> Meant(card, e)
<1> DEFINE conditional == CardOf[card.slot].if
           with(key) == AnswersWith(card, key, e)
           met(key) == {i \in DOMAIN with(key) : with(key)[i] = "yes"}
<1>1. ASSUME NEW key \in DOMAIN conditional
      PROVE  /\ AnswersWithout(card, key, e) = with(key)
             /\ DOMAIN with(key) = DOMAIN conditional[key] /\ DOMAIN with(key) \subseteq Nat
             /\ \A i \in DOMAIN with(key) : with(key)[i] \in {"yes", "no"}
  <2>1. \A i \in DOMAIN conditional[key] : AnswersWithout(card, key, e)[i] # "throws"
    BY DEF Plain, AnswersWithout
  <2>2. \A i \in DOMAIN conditional[key] :
          /\ AnswersWithout(card, key, e)[i] = with(key)[i]
          /\ with(key)[i] \in {"yes", "no"}
    BY <2>1, AnswersAgree
  <2>3. AnswersWithout(card, key, e) = with(key)
    BY <2>2 DEF AnswersWith, AnswersWithout
  <2> QED
    BY <2>2, <2>3, AnswersAgree
<1>2. DOMAIN conditional \in {{}, {"allOf"}, {"anyOf"}, {"oneOf"}}
  BY DEF Plain
<1>3. Meant(card, e) <=>
        \A key \in DOMAIN conditional :
          \/ key = "allOf" /\ met(key) = DOMAIN conditional[key]
          \/ key = "anyOf" /\ met(key) # {}
          \/ key = "oneOf" /\ Cardinality(met(key)) = 1
  <2>1. \A key \in DOMAIN conditional :
          met(key) = {i \in DOMAIN conditional[key] :
                        conditionsArrayMapper(conditional[key][i], card, e, TRUE) = "yes"}
    BY DEF AnswersWith, AnswersWithout
  <2> HIDE DEF met
  <2> QED
    BY <2>1 DEF Meant
<1>4. configIfToCallable(card, e, FALSE) = configIfToCallable(card, e, TRUE)
  <2>1. \A key \in DOMAIN CardOf[card.slot].if :
          AnswersWithout(card, key, e) = AnswersWith(card, key, e)
    BY <1>1
  <2>2. CASE "allOf" \in DOMAIN conditional
    BY <2>1, <2>2, CallableAnswers
  <2>3. CASE "allOf" \notin DOMAIN conditional /\ "anyOf" \in DOMAIN conditional
    BY <2>1, <2>3, CallableAnswers
  <2>4. CASE /\ "allOf" \notin DOMAIN conditional /\ "anyOf" \notin DOMAIN conditional
             /\ "oneOf" \in DOMAIN conditional
    <3>1. AnswersWithout(card, "oneOf", e) = AnswersWith(card, "oneOf", e)
      BY <2>1, <2>4
    <3> DEFINE says(answers) ==
                 IF "throws" \in ToSet(answers) THEN "throws"
                 ELSE YesIf(Cardinality({i \in DOMAIN answers : answers[i] = "yes"}) = 1)
    <3>2. configIfToCallable(card, e, FALSE) = says(AnswersWithout(card, "oneOf", e))
      BY <2>4, CallableAnswers
    <3>3. configIfToCallable(card, e, TRUE) = says(AnswersWith(card, "oneOf", e))
      BY <2>4, CallableAnswers
    <3> HIDE DEF says
    <3> QED
      BY <3>1, <3>2, <3>3
  <2>5. CASE DOMAIN conditional \cap {"allOf", "anyOf", "oneOf"} = {}
    BY <2>5, CallableAnswers
  <2> QED
    BY <2>2, <2>3, <2>4, <2>5
<1>5. configIfToCallable(card, e, TRUE) = "yes" <=> Meant(card, e)
  <2> HIDE DEF conditional, with
  <2>1. CASE DOMAIN conditional = {}
    BY <1>3, <2>1, CallableAnswers DEF conditional
  <2>2. CASE DOMAIN conditional = {"allOf"}
    <3>1. configIfToCallable(card, e, TRUE) = FirstOther(with("allOf"), "yes")
      BY <2>2, CallableAnswers DEF conditional, with
    <3>2. FirstOther(with("allOf"), "yes") = "yes"
            <=> \A i \in DOMAIN with("allOf") : with("allOf")[i] = "yes"
      BY <1>1, <2>2, FirstOtherDecides
    <3> QED
      BY <1>1, <1>3, <2>2, <3>1, <3>2
  <2>3. CASE DOMAIN conditional = {"anyOf"}
    <3>1. configIfToCallable(card, e, TRUE) = FirstOther(with("anyOf"), "no")
      BY <2>3, CallableAnswers DEF conditional, with
    <3>2. FirstOther(with("anyOf"), "no") = "yes"
            <=> \E i \in DOMAIN with("anyOf") : with("anyOf")[i] = "yes"
      BY <1>1, <2>3, FirstOtherDecides
    <3> QED
      BY <1>3, <2>3, <3>1, <3>2
  <2>4. CASE DOMAIN conditional = {"oneOf"}
    <3>1. "throws" \notin ToSet(with("oneOf"))
      BY <1>1, <2>4 DEF ToSet
    <3>2. configIfToCallable(card, e, TRUE) = YesIf(Cardinality(met("oneOf")) = 1)
      BY <2>4, <3>1, CallableAnswers DEF conditional, with
    <3> QED
      BY <1>3, <2>4, <3>2 DEF YesIf
  <2> QED
    BY <1>2, <2>1, <2>2, <2>3, <2>4
<1> QED
  BY <1>4, <1>5 DEF errorWrappedCondition

\* What is compiled in shows no tab without content (defaultTabs.tsx).
LEMMA OwnReasonHasContent ==
  ASSUME NEW path, NEW e, HasOwnReason(path, e)
  PROVE  OwnCards(path, e) # {}
BY DEF HasOwnReason, OwnCards, tabRules, tabChildren, RuledPaths, OverviewTabContent,
       ApiTabContent, DependenciesTabContent, DefinitionTabContent, DiagramTabContent

\* EntityPage: on every tab of every entity the cards with plain conditions are those
\* meant for the entity, and no tab is empty, whichever plugins were loaded.
THEOREM EntityPagesFit == Spec => []EntityPageFits
<1>1. FrontendInv => EntityPageFits
  <2> SUFFICES ASSUME FrontendInv, stage = "shown", NEW mountPoint, NEW path,
                      NEW e \in Entities
               PROVE  LET cards == getMountPointData(mountPoint)
                      IN  CardsFollowConditions(path, cards, e) /\ TabIsNotEmpty(path, cards, e)
    BY DEF EntityPageFits
  <2> DEFINE cards == getMountPointData(mountPoint)
  <2>1. \A card \in cards : IsCard(card)
    <3>1. registry = RegistryOf(plugins, loaded) /\ loaded \subseteq DOMAIN Exports
      BY DEF FrontendInv, Made, Loadable
    <3> QED
      BY <3>1 DEF getMountPointData, RegistryOf, Served, Found, IsCard
  <2> HIDE DEF cards
  <2>2. CardsFollowConditions(path, cards, e)
    <3>1. SUFFICES ASSUME NEW card \in cards, Plain(card, e)
                   PROVE  card \in CardsShown(path, cards, e) <=> Meant(card, e)
      BY DEF CardsFollowConditions
    <3>2. /\ errorWrappedCondition(card, e, TRUE) <=> Meant(card, e)
          /\ errorWrappedCondition(card, e, FALSE) <=> Meant(card, e)
      BY <2>1, <3>1, PlainCardsFollow
    <3> QED
      BY <3>1, <3>2 DEF CardsShown, TabShown
  <2>3. TabIsNotEmpty(path, cards, e)
    <3>1. SUFFICES ASSUME TabShown(path, cards, e)
                   PROVE  OwnCards(path, e) # {} \/ CardsShown(path, cards, e) # {}
      BY DEF TabIsNotEmpty
    <3>2. CASE HasOwnReason(path, e)
      BY <3>2, OwnReasonHasContent
    <3>3. ASSUME NEW card \in cards, errorWrappedCondition(card, e, FALSE)
          PROVE  card \in CardsShown(path, cards, e)
      BY <2>1, <3>1, <3>3, YesRemainsYes DEF CardsShown
    <3> QED
      BY <3>1, <3>2, <3>3 DEF TabShown
  <2> QED
    BY <2>2, <2>3 DEF cards
<1> QED
  BY <1>1, FrontendInvariant, PTL

-----------------------------------------------------------------------------
(* The words: Translations. *)

\* First picks an element that none is earlier than, and the only one when places are
\* taken once.
LEMMA FirstIsEarliest ==
  ASSUME NEW S, S # {}, \A c \in S : c.at \in Nat \X Nat
  PROVE  First(S) \in S /\ \A d \in S : ~ Earlier(d, First(S))
<1> DEFINE plugins1 == {c.at[1] : c \in S}
<1>1. plugins1 \in SUBSET Nat /\ plugins1 # {}
  OBVIOUS
<1>2. PICK i \in plugins1 : \A x \in plugins1 : i <= x
  BY <1>1, LeastNumber
<1> DEFINE uses == {c.at[2] : c \in {c \in S : c.at[1] = i}}
<1>3. uses \in SUBSET Nat /\ uses # {}
  BY <1>2
<1>4. PICK j \in uses : \A x \in uses : j <= x
  BY <1>3, LeastNumber
<1>5. PICK c \in S : c.at[1] = i /\ c.at[2] = j
  BY <1>4
<1>6. ASSUME NEW d \in S PROVE ~ Earlier(d, c)
  <2>1. d.at[1] \in Nat /\ d.at[2] \in Nat /\ c.at[1] \in Nat /\ c.at[2] \in Nat
    OBVIOUS
  <2>2. i <= d.at[1]
    BY <1>2
  <2>3. d.at[1] = i => j <= d.at[2]
    BY <1>4
  <2> HIDE DEF plugins1, uses
  <2> QED
    BY <1>5, <2>1, <2>2, <2>3 DEF Earlier
<1> QED
  BY <1>5, <1>6 DEF First

\* When places tell resources apart, the one that none precedes is the first.
LEMMA FirstIsTheOne ==
  ASSUME NEW S, \A c \in S : c.at \in Nat \X Nat,
         \A c, d \in S : c.at = d.at => c = d,
         NEW f \in S, \A d \in S : ~ Earlier(d, f)
  PROVE  First(S) = f
<1>1. First(S) \in S /\ ~ Earlier(f, First(S)) /\ ~ Earlier(First(S), f)
  BY FirstIsEarliest
<1>2. f.at \in Nat \X Nat /\ First(S).at \in Nat \X Nat
  BY <1>1
<1>3. f.at[1] = First(S).at[1] /\ f.at[2] = First(S).at[2]
  BY <1>1, <1>2 DEF Earlier
<1>4. f.at = First(S).at
  BY <1>2, <1>3
<1> QED
  BY <1>1, <1>4

\* Places are pairs of numbers, those of contributions within the plugins and each
\* taken once.
LEMMA ContributionsHavePlaces ==
  ASSUME NEW ps \in Frontends \cup {<<>>}
  PROVE  /\ Len(ps) \in Nat
         /\ \A c \in Contributions(ps) :
              c.at \in Nat \X Nat /\ c.at[1] <= Len(ps)
         /\ \A c, d \in Contributions(ps) : c.at = d.at => c = d
<1>1. DOMAIN ps = 1 .. Len(ps) /\ Len(ps) \in Nat
  <2>1. CASE ps = <<>>
    BY <2>1
  <2>2. CASE ps \in Frontends
    BY <2>2, FrontendsAssumption DEF IsList
  <2> QED
    BY <2>1, <2>2
<1>2. ASSUME NEW i \in DOMAIN ps PROVE DOMAIN ps[i].uses \subseteq Nat
  <2>1. ps \in Frontends /\ ps[i] \in ToSet(ps)
    BY DEF ToSet
  <2>2. IsList(ps[i].uses)
    BY <2>1, FrontendsAssumption DEF CustomProperties, MenuItemConfig
  <2> QED
    BY <2>2 DEF IsList
<1> DEFINE made(i, j) ==
      [at |-> <<i, j>>, kind |-> ps[i].uses[j].kind, scope |-> ps[i].scope,
       module |-> ps[i].uses[j].module, import |-> ps[i].uses[j].import,
       slot |-> ps[i].uses[j].slot]
<1>3. \A c \in Contributions(ps) : \E i \in DOMAIN ps : \E j \in DOMAIN ps[i].uses : c = made(i, j)
  BY Zenon DEF Contributions, Contribution
<1>4. \A i, j : made(i, j).at = <<i, j>>
  OBVIOUS
<1>5. \A c \in Contributions(ps) :
        \E i \in DOMAIN ps : \E j \in DOMAIN ps[i].uses : c = made(i, j) /\ c.at = <<i, j>>
  BY <1>3, <1>4
<1> HIDE DEF made
<1>6. ASSUME NEW c \in Contributions(ps)
      PROVE  c.at \in Nat \X Nat /\ c.at[1] <= Len(ps)
  <2>1. PICK i \in DOMAIN ps, j \in Nat : c.at = <<i, j>>
    BY <1>2, <1>5
  <2>2. i \in Nat /\ i <= Len(ps)
    BY <1>1
  <2> QED
    BY <2>1, <2>2
<1>7. ASSUME NEW c \in Contributions(ps), NEW d \in Contributions(ps), c.at = d.at
      PROVE  c = d
  <2>1. PICK i, j : c = made(i, j) /\ c.at = <<i, j>>
    BY <1>5
  <2>2. PICK k, m : d = made(k, m) /\ d.at = <<k, m>>
    BY <1>5
  <2>3. i = k /\ j = m
    BY <1>7, <2>1, <2>2
  <2> QED
    BY <2>1, <2>2, <2>3
<1> QED
  BY <1>1, <1>6, <1>7

\* The words of a resource after the overrides of its id.
Merges(r, w, json) ==
  /\ DOMAIN r.messages = DOMAIN w.messages \cup DOMAIN json
  /\ \A l \in DOMAIN r.messages :
       LET ours == Said(json, l)
           theirs == Said(w.messages, l)
       IN  /\ DOMAIN r.messages[l] = DOMAIN ours \cup DOMAIN theirs
           /\ \A key \in DOMAIN r.messages[l] :
                r.messages[l][key] = IF key \in DOMAIN ours THEN ours[key] ELSE theirs[key]

\* The empty file of overrides says nothing in any language.
LEMMA NothingSaid == DOMAIN <<>> = {} /\ \A l : Said(<<>>, l) = <<>>
BY DEF Said

\* A resource without overrides is itself, merged with none.
LEMMA MergedWithNothing ==
  ASSUME NEW w
  PROVE  Merges(w, w, <<>>)
<1>1. \A l \in DOMAIN w.messages : Said(w.messages, l) = w.messages[l]
  BY DEF Said
<1> QED
  BY <1>1, NothingSaid DEF Merges

\* mergeTranslations adds the languages of the overrides, and puts them before the
\* messages of the resource.
LEMMA MergedWithOverrides ==
  ASSUME NEW place, NEW other, NEW ref, NEW resource, NEW json
  PROVE  Merges(At(place, translationResourceGenerator(ref, resource, json)),
                At(other, resource), json)
<1>1. At(place, translationResourceGenerator(ref, resource, json)).messages
        = mergeTranslations(resource, json)
  BY DEF At, translationResourceGenerator
<1>2. At(other, resource).messages = resource.messages
  BY DEF At
<1>3. ASSUME NEW l \in DOMAIN resource.messages \cup DOMAIN json
      PROVE  mergeTranslations(resource, json)[l]
               = Over(Said(json, l), Said(resource.messages, l))
  BY DEF mergeTranslations
<1>4. DOMAIN mergeTranslations(resource, json) = DOMAIN resource.messages \cup DOMAIN json
  BY DEF mergeTranslations
<1> QED
  <2> DEFINE M == mergeTranslations(resource, json)
  <2>2. ASSUME NEW l \in DOMAIN M
        PROVE  /\ DOMAIN M[l] = DOMAIN Said(json, l) \cup DOMAIN Said(resource.messages, l)
               /\ \A key \in DOMAIN M[l] :
                    M[l][key] = IF key \in DOMAIN Said(json, l) THEN Said(json, l)[key]
                                ELSE Said(resource.messages, l)[key]
    <3> DEFINE ours == Said(json, l)
               theirs == Said(resource.messages, l)
    <3>1. M[l] = Over(ours, theirs)
      BY <1>3, <1>4
    <3> HIDE DEF M, ours, theirs
    <3>2. /\ DOMAIN M[l] = DOMAIN ours \cup DOMAIN theirs
          /\ \A key \in DOMAIN ours \cup DOMAIN theirs :
               M[l][key] = IF key \in DOMAIN ours THEN ours[key] ELSE theirs[key]
      BY <3>1 DEF Over
    <3> QED
      BY <3>2 DEF ours, theirs
  <2> HIDE DEF M
  <2>3. DOMAIN M = DOMAIN resource.messages \cup DOMAIN json
    BY <1>4 DEF M
  <2>4. At(place, translationResourceGenerator(ref, resource, json)).messages = M
    BY <1>1 DEF M
  <2> QED
    BY <1>2, <2>2, <2>3, <2>4 DEF Merges

\* One list of resources is another after the overrides of an id.
Overridden(resources, without, id, json) ==
  /\ \A r \in resources \cup without : r.at \in Nat \X Nat
  /\ \A c, d \in resources : c.at = d.at => c = d
  /\ \A c, d \in without : c.at = d.at => c = d
  /\ \A w \in OfId(without, id) :
       \E r \in OfId(resources, id) : r.at = w.at /\ Merges(r, w, json)
  /\ \A r \in OfId(resources, id) :
       \E w \in OfId(without, id) : w.at = r.at /\ Merges(r, w, json)

\* What the overrides say is what the first resource of the language says.
LEMMA OverridesAreSaid ==
  ASSUME NEW resources, NEW without, NEW id, NEW json, NEW l, NEW key,
         Overridden(resources, without, id, json), OfId(without, id) # {},
         key \in DOMAIN Said(json, l)
  PROVE  Translated(resources, id, l, key) = Said(json, l)[key]
<1> DEFINE asked == InLanguage(resources, id, l)
<1>1. l \in DOMAIN json
  BY NothingSaid DEF Said
<1>2. \A r \in OfId(resources, id) :
        /\ l \in DOMAIN r.messages /\ key \in DOMAIN r.messages[l]
        /\ r.messages[l][key] = Said(json, l)[key]
  BY <1>1 DEF Overridden, Merges
<1>3. asked = OfId(resources, id)
  BY <1>2 DEF InLanguage
<1>4. asked # {}
  BY <1>3 DEF Overridden
<1>5. First(asked) \in asked
  <2>1. \A c \in asked : c.at \in Nat \X Nat
    BY <1>3 DEF Overridden, OfId
  <2> QED
    BY <1>4, <2>1, FirstIsEarliest
<1> QED
  BY <1>2, <1>3, <1>4, <1>5 DEF Translated

\* What they do not say is said by the resource that said it without them.
LEMMA TheRestIsSaidAsBefore ==
  ASSUME NEW resources, NEW without, NEW id, NEW json, NEW l, NEW key,
         Overridden(resources, without, id, json),
         FirstHas(without, id, l), key \notin DOMAIN Said(json, l)
  PROVE  Translated(resources, id, l, key) = Translated(without, id, l, key)
<1> DEFINE asked == InLanguage(resources, id, l)
           before == InLanguage(without, id, l)
<1>1. /\ asked = {r \in OfId(resources, id) : l \in DOMAIN r.messages}
      /\ before = {w \in OfId(without, id) : l \in DOMAIN w.messages}
  BY DEF InLanguage
<1>2. /\ \A c \in OfId(resources, id) : c.at \in Nat \X Nat
      /\ \A c \in OfId(without, id) : c.at \in Nat \X Nat
      /\ \A c, d \in OfId(resources, id) : c.at = d.at => c = d
      /\ \A c, d \in OfId(without, id) : c.at = d.at => c = d
  BY DEF Overridden, OfId
<1>3. /\ Translated(resources, id, l, key)
           = IF asked # {} /\ key \in DOMAIN First(asked).messages[l]
             THEN First(asked).messages[l][key] ELSE None
      /\ Translated(without, id, l, key)
           = IF before # {} /\ key \in DOMAIN First(before).messages[l]
             THEN First(before).messages[l][key] ELSE None
  BY DEF Translated
<1> HIDE DEF asked, before
<1>4. CASE before = {}
  <2>1. ASSUME asked # {} PROVE key \notin DOMAIN First(asked).messages[l]
    <3>1. First(asked) \in asked
      BY <1>1, <1>2, <2>1, FirstIsEarliest
    <3>2. PICK w \in OfId(without, id) : Merges(First(asked), w, json)
      BY <1>1, <3>1 DEF Overridden
    <3>3. Said(w.messages, l) = <<>>
      BY <1>1, <1>4, <3>2 DEF Said
    <3> QED
      BY <1>1, <3>1, <3>2, <3>3, NothingSaid DEF Merges
  <2> QED
    BY <1>3, <1>4, <2>1
<1>5. CASE before # {}
  <2> DEFINE f == First(OfId(without, id))
  <2>1. l \in DOMAIN f.messages
    BY <1>5 DEF FirstHas, before
  <2>2. f \in OfId(without, id) /\ \A d \in OfId(without, id) : ~ Earlier(d, f)
    BY <1>1, <1>2, <1>5, FirstIsEarliest
  <2> HIDE DEF f
  <2>3. First(before) = f
    BY <1>1, <1>2, <2>1, <2>2, FirstIsTheOne
  <2>4. PICK g \in OfId(resources, id) : g.at = f.at /\ Merges(g, f, json)
    BY <2>2 DEF Overridden
  <2>5. l \in DOMAIN g.messages
    BY <2>1, <2>4 DEF Merges
  <2>6. ASSUME NEW d \in asked PROVE ~ Earlier(d, g)
    <3>1. PICK w \in OfId(without, id) : w.at = d.at
      BY <1>1, <2>6 DEF Overridden
    <3> QED
      BY <2>2, <2>4, <3>1 DEF Earlier
  <2>7. g \in asked
    BY <1>1, <2>5
  <2>8. First(asked) = g
    BY <1>1, <1>2, <2>6, <2>7, FirstIsTheOne
  <2>9. Said(f.messages, l) = f.messages[l]
    BY <2>1 DEF Said
  <2>10. /\ key \in DOMAIN g.messages[l] <=> key \in DOMAIN f.messages[l]
         /\ key \in DOMAIN g.messages[l] => g.messages[l][key] = f.messages[l][key]
    BY <2>4, <2>5, <2>9 DEF Merges
  <2> QED
    BY <1>3, <1>5, <2>3, <2>7, <2>8, <2>10
<1> QED
  BY <1>4, <1>5

\* The overrides of the app do so to every id whose resources name their own refs.
LEMMA OverridesOverride ==
  ASSUME FrontendInv, NEW overrides, NEW id, Overridable(id)
  PROVE  Overridden(processAllTranslationResources(plugins, loaded, overrides),
                    processAllTranslationResources(plugins, loaded, <<>>),
                    id, Said(overrides, id))
<1> DEFINE given == translationResources(plugins, loaded)
           own(c) == ResourceOf[ImportOf(c)]
           place(k) == <<Len(plugins) + 1, k>>
           json == Said(overrides, id)
           All(o) == processAllTranslationResources(plugins, loaded, o)
           FromPlugin(c, o) == At(c.at, processPluginTranslationResource(c, o))
           Static(k, o) == At(place(k), processStaticTranslationResource(StaticConfigs[k], o))
<1>1. \A o : All(o) = {FromPlugin(c, o) : c \in given} \cup {Static(k, o) : k \in DOMAIN StaticConfigs}
  BY DEF processAllTranslationResources, processPluginTranslationResources,
         processStaticTranslationResources
<1>2. given \subseteq Contributions(plugins)
  BY DEF translationResources, Served, OfKinds
<1>3. /\ Len(plugins) \in Nat
      /\ \A c \in given : c.at \in Nat \X Nat /\ c.at[1] <= Len(plugins)
      /\ \A c, d \in given : c.at = d.at => c = d
  BY <1>2, ContributionsHavePlaces DEF FrontendInv
<1>4. DOMAIN StaticConfigs \subseteq Nat
      /\ \A k \in DOMAIN StaticConfigs : StaticConfigs[k].ref = StaticConfigs[k].resource.id
  BY StaticConfigsAssumption DEF IsList, ToSet
<1>5. /\ \A c, o : FromPlugin(c, o).at = c.at
      /\ \A k, o : Static(k, o).at = place(k)
  BY DEF At
<1>6. \A k \in DOMAIN StaticConfigs :
        /\ place(k) \in Nat \X Nat
        /\ \A c \in given : c.at # place(k)
        /\ \A j \in DOMAIN StaticConfigs : place(j) = place(k) => j = k
  BY <1>3, <1>4
<1>7. ASSUME NEW c \in given
      PROVE  /\ FromPlugin(c, overrides).id = id <=> FromPlugin(c, <<>>).id = id
             /\ FromPlugin(c, <<>>).id = id =>
                  Merges(FromPlugin(c, overrides), FromPlugin(c, <<>>), json)
  <2>1. FromPlugin(c, <<>>) = At(c.at, own(c))
    BY NothingSaid DEF processPluginTranslationResource
  <2>2. IF own(c).id = id THEN HasRef(c) /\ RefOfConfig(c) = id
        ELSE HasRef(c) => RefOfConfig(c) # id
    BY DEF Overridable
  <2>3. CASE own(c).id \in DOMAIN overrides /\ HasRef(c)
    <3>1. FromPlugin(c, overrides)
            = At(c.at, translationResourceGenerator(RefOfConfig(c), own(c), overrides[own(c).id]))
      BY <2>3 DEF processPluginTranslationResource
    <3>2. FromPlugin(c, overrides).id = RefOfConfig(c) /\ FromPlugin(c, <<>>).id = own(c).id
      BY <2>1, <3>1 DEF At, translationResourceGenerator
    <3>3. own(c).id = id => json = overrides[own(c).id]
      BY <2>3 DEF Said
    <3> QED
      BY <2>1, <2>2, <2>3, <3>1, <3>2, <3>3, MergedWithOverrides
  <2>4. CASE ~ (own(c).id \in DOMAIN overrides /\ HasRef(c))
    <3>1. FromPlugin(c, overrides) = FromPlugin(c, <<>>)
      BY <2>1, <2>4 DEF processPluginTranslationResource
    <3>2. FromPlugin(c, <<>>).id = own(c).id
      BY <2>1 DEF At
    <3>3. own(c).id = id => json = <<>>
      BY <2>2, <2>4 DEF Said
    <3> QED
      BY <3>1, <3>2, <3>3, MergedWithNothing
  <2> QED
    BY <2>3, <2>4
<1>8. ASSUME NEW k \in DOMAIN StaticConfigs
      PROVE  /\ Static(k, overrides).id = id <=> Static(k, <<>>).id = id
             /\ Static(k, <<>>).id = id => Merges(Static(k, overrides), Static(k, <<>>), json)
  <2> DEFINE resource == StaticConfigs[k].resource
  <2>1. Static(k, <<>>) = At(place(k), resource)
    BY NothingSaid DEF processStaticTranslationResource
  <2>2. CASE resource.id \in DOMAIN overrides
    <3>1. Static(k, overrides)
            = At(place(k), translationResourceGenerator(resource.id, resource,
                                                        overrides[resource.id]))
      BY <1>4, <2>2 DEF processStaticTranslationResource
    <3>2. Static(k, overrides).id = resource.id /\ Static(k, <<>>).id = resource.id
      BY <2>1, <3>1 DEF At, translationResourceGenerator
    <3>3. resource.id = id => json = overrides[resource.id]
      BY <2>2 DEF Said
    <3> QED
      BY <2>1, <3>1, <3>2, <3>3, MergedWithOverrides
  <2>3. CASE resource.id \notin DOMAIN overrides
    <3>1. Static(k, overrides) = Static(k, <<>>)
      BY <2>1, <2>3 DEF processStaticTranslationResource
    <3>2. Static(k, <<>>).id = resource.id
      BY <2>1 DEF At
    <3>3. resource.id = id => json = <<>>
      BY <2>3 DEF Said
    <3> QED
      BY <3>1, <3>2, <3>3, MergedWithNothing
  <2> QED
    BY <2>2, <2>3
<1> HIDE DEF given, own, place, json, All, FromPlugin, Static
<1>9. \A o : /\ \A r \in All(o) : r.at \in Nat \X Nat
             /\ \A r, s \in All(o) : r.at = s.at => r = s
  BY <1>1, <1>3, <1>5, <1>6
<1>10. ASSUME NEW w \in OfId(All(<<>>), id)
       PROVE  \E r \in OfId(All(overrides), id) : r.at = w.at /\ Merges(r, w, json)
  <2>1. CASE \E c \in given : w = FromPlugin(c, <<>>)
    BY <1>1, <1>5, <1>7, <1>10, <2>1 DEF OfId
  <2>2. CASE \E k \in DOMAIN StaticConfigs : w = Static(k, <<>>)
    BY <1>1, <1>5, <1>8, <1>10, <2>2 DEF OfId
  <2> QED
    BY <1>1, <2>1, <2>2 DEF OfId
<1>11. ASSUME NEW r \in OfId(All(overrides), id)
       PROVE  \E w \in OfId(All(<<>>), id) : w.at = r.at /\ Merges(r, w, json)
  <2>1. CASE \E c \in given : r = FromPlugin(c, overrides)
    BY <1>1, <1>5, <1>7, <1>11, <2>1 DEF OfId
  <2>2. CASE \E k \in DOMAIN StaticConfigs : r = Static(k, overrides)
    BY <1>1, <1>5, <1>8, <1>11, <2>2 DEF OfId
  <2> QED
    BY <1>1, <2>1, <2>2 DEF OfId
<1>12. Overridden(All(overrides), All(<<>>), id, json)
  BY <1>9, <1>10, <1>11 DEF Overridden
<1> QED
  BY <1>12 DEF All, json

\* The translation resources of the app: the words of an override come before those of
\* plugins and app, and what it leaves out is said as without it.
THEOREM OverridesAlwaysWin == Spec => []OverridesWin
<1>1. FrontendInv => OverridesWin
  <2> DEFINE without == processAllTranslationResources(plugins, loaded, <<>>)
             with(o) == processAllTranslationResources(plugins, loaded, o)
  <2> SUFFICES ASSUME FrontendInv, NEW overrides \in OverrideFiles, NEW r \in without,
                      NEW l \in Languages, NEW key \in MessageKeys, Overridable(r.id)
               PROVE  LET json == Said(Said(overrides, r.id), l) IN
                      /\ key \in DOMAIN json =>
                           Translated(with(overrides), r.id, l, key) = json[key]
                      /\ FirstHas(without, r.id, l) /\ key \notin DOMAIN json =>
                           Translated(with(overrides), r.id, l, key)
                             = Translated(without, r.id, l, key)
    BY Zenon DEF OverridesWin
  <2>1. Overridden(with(overrides), without, r.id, Said(overrides, r.id))
    BY OverridesOverride
  <2>2. OfId(without, r.id) # {}
    BY DEF OfId
  <2> HIDE DEF with, without
  <2> QED
    BY <2>1, <2>2, OverridesAreSaid, TheRestIsSaidAsBefore
<1> QED
  BY <1>1, FrontendInvariant, PTL
=============================================================================
